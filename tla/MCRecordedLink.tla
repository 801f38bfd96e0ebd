--------------------------- MODULE MCRecordedLink ---------------------------
(***************************************************************************)
(* RecordedLink in three scenes, whose product is out of reach: the        *)
(* control and the scan thread both start the link and send on it, and     *)
(* nothing is recorded; the control thread alone uses the link, with an    *)
(* I/O error at most, and records decisions on a disk that fills and is    *)
(* freed; or it does so without an error while the main thread logs, and   *)
(* finds sessions of earlier runs, as many as there is room for or one more.*)
(***************************************************************************)
EXTENDS RecordedLink

VARIABLE scene

MCInit ==
    /\ RecordedInit
    /\ \/ scene \in {"link", "records"} /\ old = 0
       \/ scene = "logs" /\ old \in {ROOM, ROOM + 1}

MCNext ==
    /\ RecordedNext
    /\ UNCHANGED scene
    /\ CASE scene = "link"    -> UNCHANGED recVars
         [] scene = "records" -> /\ pc'["scan"] = "idle"
                                 /\ step'["main"] = "free"
                                 /\ faults' <= 1
         [] scene = "logs"    -> pc'["scan"] = "idle" /\ faults' = 0

MCSpec == MCInit /\ [][MCNext]_<<allVars, scene>> /\ RecordedFairness
=============================================================================
