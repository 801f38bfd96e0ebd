------------------------------ MODULE EventLog ------------------------------
(***************************************************************************)
(* What DBManager (db_manager.py) promises about the events it stores: a   *)
(* log in the order of the ids, from which only the oldest events are      *)
(* taken away, unless the operator clears a type or all of them.           *)
(***************************************************************************)
EXTENDS Naturals

CONSTANT Types          \* of events

VARIABLE log            \* a set of events, by id and type

Event == [id : Nat \ {0}, type : Types]

Init == log = {}

\* A new event comes after every other.
Record(e) ==
    /\ e \in Event
    /\ \A r \in log : r.id < e.id
    /\ log' = log \cup {e}

\* The oldest go first.
Forget(old) ==
    /\ \A o \in old, r \in log \ old : o.id < r.id
    /\ log' = log \ old

ClearType(type) == log' = {e \in log : e.type # type}

Next ==
    \/ \E e \in log' \ log : Record(e)
    \/ \E old \in SUBSET log : Forget(old)
    \/ \E type \in Types : ClearType(type)

Spec == Init /\ [][Next]_log
=============================================================================
