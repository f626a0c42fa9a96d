------------------------------ MODULE StoreCell ------------------------------
(***************************************************************************)
(* What the state-store cache promises: per project a write-once cell.     *)
(* The first access fills it, every later access gets the same store until *)
(* a shutdown empties all cells.                                           *)
(***************************************************************************)
CONSTANTS Handler, Project, Store, None

VARIABLES
    cell,   \* the store of each project, or None
    got     \* the store each handler was handed, or None

vars == <<cell, got>>

Init ==
    /\ cell = [p \in Project |-> None]
    /\ got = [h \in Handler |-> None]

Get(h, p, s) ==
    /\ got[h] = None
    /\ cell[p] \in {None, s}
    /\ cell' = [cell EXCEPT ![p] = s]
    /\ got' = [got EXCEPT ![h] = s]

Release(h) ==
    /\ got' = [got EXCEPT ![h] = None]
    /\ UNCHANGED cell

Empty ==
    /\ cell' = [p \in Project |-> None]
    /\ UNCHANGED got

Next ==
    \/ \E h \in Handler, p \in Project, s \in Store : Get(h, p, s)
    \/ \E h \in Handler : Release(h)
    \/ Empty

Spec == Init /\ [][Next]_vars
=============================================================================
