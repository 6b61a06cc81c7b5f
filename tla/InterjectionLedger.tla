------------------------ MODULE InterjectionLedger ------------------------
(***************************************************************************)
(* What the Andon Cord promises about a single interjection, whoever calls *)
(* it and in whatever order: it is issued at most once, and it ends at     *)
(* most once, either by a resolution whose clearance reaches the level it  *)
(* was issued with, or because its TTL passed.  Nothing ever reopens it.   *)
(***************************************************************************)
EXTENDS Naturals

CONSTANTS Ids, Levels, Unchecked

VARIABLE row   \* per id: its status, source clearance and resolver clearance

Blank(r) == r.status = "none" /\ r.resolver = Unchecked

Init == \A id \in Ids : Blank(row[id])

\* Somebody pulls the cord.
Issue(id, level) ==
    /\ row[id].status = "none"
    /\ row' = [row EXCEPT ![id] = [status |-> "active", clearance |-> level,
                                   resolver |-> Unchecked]]

\* A resolver whose clearance was checked must reach the source clearance.
Clear(id, level) ==
    /\ row[id].status = "active"
    /\ level \in Levels => level >= row[id].clearance
    /\ row' = [row EXCEPT ![id].status = "resolved", ![id].resolver = level]

\* The TTL has passed.
Lapse(id) ==
    /\ row[id].status = "active"
    /\ row' = [row EXCEPT ![id].status = "expired"]

Next == \E id \in Ids :
    \/ \E level \in Levels : Issue(id, level)
    \/ \E level \in Levels \cup {Unchecked} : Clear(id, level)
    \/ Lapse(id)

Spec == Init /\ [][Next]_row
=============================================================================
