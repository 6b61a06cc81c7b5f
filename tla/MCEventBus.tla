---------------------------- MODULE MCEventBus ----------------------------
(***************************************************************************)
(* Instances of EventBus for TLC: subscriber "all" takes every event,      *)
(* subscriber "some" only those of type t1.                                *)
(***************************************************************************)
EXTENDS EventBus, TLC

CONSTANTS p1, p2, c1, c2, c3, all, some, t1, t2

Filters == [s \in SubIds |-> IF s = some THEN {t1} ELSE Types]

Symmetry == Permutations(Publishers) \cup Permutations(Channels)
=============================================================================
