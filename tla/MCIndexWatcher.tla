--------------------------- MODULE MCIndexWatcher ---------------------------
(* One file of the code index, for TLC. *)
EXTENDS IndexWatcher

CONSTANT f1

\* The second content is shorter than the first.
SizeDef == <<2, 1>>
=============================================================================
