----------------------------- MODULE MCToolLoop -----------------------------
(***************************************************************************)
(* One run of the executor with three tools.  The limit on messages is     *)
(* even, as the code's default of 20 is.                                   *)
(***************************************************************************)
EXTENDS ToolLoop, TLC

CONSTANTS n1, n2, n3

Symmetry == Permutations(Tools)
=============================================================================
