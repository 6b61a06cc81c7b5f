---------------------------- MODULE MCInterject ----------------------------
(***************************************************************************)
(* Instances of Interject for TLC.  Agent a leads agent b; in the looped   *)
(* hierarchy b leads a, and a leads itself, which set_agent_hierarchy      *)
(* accepts: a halt of a goes once round the loop before it is cut.         *)
(***************************************************************************)
EXTENDS Interject, TLC

CONSTANTS a, b, i1, i2, i3, p1, p2, m1

Pair == (a :> <<b>>) @@ (b :> <<>>) @@ (Global :> <<>>)
Loop == (a :> <<a>>) @@ (b :> <<a>>) @@ (Global :> <<>>)

Symmetry == Permutations(Ids)
=============================================================================
