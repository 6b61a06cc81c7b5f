------------------------- MODULE MCAgentScheduler -------------------------
(* Instances of AgentScheduler for TLC: every message is for one agent. *)
EXTENDS AgentScheduler

CONSTANTS a1, a2, m1, m2

ToFirst == [m \in Msgs |-> a1]
=============================================================================
