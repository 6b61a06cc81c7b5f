----------------------------- MODULE MCControl -----------------------------
(***************************************************************************)
(* The approval gate and the agent scheduler, which do not meet, checked   *)
(* in one run: a behaviour is one of                                       *)
(*   guard      two writing calls of the executor loop, a direct one, and  *)
(*              two governance calls                                       *)
(*   scheduler  two agents and a message                                   *)
(***************************************************************************)
EXTENDS MCAgentScheduler, Guard, TLC

CONSTANTS w1, w2, d1, g1, g2

VARIABLE part

Tools == [c \in Calls |-> IF c \in {g1, g2} THEN "governance" ELSE "refactor"]
Kinds == [c \in Calls |-> IF c \in {g1, g2} THEN "view" ELSE "write"]

\* Beside a message and an update_agent, one of a prompt, a failure, a restart.
ControlInit ==
    /\ part \in {"guard", "scheduler"} /\ GuardInit /\ SchedulerInit
    /\ (MaxPrompts - prompts) + (MaxFaults - faults) + (MaxCrashes - crashes)
         = IF part = "scheduler" THEN 1 ELSE 0

GuardStep == part = "guard" /\ GuardNext /\ UNCHANGED <<part, schedulerVars>>

Scheduling == part = "scheduler" /\ UNCHANGED <<part, guardVars>>

SchedulerStep == Scheduling /\ SchedulerNext

\* The fairness of SchedulerFairSpec where the scheduler runs; a gate that
\* nobody has called enables no fair action.
ControlSpec ==
    /\ ControlInit
    /\ [][GuardStep \/ SchedulerStep]_<<part, guardVars, schedulerVars>>
    /\ GuardFairness
    /\ WF_schedulerVars(Scheduling /\ Start)
    /\ WF_schedulerVars(Scheduling /\ Scheduler)
    /\ WF_schedulerVars(Scheduling /\ phase = "stopping" /\ Crash)
    /\ \A a \in Agents, k \in Loops : WF_schedulerVars(Scheduling /\ DrainLoop(a, k))
=============================================================================
