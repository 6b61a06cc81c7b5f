------------------------------ MODULE Workflow ------------------------------
(***************************************************************************)
(* One run of a workflow (internal/workflow): the call that starts it, the *)
(* goroutine that walks the graph of its steps level by level, one         *)
(* goroutine per step of the level, the approvals steps wait for, and the  *)
(* call that cancels it.  The run ends with the context of the request     *)
(* that started it.                                                        *)
(***************************************************************************)
EXTENDS Integers, FiniteSets

CONSTANTS
    Steps,        \* the steps of the workflow
    Graphs,       \* the dependencies it may have, functions on Steps
    Gated,        \* the steps with RequiresApproval
    Conditional,  \* the steps with a condition
    MaxFaults     \* bound: writes that fail though the context is alive

ASSUME WorkflowAssumption ==
    /\ IsFiniteSet(Steps)
    /\ Graphs \subseteq [Steps -> SUBSET Steps]
    /\ Gated \subseteq Steps /\ Conditional \subseteq Steps
    /\ MaxFaults \in Nat

VARIABLES
    deps,      \* DependsOn of each step
    ctx,       \* the context of the run: live or dead
    runRow,    \* the status of the run in the store
    rows,      \* the status of each step in the store
    main,      \* executeDAG: idle, level, wait, end, complete or over
    depth,     \* the level it has come to
    stage,        \* per step: idle, begin, gate, select, act or over
    completed, \* what each step came to
    waiters,   \* the steps with a waiter
    closed,    \* the steps whose waiter's channel is closed
    approved,  \* the steps that ApproveStep was called for
    acted,     \* the steps whose action was run
    cancel,    \* CancelRun: idle, approvals, row or done
    faults     \* how many writes have failed

rowVars == <<runRow, rows, faults>>
gateVars == <<waiters, closed, approved>>
wfVars == <<deps, ctx, rowVars, main, depth, stage, completed, gateVars, acted,
            cancel>>

-----------------------------------------------------------------------------
(* The graph.                                                              *)

\* Mutant of IsLevelling: the level of the nearest dependency counts.
IsLevellingNear(l) ==
    \A s \in Steps :
        IF deps[s] = {} THEN l[s] = 0
        ELSE /\ \A d \in deps[s] : l[s] <= l[d] + 1
             /\ \E d \in deps[s] : l[s] = l[d] + 1

\* groupByLevel: one more than the highest level of the dependencies.
IsLevelling(l) ==
    \A s \in Steps :
        IF deps[s] = {} THEN l[s] = 0
        ELSE /\ \A d \in deps[s] : l[s] > l[d]
             /\ \E d \in deps[s] : l[s] = l[d] + 1

Levellings ==
    {l \in [Steps -> 0 .. Cardinality(Steps)] : IsLevelling(l)}

\* validateDAG, topoSort: without a cycle there is a levelling, and one only.
Valid == Levellings # {}

Level == CHOOSE l \in Levellings : TRUE

AtLevel(n) == {s \in Steps : Level[s] = n}

-----------------------------------------------------------------------------
WorkflowInit ==
    /\ deps \in Graphs
    /\ ctx = "live" /\ runRow = "none"
    /\ rows = [s \in Steps |-> "none"]
    /\ main = "idle" /\ depth = 0
    /\ stage = [s \in Steps |-> "idle"]
    /\ completed = [s \in Steps |-> "none"]
    /\ waiters = {} /\ closed = {} /\ approved = {}
    /\ acted = {} /\ cancel = "idle" /\ faults = 0

\* A write fails when the context is dead, or by itself.
Written(ok) ==
    IF ctx = "dead" THEN ~ok /\ UNCHANGED faults
    ELSE /\ ok \/ faults < MaxFaults
         /\ faults' = IF ok THEN faults ELSE faults + 1

\* The status of a step; a failure is only logged.
Record(s, status) ==
    \E ok \in BOOLEAN :
        /\ Written(ok)
        /\ rows' = IF ok THEN [rows EXCEPT ![s] = status] ELSE rows

\* StartRun: the run, its steps, and the run once more; what a failure has
\* left stays.
StartRun ==
    /\ main = "idle" /\ runRow = "none" /\ Valid
    /\ runRow' = "running" /\ rows' = [s \in Steps |-> "pending"]
    /\ main' = "level"
    /\ UNCHANGED <<deps, ctx, faults, depth, stage, completed, gateVars, acted,
                   cancel>>

StartFails ==
    /\ main = "idle" /\ runRow = "none" /\ Valid
    /\ faults < MaxFaults /\ faults' = faults + 1
    /\ runRow' = "pending"
    /\ \E S \in SUBSET Steps :
         rows' = [s \in Steps |-> IF s \in S THEN "pending" ELSE "none"]
    /\ UNCHANGED <<deps, ctx, main, depth, stage, completed, gateVars, acted,
                   cancel>>

\* The request that started the run is answered, and its context ends.
RequestEnds ==
    /\ main # "idle" /\ ctx = "live"
    /\ ctx' = "dead"
    /\ UNCHANGED <<deps, rowVars, main, depth, stage, completed, gateVars, acted,
                   cancel>>

-----------------------------------------------------------------------------
(* executeDAG.                                                             *)

RunFailed == \E s \in Steps : completed[s] = "failed"

\* failRun, with a context of its own ...
FailRunAnyway ==
    \/ runRow' = "failed" /\ UNCHANGED faults
    \/ /\ faults < MaxFaults /\ faults' = faults + 1
       /\ UNCHANGED runRow

\* ... or with that of the run.
WriteRun(status) ==
    \E ok \in BOOLEAN :
        /\ Written(ok)
        /\ runRow' = IF ok THEN status ELSE runRow

BeginLevel ==
    /\ main = "level" /\ ~RunFailed /\ ctx = "live" /\ AtLevel(depth) # {}
    /\ main' = "wait"
    /\ stage' = [s \in Steps |-> IF s \in AtLevel(depth) THEN "begin" ELSE stage[s]]
    /\ UNCHANGED <<deps, ctx, rowVars, depth, completed, gateVars, acted,
                   cancel>>

CancelledBetween ==
    /\ main = "level" /\ ~RunFailed /\ ctx = "dead" /\ AtLevel(depth) # {}
    /\ FailRunAnyway
    /\ main' = "over"
    /\ UNCHANGED <<deps, ctx, rows, depth, stage, completed, gateVars, acted,
                   cancel>>

LevelsDone ==
    /\ main = "level"
    /\ RunFailed \/ AtLevel(depth) = {}
    /\ main' = "end"
    /\ UNCHANGED <<deps, ctx, rowVars, depth, stage, completed, gateVars, acted,
                   cancel>>

\* wg.Wait.
EndLevel ==
    /\ main = "wait" /\ \A s \in AtLevel(depth) : stage[s] = "over"
    /\ main' = "level" /\ depth' = depth + 1
    /\ UNCHANGED <<deps, ctx, rowVars, stage, completed, gateVars, acted, cancel>>

EndRun ==
    /\ main = "end"
    /\ IF RunFailed THEN WriteRun("failed") /\ main' = "over"
       ELSE IF ctx = "dead" THEN FailRunAnyway /\ main' = "over"
       ELSE main' = "complete" /\ UNCHANGED <<runRow, faults>>
    /\ UNCHANGED <<deps, ctx, rows, depth, stage, completed, gateVars, acted,
                   cancel>>

CompleteRun ==
    /\ main = "complete"
    /\ WriteRun("completed") /\ main' = "over"
    /\ UNCHANGED <<deps, ctx, rows, depth, stage, completed, gateVars, acted,
                   cancel>>

-----------------------------------------------------------------------------
(* executeStep.                                                            *)

StepOver(s, result) ==
    /\ stage' = [stage EXCEPT ![s] = "over"]
    /\ completed' = [completed EXCEPT ![s] = result]

\* The condition is false, or cannot be evaluated.
ConditionEnds(s) ==
    /\ stage[s] = "begin" /\ s \in Conditional
    /\ \E result \in {"skipped", "failed"} :
         StepOver(s, result) /\ Record(s, result)
    /\ UNCHANGED <<deps, ctx, runRow, main, depth, gateVars, acted, cancel>>

StepRuns(s) ==
    /\ stage[s] = "begin"
    /\ Record(s, "running")
    /\ stage' = [stage EXCEPT ![s] = IF s \in Gated THEN "gate" ELSE "act"]
    /\ UNCHANGED <<deps, ctx, runRow, main, depth, completed, gateVars, acted,
                   cancel>>

\* WaitForApproval.
WaitForApproval(s) ==
    /\ stage[s] = "gate"
    /\ Record(s, "waiting_approval")
    /\ waiters' = waiters \cup {s}
    /\ stage' = [stage EXCEPT ![s] = "select"]
    /\ UNCHANGED <<deps, ctx, runRow, main, depth, completed, closed, approved,
                   acted, cancel>>

\* The channel is closed.
Released(s) ==
    /\ stage[s] = "select" /\ s \in closed
    /\ Record(s, "running")
    /\ stage' = [stage EXCEPT ![s] = "act"]
    /\ UNCHANGED <<deps, ctx, runRow, main, depth, completed, gateVars, acted,
                   cancel>>

\* Mutant of GivesUp: a step that waits does not look at the context.
GivesUpNever(s) == FALSE

GivesUp(s) == stage[s] = "select" /\ ctx = "dead"

\* The context has ended; the waiter stays.
Aborted(s) ==
    /\ GivesUp(s)
    /\ StepOver(s, "failed") /\ Record(s, "failed")
    /\ UNCHANGED <<deps, ctx, runRow, main, depth, gateVars, acted, cancel>>

\* runStepAction works or fails.
Act(s) ==
    /\ stage[s] = "act"
    /\ acted' = acted \cup {s}
    /\ \E result \in {"completed", "failed"} :
         StepOver(s, result) /\ Record(s, result)
    /\ UNCHANGED <<deps, ctx, runRow, main, depth, gateVars, cancel>>

-----------------------------------------------------------------------------
(* The calls.                                                              *)

\* ApproveStep.
ApproveStep(s) ==
    /\ s \in waiters
    /\ waiters' = waiters \ {s} /\ closed' = closed \cup {s}
    /\ approved' = approved \cup {s}
    /\ UNCHANGED <<deps, ctx, rowVars, main, depth, stage, completed, acted, cancel>>

\* CancelRun finds the run among those that are active, and ends its context ...
CancelRun ==
    /\ cancel = "idle" /\ main \notin {"idle", "over"}
    /\ cancel' = "approvals" /\ ctx' = "dead"
    /\ UNCHANGED <<deps, rowVars, main, depth, stage, completed, gateVars, acted>>

\* ... CancelAll closes the channels ...
CancelAll ==
    /\ cancel = "approvals"
    /\ cancel' = "row"
    /\ waiters' = {} /\ closed' = closed \cup waiters
    /\ UNCHANGED <<deps, ctx, rowVars, main, depth, stage, completed, approved,
                   acted>>

\* ... and the run is marked, with the context of this request.
CancelWrites ==
    /\ cancel = "row"
    /\ cancel' = "done"
    /\ \/ runRow' = "cancelled" /\ UNCHANGED faults
       \/ /\ faults < MaxFaults /\ faults' = faults + 1
          /\ UNCHANGED runRow
    /\ UNCHANGED <<deps, ctx, rows, main, depth, stage, completed, gateVars, acted>>

\* The server ends; nothing takes the run up again.
WorkflowCrash ==
    /\ main \notin {"idle", "over"}
    /\ main' = "over" /\ ctx' = "dead"
    /\ stage' = [s \in Steps |-> IF stage[s] = "idle" THEN "idle" ELSE "over"]
    /\ waiters' = {} /\ cancel' = "done"
    /\ UNCHANGED <<deps, rowVars, depth, completed, closed, approved, acted>>

-----------------------------------------------------------------------------
Main ==
    \/ BeginLevel \/ CancelledBetween \/ LevelsDone \/ EndLevel \/ EndRun
    \/ CompleteRun

RunStep(s) ==
    \/ ConditionEnds(s) \/ StepRuns(s) \/ WaitForApproval(s)
    \/ Released(s) \/ Aborted(s) \/ Act(s)

WorkflowNext ==
    \/ StartRun \/ StartFails \/ RequestEnds \/ Main
    \/ CancelRun \/ CancelAll \/ CancelWrites \/ WorkflowCrash
    \/ \E s \in Steps : RunStep(s) \/ ApproveStep(s)

WorkflowSpec == WorkflowInit /\ [][WorkflowNext]_wfVars

\* The goroutines of the run go on; nobody has to approve or to cancel.
WorkflowFairness ==
    WF_wfVars(Main) /\ \A s \in Steps : WF_wfVars(RunStep(s))

-----------------------------------------------------------------------------
\* A step begins when all it depends on has been completed or skipped.
StepsInOrder ==
    \A s \in Steps :
        stage[s] # "idle" =>
            \A d \in deps[s] : completed[d] \in {"completed", "skipped"}

\* The action of a gated step runs when it was approved.  CancelRun is the
\* exception: a step that waits may take the channel it closes for an approval.
GatesHold == acted \cap Gated \subseteq approved \/ cancel # "idle"

\* executeDAG and executeStep: no step acts before its turn, whichever fail,
\* are skipped, wait or are cancelled beside it.
ActsInTurn == StepsInOrder /\ GatesHold

\* A run whose context has ended comes to its end, also when a step begins to
\* wait for its approval after CancelAll.
DeadRunEnds == (main # "idle" /\ ctx = "dead") ~> (main = "over")

\* approval.go says of CancelAll: it "closes all pending approval waiters
\* without approving them".
CancelApprovesNone == acted \cap Gated \subseteq approved
=============================================================================
