----------------------------- MODULE Pipelines -----------------------------
(***************************************************************************)
(* Pipeline jobs (internal/pipeline/executor.go and the tools run_pipeline *)
(* and cancel_pipeline_job): the goroutine that executes the commands of a *)
(* job and writes its status, and the calls that read the status, cancel   *)
(* the context of the job and write the status too, with nothing that      *)
(* would keep the two apart.                                               *)
(***************************************************************************)
EXTENDS Naturals

CONSTANTS
    Jobs,        \* job ids
    NoJob,       \* what a canceller at rest has in hand
    Cancellers,  \* concurrent calls of cancel_pipeline_job
    Commands,    \* bound: commands of a job, setup commands and steps alike
    MaxFaults    \* bound: failures of the store and restarts

ASSUME PipelinesAssumption ==
    NoJob \notin Jobs /\ Commands \in Nat /\ MaxFaults \in Nat

VARIABLES
    row,         \* the status in pipeline_jobs, "none" without a row
    stage,       \* where the goroutine of the job is
    ahead,       \* the commands it has not run yet
    tracked,     \* the keys of the map cancels
    aborted,     \* the jobs whose context is cancelled
    cancelling,  \* per canceller: the job and the step of its call
    faults,      \* how many failures and restarts there were
    unmarked     \* jobs with a status that could not be written

jobVars == <<row, stage, ahead, tracked, aborted>>
pipelineVars == <<jobVars, cancelling, faults, unmarked>>

Live == {"pending", "running"}
Final == {"completed", "failed", "cancelled"}
Executing == {"start", "load", "mark", "next", "command", "fail"}
AtRest == [job |-> NoJob, pc |-> "idle"]

PipelinesInit ==
    /\ row = [j \in Jobs |-> "none"] /\ stage = [j \in Jobs |-> "none"]
    /\ ahead = [j \in Jobs |-> 0] /\ tracked = {} /\ aborted = {}
    /\ cancelling = [c \in Cancellers |-> AtRest]
    /\ faults = 0 /\ unmarked = {}

\* A statement or a read of the store works, or fails within the bound.
Stored(ok) ==
    /\ ok \/ faults < MaxFaults
    /\ faults' = IF ok THEN faults ELSE faults + 1

\* The goroutine of a job returns: removeCancel and the deferred cancel.
Returns(j) ==
    /\ stage' = [stage EXCEPT ![j] = "ended"]
    /\ tracked' = tracked \ {j}

-----------------------------------------------------------------------------
(* run_pipeline and Execute.                                               *)

\* The handler creates the row and starts the goroutine.
RunPipeline(j) ==
    /\ row[j] = "none"
    /\ row' = [row EXCEPT ![j] = "pending"]
    /\ stage' = [stage EXCEPT ![j] = "start"]
    /\ \E n \in 0 .. Commands : ahead' = [ahead EXCEPT ![j] = n]
    /\ UNCHANGED <<tracked, aborted, cancelling, faults, unmarked>>

TrackCancel(j) ==
    /\ stage[j] = "start"
    /\ stage' = [stage EXCEPT ![j] = "load"]
    /\ tracked' = tracked \cup {j}
    /\ UNCHANGED <<row, ahead, aborted, cancelling, faults, unmarked>>

\* Mutant of AsksStore: the store is asked with another context.
AsksStoreAnyway(j) == TRUE

\* The store refuses a context that is cancelled.
AsksStore(j) == j \notin aborted

\* GetJob and GetPipeline: a failure ends the job with its row as it is.
LoadJob(j) ==
    /\ stage[j] = "load" /\ AsksStore(j)
    /\ \E ok \in BOOLEAN :
         /\ Stored(ok)
         /\ IF ok THEN stage' = [stage EXCEPT ![j] = "mark"] /\ UNCHANGED tracked
                  ELSE Returns(j)
         /\ unmarked' = IF ok THEN unmarked ELSE unmarked \cup {j}
    /\ UNCHANGED <<row, ahead, aborted, cancelling>>

MarkRunning(j) ==
    /\ stage[j] = "mark" /\ AsksStore(j)
    /\ \E ok \in BOOLEAN :
         /\ Stored(ok)
         /\ row' = IF ok THEN [row EXCEPT ![j] = "running"] ELSE row
         /\ IF ok THEN stage' = [stage EXCEPT ![j] = "next"] /\ UNCHANGED tracked
                  ELSE Returns(j)
         /\ unmarked' = IF ok THEN unmarked ELSE unmarked \cup {j}
    /\ UNCHANGED <<ahead, aborted, cancelling>>

\* parseEnvironment fails, or parseSwimlanes after the setup commands, or the
\* next command finds the context cancelled.
CannotGoOn(j) ==
    /\ stage[j] = "next"
    /\ stage' = [stage EXCEPT ![j] = "fail"]
    /\ UNCHANGED <<row, ahead, tracked, aborted, cancelling, faults, unmarked>>

StartCommand(j) ==
    /\ stage[j] = "next" /\ ahead[j] > 0 /\ j \notin aborted
    /\ stage' = [stage EXCEPT ![j] = "command"]
    /\ UNCHANGED <<row, ahead, tracked, aborted, cancelling, faults, unmarked>>

\* The command passes or fails.  One that is killed fails, but it may have
\* passed just before.
EndCommand(j) ==
    /\ stage[j] = "command"
    /\ \/ stage' = [stage EXCEPT ![j] = "fail"] /\ UNCHANGED ahead
       \/ /\ stage' = [stage EXCEPT ![j] = "next"]
          /\ ahead' = [ahead EXCEPT ![j] = @ - 1]
    /\ UNCHANGED <<row, tracked, aborted, cancelling, faults, unmarked>>

\* All have passed: the status is written with the context of the job.
Complete(j) ==
    /\ stage[j] = "next" /\ ahead[j] = 0 /\ AsksStore(j)
    /\ \E ok \in BOOLEAN :
         /\ Stored(ok)
         /\ row' = IF ok THEN [row EXCEPT ![j] = "completed"] ELSE row
         /\ unmarked' = IF ok THEN unmarked ELSE unmarked \cup {j}
    /\ Returns(j)
    /\ UNCHANGED <<ahead, aborted, cancelling>>

\* It has been refused: Execute returns, and leaves it to
\* the call that cancelled it to write the status.
Refused(j) ==
    /\ \/ stage[j] \in {"load", "mark"}
       \/ stage[j] = "next" /\ ahead[j] = 0
    /\ j \in aborted
    /\ Returns(j)
    /\ UNCHANGED <<row, ahead, aborted, cancelling, faults, unmarked>>

\* failJob writes with a context of its own, whatever the row says by now.
FailJob(j) ==
    /\ stage[j] = "fail"
    /\ \E ok \in BOOLEAN :
         /\ Stored(ok)
         /\ row' = IF ok THEN [row EXCEPT ![j] = "failed"] ELSE row
         /\ unmarked' = IF ok THEN unmarked ELSE unmarked \cup {j}
    /\ Returns(j)
    /\ UNCHANGED <<ahead, aborted, cancelling>>

-----------------------------------------------------------------------------
(* cancel_pipeline_job.                                                    *)

\* GetJob, and the check that the job is pending or running.
CancelReads(c, j) ==
    /\ cancelling[c] = AtRest
    /\ row[j] \in Live
    /\ cancelling' = [cancelling EXCEPT ![c] = [job |-> j, pc |-> "signal"]]
    /\ UNCHANGED <<jobVars, faults, unmarked>>

\* CancelJob cancels the context if the job is tracked.
CancelSignals(c) ==
    /\ cancelling[c].pc = "signal"
    /\ aborted' = aborted \cup ({cancelling[c].job} \cap tracked)
    /\ cancelling' = [cancelling EXCEPT ![c] = [job |-> @.job, pc |-> "write"]]
    /\ UNCHANGED <<row, stage, ahead, tracked, faults, unmarked>>

\* UpdateJobStatus overwrites whatever status the row has.
CancelWrites(c) ==
    LET j == cancelling[c].job IN
    /\ cancelling[c].pc = "write"
    /\ \E ok \in BOOLEAN :
         /\ Stored(ok)
         /\ row' = IF ok THEN [row EXCEPT ![j] = "cancelled"] ELSE row
         /\ unmarked' = IF ok THEN unmarked ELSE unmarked \cup {j}
    /\ cancelling' = [cancelling EXCEPT ![c] = AtRest]
    /\ UNCHANGED <<stage, ahead, tracked, aborted>>

-----------------------------------------------------------------------------
\* The process ends, and what its calls and goroutines had to write is not
\* written.  Nothing looks at the rows of jobs when it is started again.
PipelinesCrash ==
    /\ Stored(FALSE)
    /\ unmarked' = unmarked \cup {j \in Jobs : stage[j] \in Executing}
                            \cup {cancelling[c].job : c \in Cancellers}
    /\ stage' = [j \in Jobs |->
                   IF stage[j] \in Executing THEN "ended" ELSE stage[j]]
    /\ tracked' = {} /\ aborted' = {}
    /\ cancelling' = [c \in Cancellers |-> AtRest]
    /\ UNCHANGED <<row, ahead>>

PipelinesNext ==
    \/ PipelinesCrash
    \/ \E j \in Jobs :
          \/ RunPipeline(j) \/ TrackCancel(j) \/ LoadJob(j) \/ MarkRunning(j)
          \/ CannotGoOn(j) \/ StartCommand(j) \/ EndCommand(j) \/ Complete(j)
          \/ Refused(j) \/ FailJob(j)
    \/ \E c \in Cancellers :
          \/ CancelSignals(c) \/ CancelWrites(c)
          \/ \E j \in Jobs : CancelReads(c, j)

PipelinesSpec == PipelinesInit /\ [][PipelinesNext]_pipelineVars

-----------------------------------------------------------------------------
PipelinesTypeOK ==
    /\ row \in [Jobs -> {"none"} \cup Live \cup Final]
    /\ stage \in [Jobs -> {"none", "ended"} \cup Executing]
    /\ ahead \in [Jobs -> 0 .. Commands]
    /\ \A j \in Jobs : stage[j] = "command" => ahead[j] > 0
    /\ tracked \subseteq Jobs /\ aborted \subseteq Jobs
    /\ cancelling \in [Cancellers ->
                         {AtRest} \cup [job : Jobs, pc : {"signal", "write"}]]
    /\ faults \in 0 .. MaxFaults
    /\ unmarked \subseteq Jobs \cup {NoJob}

Cancelled(j) == \E c \in Cancellers : cancelling[c].job = j

\* A job whose execution has ended does not go on as pending or running in the
\* table: it is marked completed, failed or cancelled, or a call that cancels
\* it has still to write.  The writes of Execute and of cancel_pipeline_job
\* meet in any order; jobs that a failing store or a restart has cut off are
\* left out, because nothing repairs them.
EndedIsMarked ==
    \A j \in Jobs \ unmarked :
        stage[j] = "ended" /\ row[j] \in Live => Cancelled(j)
=============================================================================
