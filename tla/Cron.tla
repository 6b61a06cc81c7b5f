-------------------------------- MODULE Cron --------------------------------
(***************************************************************************)
(* Cron jobs (internal/cron): the scheduler, which dispatches the jobs     *)
(* that are due, the executor, which is told of a dispatch by an event of  *)
(* the bus and runs the job, and the calls that create, edit, trigger and  *)
(* delete jobs.  They meet in the tables cron_jobs and cron_executions; a  *)
(* dispatch is four statements and an edit writes back the whole row it    *)
(* has read, so that any of them may run between two others.               *)
(***************************************************************************)
EXTENDS Integers, Sequences, FiniteSets

CONSTANTS
    Jobs,         \* the ids of jobs; an id is never used twice
    Periods,      \* the schedules: a job of period p is due at its multiples
    Bad,          \* a schedule that does not parse; only plugins create one
    Same,         \* no schedule given: the job keeps the one it has
    Ticker,       \* the scheduler's own goroutine
    Callers,      \* concurrent calls of trigger_cron_job or update_cron_job
    Buffer,       \* capacity of the executor's channel
    MaxTime,      \* bound: how far the clock runs
    MaxTroubles   \* bound: calls on a job, failures of the store and restarts

ASSUME CronAssumption ==
    /\ Periods \subseteq Nat \ {0} /\ Bad \notin Nat /\ Same \notin Periods
    /\ Ticker \notin Callers
    /\ Buffer \in Nat /\ MaxTime \in Nat
    /\ MaxTroubles \in Nat

VARIABLES
    clock,      \* the time
    running,    \* the process is up
    job,        \* cron_jobs
    exec,       \* cron_executions, in the order of their creation
    fired,      \* the events cron.fire in the executor's channel
    seat,       \* where the executor is
    busy,       \* the event it handles
    at,         \* at[d]: where dispatcher d is
    item,       \* item[d]: the job it dispatches, as it read it
    batch,      \* the due jobs the scheduler has not dispatched yet
    draft,      \* per caller: the row it read, and when
    troubles,   \* how many calls, failures and restarts there were
    excused,    \* jobs one of whose slots a failure or an overlap brought back
    mixed       \* jobs given a schedule while someone held the one before

cronVars == <<clock, running, job, exec, fired, seat, busy, at, item,
              batch, draft, troubles, excused, mixed>>

Dispatchers == {Ticker} \cup Callers
Never == MaxTime + 100

Statuses == {"none", "running", "ended"}
NoRow == [live |-> FALSE, fresh |-> TRUE, enabled |-> FALSE, sched |-> Bad,
          next |-> Never, status |-> "none"]
NoEvent == [job |-> Bad, exec |-> 0]
NoItem == [id |-> Bad, sched |-> Bad, slot |-> Never, start |-> 0]
NoDraft == [id |-> Bad, row |-> NoRow, read |-> 0]

\* Schedule.NextAfter for a job that is due at the multiples of p.
NextAfter(p, t) == p * ((t \div p) + 1)

\* A statement of the store goes through (ok) or is one of those that fail.
Stored(ok) ==
    /\ ok \/ troubles < MaxTroubles
    /\ troubles' = IF ok THEN troubles ELSE troubles + 1

Trouble == troubles < MaxTroubles /\ troubles' = troubles + 1

\* Mutant of IsDue: a job that is said to run is left alone.
IsDueIdle(j) ==
    /\ job[j].live /\ job[j].enabled /\ job[j].next <= clock
    /\ job[j].status # "running"

\* GetDueJobs.
IsDue(j) == job[j].live /\ job[j].enabled /\ job[j].next <= clock

CronInit ==
    /\ clock = 0 /\ running = FALSE
    /\ job = [j \in Jobs |-> NoRow]
    /\ exec = <<>> /\ fired = <<>>
    /\ seat = "off" /\ busy = NoEvent
    /\ at = [d \in Dispatchers |-> "idle"]
    /\ item = [d \in Dispatchers |-> NoItem]
    /\ batch = {}
    /\ draft = [c \in Callers |-> NoDraft]
    /\ troubles = 0 /\ excused = {} /\ mixed = {}

-----------------------------------------------------------------------------
(* The process.                                                            *)

ClockTicks ==
    /\ clock < MaxTime
    /\ clock' = clock + 1
    /\ UNCHANGED <<running, job, exec, fired, seat, busy, at, item,
                   batch, draft, troubles, excused, mixed>>

\* Scheduler.InitializeNextRuns: every enabled job without a next run gets
\* one, except those whose schedule does not parse or whose row fails.
Unseeded == {j \in Jobs : /\ job[j].live /\ job[j].enabled
                          /\ job[j].next = Never /\ job[j].sched # Bad}

CronStart(seeded) ==
    /\ ~running /\ seeded \subseteq Unseeded
    /\ running' = TRUE
    /\ Stored(seeded = Unseeded)
    /\ job' = [j \in Jobs |-> IF j \in seeded
                    THEN [job[j] EXCEPT !.next = NextAfter(job[j].sched, clock)]
                    ELSE job[j]]
    /\ UNCHANGED <<clock, exec, fired, seat, busy, at, item, batch,
                   draft, excused, mixed>>

\* The process ends: the tables stay, the rest is lost.
CronCrash ==
    /\ running /\ Trouble
    /\ running' = FALSE
    /\ fired' = <<>> /\ seat' = "off" /\ busy' = NoEvent
    /\ at' = [d \in Dispatchers |-> "idle"]
    /\ item' = [d \in Dispatchers |-> NoItem]
    /\ batch' = {} /\ draft' = [c \in Callers |-> NoDraft]
    /\ excused' = excused \cup {item[d].id : d \in Dispatchers}
    /\ UNCHANGED <<clock, job, exec, mixed>>

-----------------------------------------------------------------------------
(* The scheduler and trigger_cron_job.                                     *)

\* Scheduler.checkAndDispatch: the jobs that are due now, as they are now.
CheckDue ==
    /\ running /\ at[Ticker] = "idle" /\ batch = {}
    /\ \E ok \in BOOLEAN :
         /\ Stored(ok)
         /\ batch' = IF ok THEN {[id |-> j, row |-> job[j]]
                                     : j \in {i \in Jobs : IsDue(i)}}
                           ELSE {}
    /\ UNCHANGED <<clock, running, job, exec, fired, seat, busy, at,
                   item, draft, excused, mixed>>

Begin(d, id, row, slot) ==
    /\ at' = [at EXCEPT ![d] = "create"]
    /\ item' = [item EXCEPT ![d] = [id |-> id, sched |-> row.sched,
                                    slot |-> slot, start |-> clock]]

\* The next of the due jobs, the one that has waited longest first.
DispatchDue ==
    /\ running /\ at[Ticker] = "idle"
    /\ \E b \in batch :
         /\ \A c \in batch : b.row.next <= c.row.next
         /\ batch' = batch \ {b}
         /\ Begin(Ticker, b.id, b.row, b.row.next)
    /\ UNCHANGED <<clock, running, job, exec, fired, seat, busy,
                   draft, troubles, excused, mixed>>

\* Each caller makes one call.
Free(c) == item[c] = NoItem /\ draft[c] = NoDraft

\* Scheduler.DispatchJob: any job, due or not, enabled or not.
Trigger(c, j) ==
    /\ running /\ Trouble /\ Free(c) /\ job[j].live
    /\ Begin(c, j, job[j], Never)
    /\ UNCHANGED <<clock, running, job, exec, fired, seat, busy,
                   batch, draft, excused, mixed>>

\* Mutant of Leaves: an execution that is not created is only logged.
LeavesOn(d) ==
    /\ at' = [at EXCEPT ![d] = IF @ = "create" THEN "last" ELSE "idle"]
    /\ item' = IF d = Ticker /\ at[d] # "create"
                 THEN [item EXCEPT ![d] = NoItem] ELSE item

\* A caller keeps its item when it returns.
Leaves(d) ==
    /\ at' = [at EXCEPT ![d] = "idle"]
    /\ item' = IF d = Ticker THEN [item EXCEPT ![d] = NoItem] ELSE item

\* CreateExecution: a row of a job that is gone breaks the foreign key.
CreateExecution(d) ==
    /\ at[d] = "create"
    /\ \E ok \in BOOLEAN :
         /\ Stored(ok)
         /\ IF ok /\ job[item[d].id].live
              THEN /\ exec' = Append(exec, [job |-> item[d].id, by |-> d,
                          slot |-> item[d].slot, start |-> item[d].start,
                          status |-> "running"])
                   /\ at' = [at EXCEPT ![d] = "fire"]
                   /\ item' = item
              ELSE exec' = exec /\ Leaves(d)
    /\ UNCHANGED <<clock, running, job, fired, seat, busy, batch,
                   draft, excused, mixed>>

\* The row a dispatcher has created last.
Mine(d) == CHOOSE e \in DOMAIN exec :
               /\ exec[e].by = d
               /\ \A f \in DOMAIN exec : exec[f].by = d => f <= e

\* EventBus.Publish: dropped when nobody listens or the channel is full.
Fire(d) ==
    /\ at[d] = "fire"
    /\ fired' = IF seat # "off" /\ Len(fired) < Buffer
                  THEN Append(fired, [job |-> item[d].id, exec |-> Mine(d)])
                  ELSE fired
    /\ at' = [at EXCEPT ![d] = "last"]
    /\ UNCHANGED <<clock, running, job, exec, seat, busy, item, batch,
                   draft, troubles, excused, mixed>>

\* UpdateLastRun(running): a failure, or a row that is gone, is only logged.
MarkRunning(d) ==
    /\ at[d] = "last"
    /\ at' = [at EXCEPT ![d] = "next"]
    /\ \E ok \in BOOLEAN :
         /\ Stored(ok)
         /\ job' = IF ok /\ job[item[d].id].live
                     THEN [job EXCEPT ![item[d].id].status = "running"]
                     ELSE job
    /\ UNCHANGED <<clock, running, exec, fired, seat, busy, item,
                   batch, draft, excused, mixed>>

\* Mutant of NextRun: the minute the dispatch began in counts.
NextRunNow(d) == NextAfter(item[d].sched, item[d].start - 1)

\* The next run, from the schedule and the time the dispatch began with.
NextRun(d) == NextAfter(item[d].sched, item[d].start)

\* UpdateNextRun.  A trigger that began before the slot the row has reached
\* by now takes it back, and so does a failure, which leaves the old one.
SetNextRun(d) ==
    /\ at[d] = "next"
    /\ Leaves(d)
    /\ LET j == item[d].id IN
       \E ok \in BOOLEAN :
         /\ Stored(ok)
         /\ IF item[d].sched # Bad /\ ok /\ job[j].live
              THEN /\ job' = [job EXCEPT ![j].next = NextRun(d)]
                   /\ excused' = IF NextRun(d) < job[j].next
                                   THEN excused \cup {j} ELSE excused
              ELSE /\ job' = job
                   /\ ok \/ item[d].sched # Bad
                   /\ excused' = IF ok THEN excused ELSE excused \cup {j}
    /\ UNCHANGED <<clock, running, exec, fired, seat, busy, batch,
                   draft, mixed>>

-----------------------------------------------------------------------------
(* The executor.                                                           *)

Subscribe ==
    /\ running /\ seat = "off"
    /\ seat' = "idle"
    /\ UNCHANGED <<clock, running, job, exec, fired, busy, at, item,
                   batch, draft, troubles, excused, mixed>>

\* Executor.handleFire: one event at a time.
Receive ==
    /\ seat = "idle" /\ fired # <<>>
    /\ seat' = "run"
    /\ busy' = Head(fired) /\ fired' = Tail(fired)
    /\ UNCHANGED <<clock, running, job, exec, at, item, batch, draft,
                   troubles, excused, mixed>>

\* The tool, the pipeline or the web hook returns or fails; either way the row
\* is completed, and which of the two it says is left out.
CompleteExecution ==
    /\ seat = "run"
    /\ seat' = "last"
    /\ \E ok \in BOOLEAN :
         /\ Stored(ok)
         /\ exec' = IF ok /\ exec[busy.exec].status # "none"
                      THEN [exec EXCEPT ![busy.exec].status = "ended"]
                      ELSE exec
    /\ UNCHANGED <<clock, running, job, fired, busy, at, item, batch, draft,
                   excused, mixed>>

UpdateLastRun ==
    /\ seat = "last"
    /\ seat' = "idle" /\ busy' = NoEvent
    /\ \E ok \in BOOLEAN :
         /\ Stored(ok)
         /\ job' = IF ok /\ job[busy.job].live
                     THEN [job EXCEPT ![busy.job].status = "ended"]
                     ELSE job
    /\ UNCHANGED <<clock, running, exec, fired, at, item, batch, draft,
                   excused, mixed>>

-----------------------------------------------------------------------------
(* The calls on jobs.                                                      *)

Insert(j, sched, on, next) ==
    /\ running /\ job[j].fresh
    /\ job' = [job EXCEPT ![j] = [live |-> TRUE, fresh |-> FALSE,
                  enabled |-> on, sched |-> sched, next |-> next,
                  status |-> "none"]]
    /\ UNCHANGED <<clock, running, exec, fired, seat, busy, at, item,
                   batch, draft, troubles, excused, mixed>>

\* create_cron_job: the schedule parses and the first run is computed.
CreateJob(j, p, on) == Insert(j, p, on, NextAfter(p, clock))

\* createPluginResources: no check of the schedule, and no first run.
CreatePluginJob(j, p) == Insert(j, p, TRUE, Never)

\* delete_cron_job: the executions of the job go with it.
DeleteJob(j) ==
    /\ running /\ Trouble /\ job[j].live
    /\ job' = [job EXCEPT ![j] = [NoRow EXCEPT !.fresh = FALSE]]
    /\ exec' = [e \in DOMAIN exec |-> IF exec[e].job = j
                  THEN [exec[e] EXCEPT !.status = "none"] ELSE exec[e]]
    /\ UNCHANGED <<clock, running, fired, seat, busy, at, item, batch,
                   draft, excused, mixed>>

\* update_cron_job reads the row ...
EditJob(c, j) ==
    /\ running /\ Trouble /\ Free(c) /\ job[j].live
    /\ draft' = [draft EXCEPT ![c] = [id |-> j, row |-> job[j],
                                      read |-> clock]]
    /\ UNCHANGED <<clock, running, job, exec, fired, seat, busy, at,
                   item, batch, excused, mixed>>

\* ... puts in what it was given, and computes the next run of a schedule it
\* was given, even the one the job has, at some time u since then ...
Edited(row, p, on, u) ==
    [row EXCEPT !.enabled = on,
                !.sched = IF p = Same THEN row.sched ELSE p,
                !.next = IF p = Same THEN row.next ELSE NextAfter(p, u)]

\* A dispatch of the job is under way.
Held(j) == \/ \E d \in Dispatchers : at[d] # "idle" /\ item[d].id = j
           \/ \E b \in batch : b.id = j

\* ... and writes all of it back.
SaveJob(c) ==
    LET d == draft[c] IN
    /\ running /\ d.id # Bad /\ d.row.live
    /\ \E p \in Periods \cup {Same}, on \in BOOLEAN, u \in d.read .. clock :
         job' = IF job[d.id].live
                  THEN [job EXCEPT ![d.id] = Edited(d.row, p, on, u)]
                  ELSE job
    /\ excused' = IF job'[d.id].next # job[d.id].next
                    THEN excused \cup {d.id} ELSE excused
    /\ mixed' = IF job'[d.id].sched # job[d.id].sched /\ Held(d.id)
                  THEN mixed \cup {d.id} ELSE mixed
    /\ draft' = [draft EXCEPT ![c].row.live = FALSE]
    /\ UNCHANGED <<clock, running, exec, fired, seat, busy, at, item,
                   batch, troubles>>

-----------------------------------------------------------------------------
DispatchStep(d) ==
    CreateExecution(d) \/ Fire(d) \/ MarkRunning(d) \/ SetNextRun(d)

ExecutorStep == Subscribe \/ Receive \/ CompleteExecution \/ UpdateLastRun

CronNext ==
    \/ ClockTicks \/ CronCrash
    \/ \E S \in SUBSET Jobs : CronStart(S)
    \/ CheckDue \/ DispatchDue
    \/ \E d \in Dispatchers : DispatchStep(d)
    \/ ExecutorStep
    \/ \E j \in Jobs : \/ \E p \in Periods, on \in BOOLEAN : CreateJob(j, p, on)
                       \/ \E p \in Periods \cup {Bad} : CreatePluginJob(j, p)
                       \/ DeleteJob(j)
    \/ \E c \in Callers :
          SaveJob(c) \/ \E j \in Jobs : Trigger(c, j) \/ EditJob(c, j)

CronSpec == CronInit /\ [][CronNext]_cronVars

CronFairness ==
    /\ WF_cronVars(\E S \in SUBSET Jobs : CronStart(S))
    /\ WF_cronVars(CheckDue) /\ WF_cronVars(DispatchDue)
    /\ \A d \in Dispatchers : WF_cronVars(DispatchStep(d))
    /\ WF_cronVars(ExecutorStep)

CronFairSpec == CronSpec /\ CronFairness

-----------------------------------------------------------------------------
\* dispatchJob: no slot of a job is passed over.  When something other than an
\* edit moves the next run of a job beyond a time that has come, an execution
\* was created for it since, whatever failed, was triggered, edited or
\* restarted in between.  A job whose schedule is changed while a dispatch
\* holds the one before is left out: that dispatch overwrites the first run
\* of the new schedule.
SlotServed ==
    [][\A j \in Jobs :
          (/\ job[j].live /\ job'[j].live /\ draft' = draft
           /\ j \notin mixed /\ job[j].next <= clock
           /\ job'[j].next > job[j].next)
          => \E e \in DOMAIN exec : /\ exec[e].job = j
                                   /\ exec[e].start >= job[j].next]_cronVars

\* checkAndDispatch: the scheduler dispatches a slot of a job once, unless
\* UpdateNextRun failed, the process ended in the middle of the dispatch, or
\* another call wrote the row while it was dispatched.
SlotOnce ==
    \A e, f \in DOMAIN exec :
        (/\ exec[e].by = Ticker /\ exec[f].by = Ticker
         /\ exec[e].job = exec[f].job /\ exec[e].slot = exec[f].slot)
        => e = f \/ exec[e].job \in excused

\* Run: a job that is due is dispatched, disabled or deleted in the end,
\* whatever events were dropped, and whatever was left of its last run.
DueIsServed ==
    \A j \in Jobs :
        LET due == job[j].live /\ job[j].enabled /\ job[j].next <= clock
        IN  (running /\ due) ~> ~due
=============================================================================
