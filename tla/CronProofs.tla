---------------------------- MODULE CronProofs -----------------------------
(***************************************************************************)
(* Proofs about the jobs of the cron scheduler (Cron), for any jobs,       *)
(* schedules, callers and bounds, and about the search for the next run    *)
(* (CronSearch), for any schedules, minutes and lengths of the calendar.   *)
(***************************************************************************)
EXTENDS Cron, CronSearch, SequenceTheorems, FiniteSetTheorems, NaturalsInduction,
        WellFoundedInduction, TLAPS

-----------------------------------------------------------------------------
(***************************************************************************)
(* Cron.  The next run of a job that nobody has excused only grows, and a  *)
(* slot is left behind before the scheduler looks at the table again: the  *)
(* slots it has dispatched lie below what it is going to dispatch, or      *)
(* below the next run of the job, or are the one it has in hand (SlotInv). *)
(***************************************************************************)
CronSteps == {"idle", "create", "fire", "last", "next"}
CronRow == [live: BOOLEAN, fresh: BOOLEAN, enabled: BOOLEAN,
        sched: Periods \cup {Bad}, next: Nat, status: Statuses]
DueRow == [id: Jobs, row: CronRow]
CronItem == [id: Jobs \cup {Bad}, sched: Periods \cup {Bad}, slot: Nat, start: Nat]
CronDraft == [id: Jobs \cup {Bad}, row: CronRow, read: Nat]
CronRun == [job: Jobs, by: Dispatchers, slot: Nat, start: Nat, status: Statuses]

CronTypeOK ==
    /\ clock \in 0 .. MaxTime /\ running \in BOOLEAN
    /\ job \in [Jobs -> CronRow]
    /\ exec \in Seq(CronRun)
    /\ at \in [Dispatchers -> CronSteps] /\ item \in [Dispatchers -> CronItem]
    /\ batch \subseteq DueRow /\ draft \in [Callers -> CronDraft]

\* A dispatcher that is at work has a job.
ItemInv == \A d \in Dispatchers : at[d] # "idle" => item[d].id \in Jobs

\* A job that is in the table, or that a call has read, is not new ...
LiveInv ==
    /\ \A j \in Jobs : job[j].live => ~job[j].fresh
    /\ \A c \in Callers : draft[c].row.live => ~draft[c].row.fresh

\* ... and one that is new has not been run and is in nobody's hands.
FreshInv ==
    \A j \in Jobs : job[j].fresh =>
        /\ \A e \in DOMAIN exec : exec[e].job # j
        /\ ~Held(j)

\* The scheduler takes a job when its time has come, once in a round.
RoundInv ==
    /\ \A b \in batch : b.row.next <= clock
    /\ \A b, c \in batch : b.id = c.id => b = c
    /\ at[Ticker] # "idle" =>
          /\ item[Ticker].slot <= item[Ticker].start
          /\ \A b \in batch : b.id # item[Ticker].id
    /\ \A d \in Dispatchers : item[d].start <= clock
    /\ \A e \in DOMAIN exec : exec[e].by = Ticker => exec[e].slot <= clock

\* A schedule that does not parse is never due.
BadInv ==
    /\ \A j \in Jobs \ excused :
          job[j].live /\ job[j].sched = Bad => job[j].next >= Never
    /\ \A c \in Callers :
          draft[c].row.live /\ draft[c].id \notin excused /\ draft[c].row.sched = Bad
          => draft[c].row.next >= Never
    /\ \A b \in batch : b.id \notin excused => b.row.sched # Bad
    /\ at[Ticker] # "idle" /\ item[Ticker].id \notin excused =>
          item[Ticker].sched # Bad

InHand(e) == at[Ticker] \in {"fire", "last", "next"}
            /\ item[Ticker].id = exec[e].job /\ item[Ticker].slot = exec[e].slot

SlotInv ==
    \A e \in DOMAIN exec : exec[e].by = Ticker /\ exec[e].job \notin excused =>
        /\ \A b \in batch : b.id = exec[e].job => exec[e].slot < b.row.next
        /\ at[Ticker] = "create" /\ item[Ticker].id = exec[e].job =>
              exec[e].slot < item[Ticker].slot
        /\ job[exec[e].job].live =>
              exec[e].slot < job[exec[e].job].next \/ InHand(e)

\* t is a time of the schedule p, or there is none.
Fits(p, t) == t = Never \/ (p # Bad /\ \E k \in Nat : t = p * k)

\* Unless a job has got another schedule while it was held, whoever holds it
\* has its schedule, and its next run is a time of that schedule.
SchedInv ==
    /\ \A j \in Jobs \ mixed : job[j].live =>
          /\ Fits(job[j].sched, job[j].next)
          /\ \A d \in Dispatchers :
                at[d] # "idle" /\ item[d].id = j => item[d].sched = job[j].sched
          /\ \A b \in batch : b.id = j => b.row.sched = job[j].sched
    /\ \A c \in Callers :
          draft[c].row.live /\ draft[c].id \notin mixed =>
              Fits(draft[c].row.sched, draft[c].row.next)

\* What a dispatcher has created is there.
CreatedInv ==
    \A d \in Dispatchers : at[d] \in {"fire", "last", "next"} =>
        \E e \in DOMAIN exec : exec[e].job = item[d].id /\ exec[e].start = item[d].start

CronInv == /\ CronTypeOK /\ ItemInv /\ LiveInv /\ FreshInv /\ RoundInv /\ BadInv
           /\ SlotInv /\ SlotOnce /\ SchedInv /\ CreatedInv

-----------------------------------------------------------------------------
(* The times of a schedule.                                                *)

LEMMA NextIsLater ==
    ASSUME NEW p \in Nat \ {0}, NEW t \in Nat
    PROVE  /\ NextAfter(p, t) \in Nat /\ NextAfter(p, t) > t
           /\ \E k \in Nat : NextAfter(p, t) = p * k
           /\ \A k \in Nat : p * k > t => p * k >= NextAfter(p, t)
<1>. DEFINE q == t \div p
<1>1. q \in Nat /\ p * q <= t /\ t < p * (q + 1)
  OBVIOUS
<1>2. NextAfter(p, t) = p * (q + 1)
  BY DEF NextAfter
<1>3. ASSUME NEW k \in Nat, p * k > t
      PROVE  p * k >= p * (q + 1)
  <2>1. q < k
    <3>. SUFFICES ASSUME k <= q PROVE FALSE
      BY <1>1
    <3>1. p * k <= p * q
      BY <1>1
    <3>. QED  BY <1>1, <1>3, <3>1
  <2>2. q + 1 <= k
    BY <1>1, <2>1
  <2>. QED  BY <1>1, <2>2
<1>. HIDE DEF q
<1>4. p * (q + 1) \in Nat
  BY <1>1
<1>. QED  BY <1>1, <1>2, <1>3, <1>4
-----------------------------------------------------------------------------
(* Types.                                                                  *)

LEMMA CronInits == CronInit => CronInv
<1>. SUFFICES ASSUME CronInit PROVE CronInv
  OBVIOUS
<1>1. NoRow \in CronRow /\ NoItem \in CronItem /\ NoDraft \in CronDraft
  BY CronAssumption DEF CronAssumption, NoRow, NoItem, NoDraft, CronRow, CronItem,
                        CronDraft, Never, Statuses
<1>2. CronTypeOK
  <2>1. /\ clock \in 0 .. MaxTime /\ running \in BOOLEAN /\ exec \in Seq(CronRun)
        /\ at \in [Dispatchers -> CronSteps] /\ batch \subseteq DueRow
    <3>1. clock \in 0 .. MaxTime
      BY CronAssumption DEF CronInit, CronAssumption
    <3>0. running \in BOOLEAN /\ batch \subseteq DueRow
      BY DEF CronInit
    <3>2. exec \in Seq(CronRun)
      BY DEF CronInit
    <3>3. at \in [Dispatchers -> CronSteps]
      BY DEF CronInit, CronSteps
    <3>. QED  BY <3>0, <3>1, <3>2, <3>3
  <2>2. /\ job \in [Jobs -> CronRow] /\ item \in [Dispatchers -> CronItem]
        /\ draft \in [Callers -> CronDraft]
    BY <1>1 DEF CronInit
  <2>. QED  BY <2>1, <2>2 DEF CronTypeOK
<1>3. ItemInv /\ LiveInv /\ FreshInv /\ RoundInv
  BY <1>2, CronAssumption DEF CronAssumption, CronTypeOK, CronInit, ItemInv, LiveInv, FreshInv,
                              RoundInv, Held, NoDraft, NoRow, NoItem, Dispatchers
<1>4. BadInv /\ SlotInv /\ SlotOnce /\ SchedInv /\ CreatedInv
  BY <1>2, CronAssumption DEF CronAssumption, CronTypeOK, CronInit, BadInv, SlotInv, SlotOnce,
                              SchedInv, CreatedInv, NoDraft, NoRow, NoItem, Dispatchers
<1>. QED  BY <1>2, <1>3, <1>4 DEF CronInv

\* A row that has got another status, or another next run, is still a row.
LEMMA RowStays ==
    ASSUME NEW r \in CronRow
    PROVE  /\ \A s \in Statuses : [r EXCEPT !.status = s] \in CronRow
           /\ \A t \in Nat : [r EXCEPT !.next = t] \in CronRow
           /\ [NoRow EXCEPT !.fresh = FALSE] \in CronRow
           /\ [r EXCEPT !.live = FALSE] \in CronRow
<1>1. Never \in Nat
  BY CronAssumption DEF Never, CronAssumption
<1>. QED  BY <1>1 DEF CronRow, NoRow, Statuses

\* A row put in the place of another one.
LEMMA RowPut ==
    ASSUME NEW f \in [Jobs -> CronRow], NEW j, NEW r, j \in Jobs => r \in CronRow
    PROVE  [f EXCEPT ![j] = r] \in [Jobs -> CronRow]
OBVIOUS

\* The next run of a schedule is a later time.
LEMMA NextIsTime ==
    ASSUME NEW p \in Periods, NEW t \in Nat
    PROVE  NextAfter(p, t) \in Nat /\ NextAfter(p, t) > t
<1>1. p \in Nat \ {0}
  BY CronAssumption DEF CronAssumption
<1>. QED  BY <1>1, NextIsLater

\* What update_cron_job writes back: the row it has read, but for what it was given.
LEMMA EditedIsRow ==
    ASSUME NEW r \in CronRow, NEW p \in Periods \cup {Same}, NEW on \in BOOLEAN,
           NEW u \in Nat
    PROVE  /\ Edited(r, p, on, u) \in CronRow
           /\ Edited(r, p, on, u).live = r.live
           /\ Edited(r, p, on, u).fresh = r.fresh
           /\ p = Same => /\ Edited(r, p, on, u).sched = r.sched
                          /\ Edited(r, p, on, u).next = r.next
           /\ p # Same => /\ Edited(r, p, on, u).sched = p
                          /\ Edited(r, p, on, u).next = NextAfter(p, u)
<1>1. p # Same => NextAfter(p, u) \in Nat
  BY NextIsTime
<1>. QED  BY <1>1 DEF Edited, CronRow

\* Every step keeps the types.
LEMMA CronTypeStep ==
    ASSUME CronTypeOK, ItemInv, [CronNext]_cronVars
    PROVE  CronTypeOK'
<1>. USE CronAssumption DEF CronAssumption
<1>0. NoItem \in CronItem /\ NoDraft \in CronDraft /\ Ticker \in Dispatchers
      /\ Callers \subseteq Dispatchers
  BY DEF NoRow, NoItem, NoDraft, CronRow, CronItem, CronDraft, Never, Statuses, Dispatchers
<1>1. CASE UNCHANGED cronVars
  BY <1>1 DEF cronVars, CronTypeOK
<1>2. CASE ClockTicks
  BY <1>2 DEF ClockTicks, CronTypeOK
<1>3. CASE CronCrash
  BY <1>0, <1>3 DEF CronCrash, CronTypeOK, CronSteps
<1>4. ASSUME NEW S \in SUBSET Jobs, CronStart(S) PROVE CronTypeOK'
  <2>1. \A j \in S : NextAfter(job[j].sched, clock) \in Nat
    BY <1>4, NextIsTime DEF CronStart, Unseeded, CronTypeOK, CronRow
  <2>2. job' \in [Jobs -> CronRow]
    BY <1>4, <2>1, RowStays DEF CronStart, CronTypeOK
  <2>. QED  BY <1>4, <2>2 DEF CronStart, CronTypeOK
<1>5. CASE CheckDue
  <2>1. \A j \in Jobs : [id |-> j, row |-> job[j]] \in DueRow
    BY DEF CronTypeOK, DueRow
  <2>2. batch' \subseteq DueRow
    BY <1>5, <2>1 DEF CheckDue
  <2>. QED  BY <1>5, <2>2 DEF CheckDue, CronTypeOK
<1>6. CASE DispatchDue
  <2>1. PICK b \in batch : batch' = batch \ {b} /\ Begin(Ticker, b.id, b.row, b.row.next)
    BY <1>6 DEF DispatchDue
  <2>2. b.id \in Jobs /\ b.row \in CronRow
    BY DEF CronTypeOK, DueRow
  <2>3. [id |-> b.id, sched |-> b.row.sched, slot |-> b.row.next, start |-> clock] \in CronItem
    BY <2>2 DEF CronItem, CronRow, CronTypeOK
  <2>4. item' \in [Dispatchers -> CronItem] /\ at' \in [Dispatchers -> CronSteps]
    BY <1>0, <2>1, <2>3 DEF Begin, CronTypeOK, CronSteps
  <2>. QED  BY <1>6, <2>1, <2>4 DEF DispatchDue, CronTypeOK
<1>7. ASSUME NEW d \in Dispatchers, DispatchStep(d) PROVE CronTypeOK'
  <2>1. CASE CreateExecution(d)
    <3>1. at' \in [Dispatchers -> CronSteps] /\ item' \in [Dispatchers -> CronItem]
      BY <1>0, <2>1 DEF CreateExecution, Leaves, CronTypeOK, CronSteps
    <3>2. item[d].id \in Jobs /\ item[d] \in CronItem
      BY <2>1 DEF CreateExecution, ItemInv, CronTypeOK
    <3>3. [job |-> item[d].id, by |-> d, slot |-> item[d].slot, start |-> item[d].start,
           status |-> "running"] \in CronRun
      BY <3>2 DEF CronRun, CronItem, Statuses
    <3>4. exec' \in Seq(CronRun)
      <4>. DEFINE e == [job |-> item[d].id, by |-> d, slot |-> item[d].slot,
                        start |-> item[d].start, status |-> "running"]
      <4>1. exec' = Append(exec, e) \/ exec' = exec
        BY <2>1 DEF CreateExecution
      <4>. HIDE DEF e
      <4>. QED  BY <3>3, <4>1 DEF CronTypeOK, e
    <3>. QED  BY <2>1, <3>1, <3>4 DEF CreateExecution, CronTypeOK
  <2>2. CASE Fire(d)
    BY <2>2 DEF Fire, CronTypeOK, CronSteps
  <2>3. CASE MarkRunning(d)
    <3>1. job' \in [Jobs -> CronRow]
      <4>1. \/ job' = job
            \/ job' = [job EXCEPT ![item[d].id] = [@ EXCEPT !.status = "running"]]
        BY <2>3 DEF MarkRunning
      <4>2. "running" \in Statuses
        BY DEF Statuses
      <4>. DEFINE r == [job[item[d].id] EXCEPT !.status = "running"]
      <4>3. item[d].id \in Jobs => r \in CronRow
        BY <4>2, RowStays DEF CronTypeOK
      <4>. HIDE DEF r
      <4>4. [job EXCEPT ![item[d].id] = r] \in [Jobs -> CronRow]
        BY <4>3, RowPut DEF CronTypeOK
      <4>. QED  BY <4>1, <4>4 DEF CronTypeOK, r
    <3>. QED  BY <2>3, <3>1 DEF MarkRunning, CronTypeOK, CronSteps
  <2>4. CASE SetNextRun(d)
    <3>1. at' \in [Dispatchers -> CronSteps] /\ item' \in [Dispatchers -> CronItem]
      BY <1>0, <2>4 DEF SetNextRun, Leaves, CronTypeOK, CronSteps
    <3>2. item[d].sched # Bad => NextRun(d) \in Nat
      BY NextIsTime DEF NextRun, CronTypeOK, CronItem
    <3>3. job' \in [Jobs -> CronRow]
      <4>1. \/ job' = job
            \/ /\ item[d].sched # Bad
               /\ job' = [job EXCEPT ![item[d].id] = [@ EXCEPT !.next = NextRun(d)]]
        BY <2>4 DEF SetNextRun
      <4>. DEFINE r == [job[item[d].id] EXCEPT !.next = NextRun(d)]
      <4>3. item[d].sched # Bad /\ item[d].id \in Jobs => r \in CronRow
        BY <3>2, RowStays DEF CronTypeOK
      <4>. HIDE DEF r
      <4>4. item[d].sched # Bad => [job EXCEPT ![item[d].id] = r] \in [Jobs -> CronRow]
        BY <4>3, RowPut DEF CronTypeOK
      <4>. QED  BY <4>1, <4>4 DEF CronTypeOK, r
    <3>. QED  BY <2>4, <3>1, <3>3 DEF SetNextRun, CronTypeOK
  <2>. QED  BY <1>7, <2>1, <2>2, <2>3, <2>4 DEF DispatchStep
<1>8. CASE ExecutorStep
  <2>1. CASE Subscribe
    BY <2>1 DEF Subscribe, CronTypeOK
  <2>2. CASE Receive
    BY <2>2 DEF Receive, CronTypeOK
  <2>3. CASE CompleteExecution
    <3>1. \A r \in CronRun : [r EXCEPT !.status = "ended"] \in CronRun
      BY DEF CronRun, Statuses
    <3>2. exec' \in Seq(CronRun)
      <4>1. \/ exec' = exec
            \/ exec' = [exec EXCEPT ![busy.exec] = [@ EXCEPT !.status = "ended"]]
        BY <2>3 DEF CompleteExecution
      <4>2. exec \in Seq(CronRun)
        BY DEF CronTypeOK
      <4>3. CASE exec' = [exec EXCEPT ![busy.exec] = [@ EXCEPT !.status = "ended"]]
                 /\ busy.exec \in 1 .. Len(exec)
        <5>1. exec[busy.exec] \in CronRun
          BY <4>2, <4>3
        <5>2. [exec[busy.exec] EXCEPT !.status = "ended"] \in CronRun
          BY <3>1, <5>1
        <5>. QED  BY <4>2, <4>3, <5>2, ExceptSeq
      <4>4. CASE exec' = [exec EXCEPT ![busy.exec] = [@ EXCEPT !.status = "ended"]]
                 /\ busy.exec \notin 1 .. Len(exec)
        <5>1. exec' = exec
          BY <4>2, <4>4
        <5>. QED  BY <4>2, <5>1
      <4>. QED  BY <4>1, <4>2, <4>3, <4>4
    <3>. QED  BY <2>3, <3>2 DEF CompleteExecution, CronTypeOK
  <2>4. CASE UpdateLastRun
    <3>1. job' \in [Jobs -> CronRow]
      <4>1. \/ job' = job
            \/ job' = [job EXCEPT ![busy.job] = [@ EXCEPT !.status = "ended"]]
        BY <2>4 DEF UpdateLastRun
      <4>2. "ended" \in Statuses
        BY DEF Statuses
      <4>. DEFINE r == [job[busy.job] EXCEPT !.status = "ended"]
      <4>3. busy.job \in Jobs => r \in CronRow
        BY <4>2, RowStays DEF CronTypeOK
      <4>. HIDE DEF r
      <4>4. [job EXCEPT ![busy.job] = r] \in [Jobs -> CronRow]
        BY <4>3, RowPut DEF CronTypeOK
      <4>. QED  BY <4>1, <4>4 DEF CronTypeOK, r
    <3>. QED  BY <2>4, <3>1 DEF UpdateLastRun, CronTypeOK
  <2>. QED  BY <1>8, <2>1, <2>2, <2>3, <2>4 DEF ExecutorStep
<1>9. ASSUME NEW j \in Jobs, NEW p \in Periods \cup {Bad}, NEW on \in BOOLEAN,
             NEW t \in Nat, Insert(j, p, on, t)
      PROVE  CronTypeOK'
  <2>1. [live |-> TRUE, fresh |-> FALSE, enabled |-> on, sched |-> p, next |-> t,
         status |-> "none"] \in CronRow
    BY DEF CronRow, Statuses
  <2>2. job' \in [Jobs -> CronRow]
    BY <1>9, <2>1 DEF Insert, CronTypeOK
  <2>. QED  BY <1>9, <2>2 DEF Insert, CronTypeOK
<1>10. ASSUME NEW j \in Jobs, NEW p \in Periods, NEW on \in BOOLEAN, CreateJob(j, p, on)
       PROVE  CronTypeOK'
  <2>1. NextAfter(p, clock) \in Nat
    BY NextIsTime DEF CronTypeOK
  <2>. QED  BY <1>9, <1>10, <2>1 DEF CreateJob
<1>11. ASSUME NEW j \in Jobs, NEW p \in Periods \cup {Bad}, CreatePluginJob(j, p)
       PROVE  CronTypeOK'
  <2>1. Never \in Nat
    BY DEF Never
  <2>. QED  BY <1>9, <1>11, <2>1 DEF CreatePluginJob
<1>12. ASSUME NEW j \in Jobs, DeleteJob(j) PROVE CronTypeOK'
  <2>1. \A r \in CronRun : [r EXCEPT !.status = "none"] \in CronRun
    BY DEF CronRun, Statuses
  <2>2. exec' \in Seq(CronRun)
    BY <1>12, <2>1 DEF DeleteJob, CronTypeOK
  <2>3. job' \in [Jobs -> CronRow]
    BY <1>12, RowStays DEF DeleteJob, CronTypeOK
  <2>. QED  BY <1>12, <2>2, <2>3 DEF DeleteJob, CronTypeOK
<1>13. ASSUME NEW c \in Callers, NEW j \in Jobs, Trigger(c, j) PROVE CronTypeOK'
  <2>1. [id |-> j, sched |-> job[j].sched, slot |-> Never, start |-> clock] \in CronItem
    BY DEF CronItem, CronRow, CronTypeOK, Never
  <2>2. item' \in [Dispatchers -> CronItem] /\ at' \in [Dispatchers -> CronSteps]
    BY <1>0, <1>13, <2>1 DEF Trigger, Begin, CronTypeOK, CronSteps
  <2>. QED  BY <1>13, <2>2 DEF Trigger, CronTypeOK
<1>14. ASSUME NEW c \in Callers, NEW j \in Jobs, EditJob(c, j) PROVE CronTypeOK'
  <2>1. [id |-> j, row |-> job[j], read |-> clock] \in CronDraft
    BY DEF CronDraft, CronTypeOK
  <2>2. draft' \in [Callers -> CronDraft]
    BY <1>14, <2>1 DEF EditJob, CronTypeOK
  <2>. QED  BY <1>14, <2>2 DEF EditJob, CronTypeOK
<1>15. ASSUME NEW c \in Callers, SaveJob(c) PROVE CronTypeOK'
  <2>1. draft[c] \in CronDraft
    BY DEF CronTypeOK
  <2>2. [draft[c] EXCEPT !.row.live = FALSE] \in CronDraft
    BY <2>1, RowStays DEF CronDraft
  <2>3. draft' \in [Callers -> CronDraft]
    BY <1>15, <2>2 DEF SaveJob, CronTypeOK
  <2>4. PICK p \in Periods \cup {Same}, on \in BOOLEAN, u \in draft[c].read .. clock :
           job' = IF job[draft[c].id].live
                    THEN [job EXCEPT ![draft[c].id] = Edited(draft[c].row, p, on, u)]
                    ELSE job
    BY <1>15 DEF SaveJob
  <2>5. u \in Nat /\ draft[c].row \in CronRow
    BY <2>1 DEF CronDraft, CronTypeOK
  <2>6. job' \in [Jobs -> CronRow]
    BY <2>4, <2>5, EditedIsRow DEF CronTypeOK
  <2>. QED  BY <1>15, <2>3, <2>6 DEF SaveJob, CronTypeOK
<1>. QED
  BY <1>1, <1>2, <1>3, <1>4, <1>5, <1>6, <1>7, <1>8, <1>10, <1>11, <1>12, <1>13, <1>14, <1>15
     DEF CronNext
-----------------------------------------------------------------------------
(* The steps that give nobody a job and no job another next run.           *)

CronFrame ==
    /\ clock <= clock'
    /\ \A j \in Jobs : /\ job'[j].live => /\ job[j].live
                                          /\ job'[j].sched = job[j].sched
                                          /\ job'[j].next = job[j].next
                       /\ job'[j].fresh => job[j].fresh
    /\ DOMAIN exec' = DOMAIN exec
    /\ \A e \in DOMAIN exec : /\ exec'[e].job = exec[e].job /\ exec'[e].by = exec[e].by
                              /\ exec'[e].slot = exec[e].slot
                              /\ exec'[e].start = exec[e].start
    /\ \A d \in Dispatchers : at'[d] # "idle" =>
          /\ at[d] # "idle" /\ item'[d] = item[d]
          /\ (at'[d] = "create") <=> (at[d] = "create")
    /\ \A d \in Dispatchers : item'[d].start <= clock'
    /\ at[Ticker] \in {"fire", "last", "next"} /\ at'[Ticker] = "idle" =>
          item[Ticker].id \in excused' \/ ~job'[item[Ticker].id].live
    /\ batch' \subseteq batch
    /\ \A c \in Callers : draft'[c] = draft[c] \/ ~draft'[c].row.live
    /\ excused \subseteq excused' /\ mixed \subseteq mixed'

\* Such a step keeps the invariant, whoever leaves or is excused.
LEMMA FrameKeeps ==
    ASSUME CronInv, CronTypeOK', CronFrame
    PROVE  CronInv'
<1>. USE DEF CronInv
<1>0. /\ \A j \in Jobs : job[j] \in CronRow /\ job'[j] \in CronRow
      /\ \A e \in DOMAIN exec : exec[e] \in CronRun /\ e \in Nat
      /\ Ticker \in Dispatchers
      /\ \A d \in Dispatchers : at[d] \in CronSteps /\ at'[d] \in CronSteps
  BY DEF CronTypeOK, Dispatchers
<1>1. ItemInv'
  BY DEF CronFrame, ItemInv
<1>2. LiveInv'
  BY DEF CronFrame, LiveInv
<1>3. FreshInv'
  BY DEF CronFrame, FreshInv, Held
<1>4. RoundInv'
  <2>1. /\ clock \in Nat /\ clock' \in Nat
        /\ \A b \in batch : b.row.next \in Nat
        /\ \A e \in DOMAIN exec : exec[e].slot \in Nat
    <3>1. clock \in Nat /\ clock' \in Nat
      BY CronAssumption DEF CronAssumption, CronTypeOK
    <3>2. \A b \in batch : b.row \in CronRow
      BY DEF CronTypeOK, DueRow
    <3>. QED  BY <1>0, <3>1, <3>2 DEF CronRow, CronRun
  <2>2. \A b \in batch' : b.row.next <= clock'
    BY <2>1 DEF CronFrame, RoundInv
  <2>3. \A e \in DOMAIN exec' : exec'[e].by = Ticker => exec'[e].slot <= clock'
    BY <2>1 DEF CronFrame, RoundInv
  <2>4. at'[Ticker] # "idle" =>
          /\ item'[Ticker].slot <= item'[Ticker].start
          /\ \A b \in batch' : b.id # item'[Ticker].id
    BY <1>0 DEF CronFrame, RoundInv
  <2>5. \A b, c \in batch' : b.id = c.id => b = c
    BY DEF CronFrame, RoundInv
  <2>6. \A d \in Dispatchers : item'[d].start <= clock'
    BY DEF CronFrame
  <2>. QED  BY <2>2, <2>3, <2>4, <2>5, <2>6 DEF RoundInv
<1>5. BadInv'
  BY <1>0 DEF CronFrame, BadInv
<1>6. SlotOnce'
  BY DEF CronFrame, SlotOnce
<1>7. SlotInv'
  <2>. SUFFICES ASSUME NEW e \in DOMAIN exec', exec'[e].by = Ticker, exec'[e].job \notin excused'
       PROVE  /\ \A b \in batch' : b.id = exec'[e].job => exec'[e].slot < b.row.next
              /\ at'[Ticker] = "create" /\ item'[Ticker].id = exec'[e].job =>
                    exec'[e].slot < item'[Ticker].slot
              /\ job'[exec'[e].job].live =>
                    exec'[e].slot < job'[exec'[e].job].next \/ InHand(e)'
    BY DEF SlotInv
  <2>1. /\ e \in DOMAIN exec /\ exec[e].by = Ticker /\ exec[e].job \notin excused
        /\ exec'[e].job = exec[e].job /\ exec'[e].slot = exec[e].slot
        /\ exec[e].job \in Jobs
    BY <1>0 DEF CronFrame, CronRun
  <2>2. \A b \in batch' : b.id = exec'[e].job => exec'[e].slot < b.row.next
    BY <2>1 DEF CronFrame, SlotInv
  <2>3. at'[Ticker] = "create" /\ item'[Ticker].id = exec'[e].job =>
           exec'[e].slot < item'[Ticker].slot
    BY <1>0, <2>1 DEF CronFrame, SlotInv
  <2>4. ASSUME job'[exec'[e].job].live
        PROVE  exec'[e].slot < job'[exec'[e].job].next \/ InHand(e)'
    <3>1. job[exec[e].job].live /\ job'[exec[e].job].next = job[exec[e].job].next
      BY <2>1, <2>4 DEF CronFrame
    <3>2. CASE exec[e].slot < job[exec[e].job].next
      BY <2>1, <3>1, <3>2
    <3>3. CASE InHand(e)
      <4>1. at[Ticker] \in {"fire", "last", "next"} /\ item[Ticker].id = exec[e].job
            /\ item[Ticker].slot = exec[e].slot
        BY <3>3 DEF InHand
      <4>2. at'[Ticker] # "idle"
        BY <2>1, <2>4, <4>1 DEF CronFrame
      <4>3. item'[Ticker] = item[Ticker] /\ at'[Ticker] \in {"fire", "last", "next"}
        BY <1>0, <4>1, <4>2 DEF CronFrame, CronSteps
      <4>. QED  BY <2>1, <4>1, <4>3 DEF InHand
    <3>. QED  BY <2>1, <3>1, <3>2, <3>3 DEF SlotInv
  <2>. QED  BY <2>2, <2>3, <2>4
<1>8. SchedInv'
  <2>1. \A j \in Jobs \ mixed' : job'[j].live =>
          /\ Fits(job'[j].sched, job'[j].next)
          /\ \A d \in Dispatchers :
                at'[d] # "idle" /\ item'[d].id = j => item'[d].sched = job'[j].sched
          /\ \A b \in batch' : b.id = j => b.row.sched = job'[j].sched
    BY DEF CronFrame, SchedInv
  <2>2. \A c \in Callers :
          draft'[c].row.live /\ draft'[c].id \notin mixed' =>
              Fits(draft'[c].row.sched, draft'[c].row.next)
    BY DEF CronFrame, SchedInv
  <2>. QED  BY <2>1, <2>2 DEF SchedInv, Fits
<1>9. CreatedInv'
  <2>. SUFFICES ASSUME NEW d \in Dispatchers, at'[d] \in {"fire", "last", "next"}
       PROVE  \E e \in DOMAIN exec' : /\ exec'[e].job = item'[d].id
                                      /\ exec'[e].start = item'[d].start
    BY DEF CreatedInv
  <2>1. at[d] \in {"fire", "last", "next"} /\ item'[d] = item[d]
    BY <1>0 DEF CronFrame, CronSteps
  <2>2. PICK e \in DOMAIN exec : exec[e].job = item[d].id /\ exec[e].start = item[d].start
    BY <2>1 DEF CreatedInv
  <2>. QED  BY <2>1, <2>2 DEF CronFrame
<1>. QED  BY <1>1, <1>2, <1>3, <1>4, <1>5, <1>6, <1>7, <1>8, <1>9

\* The row of a job after a statement that gives it another status.
LEMMA StatusOnly ==
    ASSUME NEW f \in [Jobs -> CronRow], NEW k, NEW s,
           NEW g, g = [f EXCEPT ![k].status = s] \/ g = f
    PROVE  \A j \in Jobs : /\ g[j].live = f[j].live /\ g[j].sched = f[j].sched
                           /\ g[j].next = f[j].next /\ g[j].fresh = f[j].fresh
BY DEF CronRow

\* The clock, a crash, the executor, a fire event, the status and a deletion.
LEMMA FrameSteps ==
    ASSUME CronInv,
           \/ UNCHANGED cronVars \/ ClockTicks \/ CronCrash \/ ExecutorStep
           \/ \E d \in Dispatchers : Fire(d) \/ MarkRunning(d)
           \/ \E j \in Jobs : DeleteJob(j)
    PROVE  CronFrame
<1>. USE DEF CronInv
<1>0. /\ clock \in Nat /\ clock' \in Nat /\ clock <= clock'
      /\ \A d \in Dispatchers : item[d].start <= clock /\ item[d].start \in Nat
      /\ job \in [Jobs -> CronRow] /\ at \in [Dispatchers -> CronSteps]
      /\ \A e \in DOMAIN exec : exec[e] \in CronRun
      /\ Ticker \in Dispatchers
  <2>1. clock \in Nat /\ \A d \in Dispatchers : item[d] \in CronItem
    BY CronAssumption DEF CronAssumption, CronTypeOK
  <2>2. clock' = clock \/ clock' = clock + 1
    BY DEF cronVars, ClockTicks, CronCrash, ExecutorStep, Subscribe, Receive,
           CompleteExecution, UpdateLastRun, Fire, MarkRunning, DeleteJob
  <2>. QED  BY <2>1, <2>2 DEF CronTypeOK, RoundInv, CronItem, Dispatchers
<1>1. CASE UNCHANGED cronVars
  BY <1>0, <1>1 DEF cronVars, CronFrame
<1>2. CASE ClockTicks
  <2>1. \A d \in Dispatchers : item[d].start <= clock'
    BY <1>0
  <2>. QED  BY <1>0, <1>2, <2>1 DEF ClockTicks, CronFrame
<1>3. CASE CronCrash
  <2>1. NoItem.start = 0 /\ ~NoDraft.row.live
    BY DEF NoItem, NoDraft, NoRow
  <2>. QED  BY <1>0, <1>3, <2>1 DEF CronCrash, CronFrame
<1>4. CASE ExecutorStep
  <2>1. CASE Subscribe \/ Receive
    BY <1>0, <2>1 DEF Subscribe, Receive, CronFrame
  <2>2. CASE CompleteExecution
    <3>1. /\ DOMAIN exec' = DOMAIN exec
          /\ \A e \in DOMAIN exec : /\ exec'[e].job = exec[e].job /\ exec'[e].by = exec[e].by
                                    /\ exec'[e].slot = exec[e].slot
                                    /\ exec'[e].start = exec[e].start
      BY <1>0, <2>2 DEF CompleteExecution, CronRun
    <3>. QED  BY <1>0, <2>2, <3>1 DEF CompleteExecution, CronFrame
  <2>3. CASE UpdateLastRun
    <3>1. \A j \in Jobs : /\ job'[j].live = job[j].live /\ job'[j].sched = job[j].sched
                          /\ job'[j].next = job[j].next /\ job'[j].fresh = job[j].fresh
      BY <1>0, <2>3, StatusOnly DEF UpdateLastRun
    <3>. QED  BY <1>0, <2>3, <3>1 DEF UpdateLastRun, CronFrame
  <2>. QED  BY <1>4, <2>1, <2>2, <2>3 DEF ExecutorStep
<1>5. ASSUME NEW d \in Dispatchers, Fire(d) PROVE CronFrame
  <2>1. at[d] = "fire" /\ at' = [at EXCEPT ![d] = "last"] /\ item' = item
    BY <1>5 DEF Fire
  <2>2. \A c \in Dispatchers : at'[c] # "idle" =>
          /\ at[c] # "idle" /\ (at'[c] = "create") <=> (at[c] = "create")
    BY <1>0, <2>1
  <2>. QED  BY <1>0, <1>5, <2>1, <2>2 DEF Fire, CronFrame
<1>6. ASSUME NEW d \in Dispatchers, MarkRunning(d) PROVE CronFrame
  <2>1. at[d] = "last" /\ at' = [at EXCEPT ![d] = "next"] /\ item' = item
    BY <1>6 DEF MarkRunning
  <2>2. \A c \in Dispatchers : at'[c] # "idle" =>
          /\ at[c] # "idle" /\ (at'[c] = "create") <=> (at[c] = "create")
    BY <1>0, <2>1
  <2>3. \A j \in Jobs : /\ job'[j].live = job[j].live /\ job'[j].sched = job[j].sched
                        /\ job'[j].next = job[j].next /\ job'[j].fresh = job[j].fresh
    BY <1>0, <1>6, StatusOnly DEF MarkRunning
  <2>. QED  BY <1>0, <1>6, <2>1, <2>2, <2>3 DEF MarkRunning, CronFrame
<1>7. ASSUME NEW j \in Jobs, DeleteJob(j) PROVE CronFrame
  <2>1. /\ DOMAIN exec' = DOMAIN exec
        /\ \A e \in DOMAIN exec : /\ exec'[e].job = exec[e].job /\ exec'[e].by = exec[e].by
                                  /\ exec'[e].slot = exec[e].slot
                                  /\ exec'[e].start = exec[e].start
    BY <1>0, <1>7 DEF DeleteJob, CronRun
  <2>2. \A i \in Jobs : i # j => job'[i] = job[i]
    BY <1>0, <1>7 DEF DeleteJob
  <2>3. ~job'[j].live /\ ~job'[j].fresh
    BY <1>0, <1>7 DEF DeleteJob, NoRow
  <2>. QED  BY <1>0, <1>7, <2>1, <2>2, <2>3 DEF DeleteJob, CronFrame
<1>. QED  BY <1>1, <1>2, <1>3, <1>4, <1>5, <1>6, <1>7

\* A dispatch that ends without a next run.
LEMMA LeaveSteps ==
    ASSUME CronInv, NEW d \in Dispatchers, at[d] \in {"create", "next"}, Leaves(d),
           UNCHANGED <<clock, job, exec, batch, draft, mixed>>,
           excused \subseteq excused',
           at[d] = "next" /\ d = Ticker =>
               item[d].id \in excused' \/ ~job[item[d].id].live
    PROVE  CronFrame
<1>. USE DEF CronInv
<1>0. /\ clock \in Nat
      /\ \A c \in Dispatchers : item[c].start <= clock /\ item[c].start \in Nat
      /\ at \in [Dispatchers -> CronSteps] /\ item \in [Dispatchers -> CronItem]
      /\ Ticker \in Dispatchers /\ NoItem.start = 0
  <2>1. clock \in Nat /\ \A c \in Dispatchers : item[c] \in CronItem
    BY CronAssumption DEF CronAssumption, CronTypeOK
  <2>. QED  BY <2>1 DEF CronTypeOK, RoundInv, CronItem, Dispatchers, NoItem
<1>1. \A c \in Dispatchers : at'[c] # "idle" => c # d /\ at'[c] = at[c] /\ item'[c] = item[c]
  BY <1>0 DEF Leaves
<1>2. \A c \in Dispatchers : item'[c] = item[c] \/ item'[c] = NoItem
  BY <1>0 DEF Leaves
<1>3. at[Ticker] \in {"fire", "last", "next"} /\ at'[Ticker] = "idle" => d = Ticker
  BY <1>0 DEF Leaves
<1>. QED  BY <1>0, <1>1, <1>2, <1>3 DEF CronFrame
-----------------------------------------------------------------------------
(* The steps of the scheduler.                                             *)

\* InitializeNextRuns: only jobs without a next run get one, later than now.
LEMMA StartKeeps ==
    ASSUME CronInv, NEW S \in SUBSET Jobs, CronStart(S), CronTypeOK'
    PROVE  CronInv'
<1>. USE DEF CronInv
<1>0. /\ job \in [Jobs -> CronRow] /\ clock \in Nat /\ clock < Never
      /\ \A e \in DOMAIN exec : exec[e] \in CronRun
      /\ UNCHANGED <<clock, exec, at, item, batch, draft, excused, mixed>>
  BY CronAssumption DEF CronAssumption, CronTypeOK, CronStart, Never
<1>1. \A j \in Jobs : /\ job'[j].live = job[j].live /\ job'[j].sched = job[j].sched
                      /\ job'[j].fresh = job[j].fresh
  BY <1>0 DEF CronStart, CronRow
<1>2. \A j \in Jobs \ S : job'[j] = job[j]
  BY <1>0 DEF CronStart
<1>3. \A j \in S : /\ job[j].sched \in Periods /\ job[j].next = Never
                   /\ job'[j].next = NextAfter(job[j].sched, clock)
  BY <1>0 DEF CronStart, Unseeded, CronRow
<1>4. \A j \in S : /\ job'[j].next \in Nat /\ job'[j].next > clock
                   /\ \E k \in Nat : job'[j].next = job[j].sched * k
  <2>. SUFFICES ASSUME NEW j \in S
       PROVE  /\ job'[j].next \in Nat /\ job'[j].next > clock
              /\ \E k \in Nat : job'[j].next = job[j].sched * k
    OBVIOUS
  <2>1. job[j].sched \in Nat \ {0}
    BY <1>3, CronAssumption DEF CronAssumption
  <2>2. /\ NextAfter(job[j].sched, clock) \in Nat /\ NextAfter(job[j].sched, clock) > clock
        /\ \E k \in Nat : NextAfter(job[j].sched, clock) = job[j].sched * k
    BY <1>0, <2>1, NextIsLater
  <2>. QED  BY <1>3, <2>2
<1>5. ItemInv' /\ LiveInv' /\ FreshInv' /\ RoundInv' /\ SlotOnce' /\ CreatedInv'
  BY <1>0, <1>1 DEF ItemInv, LiveInv, FreshInv, Held, RoundInv, SlotOnce, CreatedInv
<1>6. BadInv'
  <2>1. \A j \in Jobs \ excused : job'[j].live /\ job'[j].sched = Bad => job'[j].next >= Never
    <3>1. \A j \in S : job[j].sched # Bad
      BY <1>0 DEF CronStart, Unseeded
    <3>. QED  BY <1>1, <1>2, <3>1 DEF BadInv
  <2>. QED  BY <1>0, <2>1 DEF BadInv
<1>7. SlotInv'
  <2>. SUFFICES ASSUME NEW e \in DOMAIN exec, exec[e].by = Ticker, exec[e].job \notin excused,
                       job'[exec[e].job].live
       PROVE  exec[e].slot < job'[exec[e].job].next \/ InHand(e)
    BY <1>0 DEF SlotInv, InHand
  <2>1. exec[e].job \in Jobs /\ exec[e].slot \in Nat /\ exec[e].slot <= clock
    BY <1>0 DEF CronRun, RoundInv
  <2>2. CASE exec[e].job \in S
    BY <1>0, <1>4, <2>1, <2>2
  <2>3. CASE exec[e].job \notin S
    BY <1>2, <2>1, <2>3 DEF SlotInv
  <2>. QED  BY <2>2, <2>3
<1>8. SchedInv'
  <2>1. \A j \in S : Fits(job'[j].sched, job'[j].next)
    <3>1. \A j \in S : job[j].sched # Bad
      BY <1>0 DEF CronStart, Unseeded
    <3>. QED  BY <1>1, <1>4, <3>1 DEF Fits
  <2>2. \A j \in Jobs \ mixed : job'[j].live => Fits(job'[j].sched, job'[j].next)
    BY <1>1, <1>2, <2>1 DEF SchedInv
  <2>. QED  BY <1>0, <1>1, <2>2 DEF SchedInv, Fits
<1>. QED  BY <1>5, <1>6, <1>7, <1>8

\* GetDueJobs: what has been dispatched lies below the next runs it reads.
LEMMA CheckKeeps ==
    ASSUME CronInv, CheckDue, CronTypeOK'
    PROVE  CronInv'
<1>. USE DEF CronInv
<1>0. /\ job \in [Jobs -> CronRow] /\ clock \in Nat /\ clock < Never
      /\ \A e \in DOMAIN exec : exec[e] \in CronRun
      /\ at[Ticker] = "idle" /\ batch = {}
      /\ UNCHANGED <<clock, job, exec, at, item, draft, excused, mixed>>
  BY CronAssumption DEF CronAssumption, CronTypeOK, CheckDue, Never
<1>1. \A b \in batch' : /\ b.id \in Jobs /\ b.row = job[b.id] /\ IsDue(b.id)
                        /\ b = [id |-> b.id, row |-> job[b.id]]
  BY DEF CheckDue
<1>2. \A b \in batch' : /\ job[b.id].live /\ job[b.id].next <= clock
                        /\ job[b.id].next \in Nat
  BY <1>0, <1>1 DEF IsDue, CronRow
<1>3. ItemInv' /\ LiveInv' /\ SlotOnce' /\ CreatedInv'
  BY <1>0 DEF ItemInv, LiveInv, SlotOnce, CreatedInv
<1>4. FreshInv'
  BY <1>0, <1>1, <1>2 DEF FreshInv, Held, LiveInv
<1>5. RoundInv'
  <2>1. \A b, c \in batch' : b.id = c.id => b = c
    BY <1>1
  <2>. QED  BY <1>0, <1>1, <1>2, <2>1 DEF RoundInv
<1>6. BadInv'
  <2>1. \A b \in batch' : b.id \notin excused => b.row.sched # Bad
    BY <1>0, <1>1, <1>2, CronAssumption DEF BadInv, Never, CronAssumption
  <2>. QED  BY <1>0, <2>1 DEF BadInv
<1>7. SlotInv'
  <2>1. \A e \in DOMAIN exec : exec[e].by = Ticker /\ exec[e].job \notin excused =>
           \A b \in batch' : b.id = exec[e].job => exec[e].slot < b.row.next
    BY <1>0, <1>1, <1>2 DEF SlotInv, InHand
  <2>. QED  BY <1>0, <2>1 DEF SlotInv, InHand
<1>8. SchedInv'
  BY <1>0, <1>1 DEF SchedInv, Fits
<1>. QED  BY <1>3, <1>4, <1>5, <1>6, <1>7, <1>8

\* The scheduler takes one job of its round in hand.
LEMMA DispatchKeeps ==
    ASSUME CronInv, DispatchDue, CronTypeOK'
    PROVE  CronInv'
<1>. USE DEF CronInv
<1>0. /\ at[Ticker] = "idle" /\ Ticker \in Dispatchers
      /\ \A e \in DOMAIN exec : exec[e] \in CronRun
      /\ UNCHANGED <<clock, job, exec, draft, excused, mixed>>
  BY DEF CronTypeOK, DispatchDue, Dispatchers
<1>1. PICK b \in batch : batch' = batch \ {b} /\ Begin(Ticker, b.id, b.row, b.row.next)
  BY DEF DispatchDue
<1>2. /\ at' = [at EXCEPT ![Ticker] = "create"]
      /\ item' = [item EXCEPT ![Ticker] = [id |-> b.id, sched |-> b.row.sched,
                                           slot |-> b.row.next, start |-> clock]]
  BY <1>1 DEF Begin
<1>3. /\ at'[Ticker] = "create" /\ item'[Ticker].id = b.id
      /\ item'[Ticker].sched = b.row.sched /\ item'[Ticker].slot = b.row.next
      /\ item'[Ticker].start = clock
  BY <1>0, <1>2 DEF CronTypeOK
<1>4. \A d \in Dispatchers \ {Ticker} : at'[d] = at[d] /\ item'[d] = item[d]
  BY <1>2 DEF CronTypeOK
<1>5. b.id \in Jobs /\ b.row.next <= clock
  BY DEF CronTypeOK, DueRow, RoundInv
<1>6. ItemInv' /\ LiveInv' /\ SlotOnce'
  BY <1>0, <1>3, <1>4, <1>5 DEF ItemInv, LiveInv, SlotOnce
<1>7. FreshInv'
  BY <1>0, <1>1, <1>3, <1>4 DEF FreshInv, Held
<1>8. RoundInv'
  <2>1. clock \in Nat
    BY CronAssumption DEF CronAssumption, CronTypeOK
  <2>2. \A c \in batch' : c.id # b.id
    BY <1>1 DEF RoundInv
  <2>3. \A d \in Dispatchers : item'[d].start <= clock
    BY <1>3, <1>4, <2>1 DEF RoundInv
  <2>. QED  BY <1>0, <1>1, <1>3, <1>5, <2>2, <2>3 DEF RoundInv
<1>9. BadInv'
  BY <1>0, <1>1, <1>3 DEF BadInv
<1>10. SlotInv'
  <2>1. \A e \in DOMAIN exec : ~InHand(e)
    BY <1>0 DEF InHand
  <2>. QED  BY <1>0, <1>1, <1>3, <2>1 DEF SlotInv
<1>11. SchedInv'
  BY <1>0, <1>1, <1>3, <1>4 DEF SchedInv, Fits
<1>12. CreatedInv'
  BY <1>0, <1>3, <1>4 DEF CreatedInv
<1>. QED  BY <1>6, <1>7, <1>8, <1>9, <1>10, <1>11, <1>12

\* trigger_cron_job takes a job in hand, without a slot.
LEMMA TriggerKeeps ==
    ASSUME CronInv, NEW c \in Callers, NEW j \in Jobs, Trigger(c, j), CronTypeOK'
    PROVE  CronInv'
<1>. USE DEF CronInv
<1>0. /\ c \in Dispatchers /\ c # Ticker /\ job[j].live
      /\ UNCHANGED <<clock, job, exec, batch, draft, excused, mixed>>
  BY CronAssumption DEF CronAssumption, Trigger, Dispatchers
<1>1. /\ at' = [at EXCEPT ![c] = "create"]
      /\ item' = [item EXCEPT ![c] = [id |-> j, sched |-> job[j].sched,
                                      slot |-> Never, start |-> clock]]
  BY DEF Trigger, Begin
<1>2. /\ at'[c] = "create" /\ item'[c].id = j /\ item'[c].sched = job[j].sched
      /\ item'[c].start = clock
  BY <1>0, <1>1 DEF CronTypeOK
<1>3. \A d \in Dispatchers \ {c} : at'[d] = at[d] /\ item'[d] = item[d]
  BY <1>1 DEF CronTypeOK
<1>4. at'[Ticker] = at[Ticker] /\ item'[Ticker] = item[Ticker]
  BY <1>0, <1>3 DEF Dispatchers
<1>5. ItemInv' /\ LiveInv' /\ SlotOnce' /\ BadInv'
  BY <1>0, <1>2, <1>3, <1>4 DEF ItemInv, LiveInv, SlotOnce, BadInv
<1>6. FreshInv'
  BY <1>0, <1>2, <1>3 DEF FreshInv, Held, LiveInv
<1>7. RoundInv'
  <2>1. clock \in Nat
    BY CronAssumption DEF CronAssumption, CronTypeOK
  <2>2. \A d \in Dispatchers : item'[d].start <= clock
    BY <1>2, <1>3, <2>1 DEF RoundInv
  <2>. QED  BY <1>0, <1>4, <2>2 DEF RoundInv
<1>8. SlotInv'
  BY <1>0, <1>4 DEF SlotInv, InHand
<1>9. SchedInv'
  BY <1>0, <1>2, <1>3 DEF SchedInv, Fits
<1>10. CreatedInv'
  BY <1>0, <1>2, <1>3 DEF CreatedInv
<1>. QED  BY <1>5, <1>6, <1>7, <1>8, <1>9, <1>10

\* CreateExecution: the slot in hand is above all that were dispatched.
LEMMA CreateKeeps ==
    ASSUME CronInv, NEW d \in Dispatchers, CreateExecution(d), CronTypeOK'
    PROVE  CronInv'
<1>. USE DEF CronInv
<1>0. /\ at[d] = "create" /\ item[d].id \in Jobs /\ item[d] \in CronItem
      /\ exec \in Seq(CronRun) /\ Ticker \in Dispatchers
      /\ UNCHANGED <<clock, job, batch, draft, excused, mixed>>
  BY DEF CreateExecution, CronTypeOK, ItemInv, Dispatchers
<1>1. CASE exec' = exec /\ Leaves(d)
  BY <1>0, <1>1, LeaveSteps, FrameKeeps
<1>2. CASE /\ job[item[d].id].live /\ item' = item
           /\ exec' = Append(exec, [job |-> item[d].id, by |-> d, slot |-> item[d].slot,
                                    start |-> item[d].start, status |-> "running"])
           /\ at' = [at EXCEPT ![d] = "fire"]
  <2>0. PICK new \in Nat : new = Len(exec) + 1
    BY <1>0
  <2>1. /\ DOMAIN exec' = DOMAIN exec \cup {new} /\ new \notin DOMAIN exec
        /\ \A e \in DOMAIN exec : exec'[e] = exec[e] /\ exec[e] \in CronRun
        /\ exec'[new].job = item[d].id /\ exec'[new].by = d
        /\ exec'[new].slot = item[d].slot /\ exec'[new].start = item[d].start
    BY <1>0, <1>2, <2>0
  <2>2. /\ at'[d] = "fire"
        /\ \A c \in Dispatchers \ {d} : at'[c] = at[c]
    BY <1>0, <1>2 DEF CronTypeOK
  <2>3. ItemInv' /\ LiveInv'
    BY <1>0, <1>2, <2>2 DEF ItemInv, LiveInv
  <2>4. FreshInv'
    <3>1. ~job[item[d].id].fresh
      BY <1>0, <1>2 DEF LiveInv
    <3>2. \A j \in Jobs : Held(j)' => Held(j)
      BY <1>0, <1>2, <2>2 DEF Held
    <3>. QED  BY <1>0, <2>1, <3>1, <3>2 DEF FreshInv
  <2>5. RoundInv'
    <3>1. d = Ticker => item[d].slot <= clock
      <4>1. item[d].slot \in Nat /\ item[d].start \in Nat /\ clock \in Nat
        BY <1>0, CronAssumption DEF CronItem, CronTypeOK, CronAssumption
      <4>. QED  BY <1>0, <4>1 DEF RoundInv
    <3>2. \A e \in DOMAIN exec' : exec'[e].by = Ticker => exec'[e].slot <= clock
      BY <2>1, <3>1 DEF RoundInv
    <3>3. at'[Ticker] # "idle" => at[Ticker] # "idle"
      BY <1>0, <2>2
    <3>. QED  BY <1>0, <1>2, <3>2, <3>3 DEF RoundInv
  <2>6. BadInv'
    <3>1. at'[Ticker] # "idle" => at[Ticker] # "idle"
      BY <1>0, <2>2
    <3>. QED  BY <1>0, <1>2, <3>1 DEF BadInv
  <2>7. SlotInv' /\ SlotOnce'
    <3>1. CASE d # Ticker
      <4>1. at'[Ticker] = at[Ticker]
        BY <1>0, <2>2, <3>1
      <4>2. SlotInv'
        BY <1>0, <1>2, <2>1, <3>1, <4>1 DEF SlotInv, InHand
      <4>. QED  BY <1>0, <2>1, <3>1, <4>2 DEF SlotOnce
    <3>2. CASE d = Ticker
      <4>1. \A e \in DOMAIN exec : ~InHand(e)
        BY <1>0, <3>2 DEF InHand
      <4>2. \A b \in batch : b.id # item[d].id
        BY <1>0, <3>2 DEF RoundInv
      <4>3. InHand(new)'
        BY <1>2, <2>1, <2>2, <3>2 DEF InHand
      <4>4. SlotInv'
        BY <1>0, <1>2, <2>1, <2>2, <3>2, <4>1, <4>2, <4>3 DEF SlotInv
      <4>5. \A e \in DOMAIN exec :
               exec[e].by = Ticker /\ exec[e].job = item[d].id /\ item[d].id \notin excused
               => exec[e].slot # item[d].slot
        <5>1. \A e \in DOMAIN exec : exec[e].slot \in Nat
          BY <2>1 DEF CronRun
        <5>2. item[d].slot \in Nat
          BY <1>0 DEF CronItem
        <5>. QED  BY <1>0, <3>2, <5>1, <5>2 DEF SlotInv
      <4>. QED  BY <1>0, <2>1, <3>2, <4>4, <4>5 DEF SlotOnce
    <3>. QED  BY <3>1, <3>2
  <2>8. SchedInv'
    <3>1. \A c \in Dispatchers : at'[c] # "idle" => at[c] # "idle"
      BY <1>0, <2>2
    <3>. QED  BY <1>0, <1>2, <3>1 DEF SchedInv, Fits
  <2>9. CreatedInv'
    <3>. SUFFICES ASSUME NEW c \in Dispatchers, at'[c] \in {"fire", "last", "next"}
         PROVE  \E e \in DOMAIN exec' : /\ exec'[e].job = item[c].id
                                        /\ exec'[e].start = item[c].start
      BY <1>2 DEF CreatedInv
    <3>1. CASE c = d
      BY <2>1, <3>1
    <3>2. CASE c # d
      <4>1. PICK e \in DOMAIN exec : exec[e].job = item[c].id /\ exec[e].start = item[c].start
        BY <2>2, <3>2 DEF CreatedInv
      <4>. QED  BY <2>1, <4>1
    <3>. QED  BY <3>1, <3>2
  <2>. QED  BY <2>3, <2>4, <2>5, <2>6, <2>7, <2>8, <2>9
<1>. QED  BY <1>1, <1>2 DEF CreateExecution

\* UpdateNextRun writes a later time, or the job is excused.
LEMMA NextKeeps ==
    ASSUME CronInv, NEW d \in Dispatchers, SetNextRun(d), CronTypeOK'
    PROVE  CronInv'
<1>. USE DEF CronInv
<1>0. /\ at[d] = "next" /\ item[d].id \in Jobs /\ item[d] \in CronItem /\ Leaves(d)
      /\ job \in [Jobs -> CronRow] /\ at \in [Dispatchers -> CronSteps]
      /\ item \in [Dispatchers -> CronItem] /\ NoItem.start = 0 /\ clock \in Nat
      /\ \A e \in DOMAIN exec : exec[e] \in CronRun
      /\ Ticker \in Dispatchers
      /\ UNCHANGED <<clock, exec, batch, draft, mixed>>
  BY CronAssumption DEF CronAssumption, SetNextRun, CronTypeOK, ItemInv, Dispatchers, NoItem
<1>. DEFINE j == item[d].id
<1>1. CASE /\ job' = job /\ excused \subseteq excused'
           /\ item[d].sched = Bad \/ j \in excused' \/ ~job[j].live
  <2>1. d = Ticker => j \in excused' \/ ~job[j].live
    BY <1>0, <1>1 DEF BadInv
  <2>. QED  BY <1>0, <1>1, <2>1, LeaveSteps, FrameKeeps
<1>2. CASE /\ item[d].sched # Bad /\ job[j].live
           /\ job' = [job EXCEPT ![j].next = NextRun(d)]
           /\ excused' = IF NextRun(d) < job[j].next THEN excused \cup {j} ELSE excused
  <2>0. item[d].sched \in Nat \ {0} /\ item[d].start \in Nat /\ item[d].slot \in Nat
    BY <1>0, <1>2, CronAssumption DEF CronAssumption, CronItem
  <2>1. /\ NextRun(d) \in Nat /\ NextRun(d) > item[d].start
        /\ \E k \in Nat : NextRun(d) = item[d].sched * k
    BY <2>0, NextIsLater DEF NextRun
  <2>2. /\ \A i \in Jobs : /\ job'[i].live = job[i].live /\ job'[i].sched = job[i].sched
                           /\ job'[i].fresh = job[i].fresh
        /\ job'[j].next = NextRun(d)
        /\ \A i \in Jobs \ {j} : job'[i] = job[i]
    BY <1>0, <1>2 DEF CronRow
  <2>3. \A c \in Dispatchers :
          at'[c] # "idle" => c # d /\ at'[c] = at[c] /\ item'[c] = item[c]
    BY <1>0 DEF Leaves
  <2>4. \A c \in Dispatchers : item'[c] = item[c] \/ item'[c] = NoItem
    BY <1>0 DEF Leaves
  <2>5. d # Ticker => at'[Ticker] = at[Ticker] /\ item'[Ticker] = item[Ticker]
    BY <1>0 DEF Leaves
  <2>6. excused \subseteq excused' /\ (j \notin excused' => NextRun(d) >= job[j].next)
    <3>1. job[j].next \in Nat
      BY <1>0 DEF CronRow
    <3>. QED  BY <1>2, <2>1, <3>1
  <2>7. job[j].next \in Nat
    BY <1>0 DEF CronRow
  <2>. HIDE DEF j
  <2>8. ItemInv' /\ LiveInv' /\ SlotOnce'
    BY <1>0, <2>2, <2>3, <2>6 DEF ItemInv, LiveInv, SlotOnce
  <2>9. FreshInv'
    BY <1>0, <2>2, <2>3 DEF FreshInv, Held
  <2>10. RoundInv'
    <3>1. \A c \in Dispatchers : item'[c].start <= clock
      BY <1>0, <2>4 DEF RoundInv
    <3>. QED  BY <1>0, <2>3, <3>1 DEF RoundInv
  <2>11. BadInv'
    <3>1. \A i \in Jobs \ excused' :
            job'[i].live /\ job'[i].sched = Bad => job'[i].next >= Never
      <4>1. Never \in Nat
        BY CronAssumption DEF CronAssumption, Never
      <4>. QED  BY <2>1, <2>2, <2>6, <2>7, <4>1 DEF BadInv
    <3>. QED  BY <1>0, <2>3, <2>6, <3>1 DEF BadInv
  <2>12. SlotInv'
    <3>. SUFFICES ASSUME NEW e \in DOMAIN exec, exec[e].by = Ticker, exec[e].job \notin excused'
         PROVE  /\ \A b \in batch : b.id = exec[e].job => exec[e].slot < b.row.next
                /\ at'[Ticker] = "create" /\ item'[Ticker].id = exec[e].job =>
                      exec[e].slot < item'[Ticker].slot
                /\ job'[exec[e].job].live =>
                      exec[e].slot < job'[exec[e].job].next \/ InHand(e)'
      BY <1>0 DEF SlotInv, InHand
    <3>1. exec[e].job \in Jobs /\ exec[e].slot \in Nat /\ exec[e].job \notin excused
      BY <1>0, <2>6 DEF CronRun
    <3>2. \A b \in batch : b.id = exec[e].job => exec[e].slot < b.row.next
      BY <3>1 DEF SlotInv
    <3>3. at'[Ticker] = "create" /\ item'[Ticker].id = exec[e].job =>
             exec[e].slot < item'[Ticker].slot
      BY <1>0, <2>3, <3>1 DEF SlotInv
    <3>4. ASSUME job'[exec[e].job].live
          PROVE  exec[e].slot < job'[exec[e].job].next \/ InHand(e)'
      <4>1. exec[e].slot < job[exec[e].job].next \/ InHand(e)
        BY <2>2, <3>1, <3>4 DEF SlotInv
      <4>2. CASE exec[e].job # j
        <5>1. job'[exec[e].job].next = job[exec[e].job].next
          BY <2>2, <3>1, <4>2
        <5>2. InHand(e) => d # Ticker
          BY <4>2 DEF InHand, j
        <5>. QED  BY <1>0, <2>5, <4>1, <5>1, <5>2 DEF InHand
      <4>3. CASE exec[e].job = j
        <5>1. CASE exec[e].slot < job[j].next
          BY <2>1, <2>2, <2>6, <2>7, <3>1, <4>3, <5>1
        <5>2. CASE InHand(e) /\ d = Ticker
          BY <1>0, <2>0, <2>1, <2>2, <3>1, <4>3, <5>2 DEF InHand, RoundInv
        <5>3. CASE InHand(e) /\ d # Ticker
          BY <1>0, <2>5, <5>3 DEF InHand
        <5>. QED  BY <4>1, <4>3, <5>1, <5>2, <5>3
      <4>. QED  BY <4>2, <4>3
    <3>. QED  BY <3>2, <3>3, <3>4
  <2>13. SchedInv'
    <3>1. \A i \in Jobs \ mixed : job'[i].live => Fits(job'[i].sched, job'[i].next)
      <4>1. ASSUME j \notin mixed PROVE Fits(job'[j].sched, job'[j].next)
        <5>1. item[d].sched = job[j].sched
          BY <1>0, <1>2, <4>1 DEF SchedInv, j
        <5>. QED  BY <1>0, <1>2, <2>1, <2>2, <5>1 DEF Fits, j
      <4>. QED  BY <2>2, <4>1 DEF SchedInv
    <3>. QED  BY <1>0, <2>2, <2>3, <3>1 DEF SchedInv, Fits
  <2>14. CreatedInv'
    BY <1>0, <2>3 DEF CreatedInv
  <2>. QED  BY <2>8, <2>9, <2>10, <2>11, <2>12, <2>13, <2>14
<1>. QED
  <2>1. PICK ok \in BOOLEAN :
         IF item[d].sched # Bad /\ ok /\ job[j].live
              THEN /\ job' = [job EXCEPT ![j].next = NextRun(d)]
                   /\ excused' = IF NextRun(d) < job[j].next
                                   THEN excused \cup {j} ELSE excused
              ELSE /\ job' = job
                   /\ ok \/ item[d].sched # Bad
                   /\ excused' = IF ok THEN excused ELSE excused \cup {j}
    BY DEF SetNextRun
  <2>. QED  BY <1>1, <1>2, <2>1
-----------------------------------------------------------------------------
(* The calls on jobs.                                                      *)

\* create_cron_job and createPluginResources: a new job has no past.
LEMMA InsertKeeps ==
    ASSUME CronInv, NEW j \in Jobs, NEW p \in Periods \cup {Bad}, NEW on \in BOOLEAN,
           NEW t \in Nat, Insert(j, p, on, t), CronTypeOK',
           p = Bad => t = Never, Fits(p, t)
    PROVE  CronInv'
<1>. USE DEF CronInv
<1>0. /\ job[j].fresh /\ job \in [Jobs -> CronRow]
      /\ job' = [job EXCEPT ![j] = [live |-> TRUE, fresh |-> FALSE, enabled |-> on,
                                    sched |-> p, next |-> t, status |-> "none"]]
      /\ \A e \in DOMAIN exec : exec[e] \in CronRun
      /\ Ticker \in Dispatchers
      /\ UNCHANGED <<clock, exec, at, item, batch, draft, excused, mixed>>
  BY DEF Insert, CronTypeOK, Dispatchers
<1>1. /\ job'[j].live /\ ~job'[j].fresh /\ job'[j].sched = p /\ job'[j].next = t
      /\ \A i \in Jobs \ {j} : job'[i] = job[i]
  BY <1>0
<1>2. (\A e \in DOMAIN exec : exec[e].job # j) /\ ~Held(j)
  BY <1>0 DEF FreshInv
<1>3. ItemInv' /\ LiveInv' /\ RoundInv' /\ SlotOnce' /\ CreatedInv'
  BY <1>0, <1>1 DEF ItemInv, LiveInv, RoundInv, SlotOnce, CreatedInv
<1>4. FreshInv'
  BY <1>0, <1>1 DEF FreshInv, Held
<1>5. BadInv'
  <2>1. Never \in Nat
    BY CronAssumption DEF CronAssumption, Never
  <2>. QED  BY <1>0, <1>1, <2>1 DEF BadInv
<1>6. SlotInv'
  <2>1. \A e \in DOMAIN exec : exec[e].job \in Jobs \ {j}
    BY <1>0, <1>2 DEF CronRun
  <2>. QED  BY <1>0, <1>1, <2>1 DEF SlotInv, InHand
<1>7. SchedInv'
  BY <1>0, <1>1, <1>2 DEF SchedInv, Held, Fits
<1>. QED  BY <1>3, <1>4, <1>5, <1>6, <1>7

\* update_cron_job reads a row.
LEMMA EditKeeps ==
    ASSUME CronInv, NEW c \in Callers, NEW j \in Jobs, EditJob(c, j), CronTypeOK'
    PROVE  CronInv'
<1>. USE DEF CronInv
<1>0. /\ job[j].live
      /\ draft' = [draft EXCEPT ![c] = [id |-> j, row |-> job[j], read |-> clock]]
      /\ UNCHANGED <<clock, job, exec, at, item, batch, excused, mixed>>
  BY DEF EditJob
<1>1. /\ draft'[c].id = j /\ draft'[c].row = job[j]
      /\ \A d \in Callers \ {c} : draft'[d] = draft[d]
  BY <1>0 DEF CronTypeOK
<1>2. ItemInv' /\ RoundInv' /\ FreshInv' /\ SlotInv' /\ SlotOnce' /\ CreatedInv'
  BY <1>0 DEF ItemInv, RoundInv, FreshInv, Held, SlotInv, InHand, SlotOnce, CreatedInv
<1>3. LiveInv' /\ BadInv'
  BY <1>0, <1>1 DEF LiveInv, BadInv
<1>4. SchedInv'
  BY <1>0, <1>1 DEF SchedInv, Fits
<1>. QED  BY <1>2, <1>3, <1>4

\* update_cron_job writes it back: another next run excuses the job, another
\* schedule under a dispatch makes it mixed.
LEMMA SaveKeeps ==
    ASSUME CronInv, NEW c \in Callers, SaveJob(c), CronTypeOK'
    PROVE  CronInv'
<1>. USE DEF CronInv
<1>0. /\ job \in [Jobs -> CronRow] /\ draft \in [Callers -> CronDraft]
      /\ draft[c].row.live /\ draft[c].id \in Jobs /\ draft[c].row \in CronRow
      /\ draft' = [draft EXCEPT ![c].row.live = FALSE]
      /\ \A e \in DOMAIN exec : exec[e] \in CronRun
      /\ Ticker \in Dispatchers
      /\ UNCHANGED <<clock, exec, at, item, batch>>
  BY DEF SaveJob, CronTypeOK, CronDraft, Dispatchers
<1>1. PICK j \in Jobs : j = draft[c].id
  BY <1>0
<1>2. PICK p \in Periods \cup {Same}, on \in BOOLEAN, u \in draft[c].read .. clock :
         job' = IF job[j].live THEN [job EXCEPT ![j] = Edited(draft[c].row, p, on, u)]
                               ELSE job
  BY <1>1 DEF SaveJob
<1>3. /\ excused' = IF job'[j].next # job[j].next THEN excused \cup {j} ELSE excused
      /\ mixed' = IF job'[j].sched # job[j].sched /\ Held(j) THEN mixed \cup {j} ELSE mixed
  BY <1>1 DEF SaveJob
<1>4. /\ ~draft'[c].row.live
      /\ \A d \in Callers \ {c} : draft'[d] = draft[d]
  BY <1>0 DEF CronDraft, CronRow
<1>5. CASE ~job[j].live
  <2>1. job' = job /\ excused' = excused /\ mixed' = mixed
    BY <1>2, <1>3, <1>5
  <2>2. CronFrame
    <3>1. clock \in Nat /\ \A d \in Dispatchers : item[d].start <= clock
      BY CronAssumption DEF CronAssumption, CronTypeOK, RoundInv
    <3>. QED  BY <1>0, <1>4, <2>1, <3>1 DEF CronFrame
  <2>. QED  BY <2>2, FrameKeeps
<1>6. CASE job[j].live
  <2>0. u \in Nat
    BY <1>0 DEF CronDraft, CronTypeOK
  <2>1. /\ job'[j] = Edited(draft[c].row, p, on, u)
        /\ \A i \in Jobs \ {j} : job'[i] = job[i]
    BY <1>0, <1>2, <1>6
  <2>2. /\ job'[j].live /\ ~job'[j].fresh
        /\ p = Same => /\ job'[j].sched = draft[c].row.sched
                       /\ job'[j].next = draft[c].row.next
        /\ p # Same => /\ job'[j].sched = p /\ job'[j].next = NextAfter(p, u)
    <3>1. PICK r \in CronRow : r = draft[c].row
      BY <1>0
    <3>2. r.live /\ ~r.fresh
      BY <1>0, <3>1 DEF LiveInv
    <3>3. job'[j] = Edited(r, p, on, u)
      BY <2>1, <3>1
    <3>. QED  BY <2>0, <3>1, <3>2, <3>3, EditedIsRow
  <2>3. /\ excused \subseteq excused' /\ mixed \subseteq mixed'
        /\ j \notin excused' => job'[j].next = job[j].next
        /\ j \notin mixed' /\ Held(j) => job'[j].sched = job[j].sched
    BY <1>3
  <2>4. ItemInv' /\ LiveInv' /\ RoundInv' /\ SlotOnce' /\ CreatedInv'
    BY <1>0, <1>4, <2>1, <2>2, <2>3 DEF ItemInv, LiveInv, RoundInv, SlotOnce, CreatedInv
  <2>5. FreshInv'
    BY <1>0, <2>1, <2>2 DEF FreshInv, Held
  <2>6. BadInv'
    <3>1. j \notin excused' /\ job'[j].sched = Bad => job'[j].next >= Never
      <4>1. p # Same => p # Bad
        BY CronAssumption DEF CronAssumption
      <4>. QED  BY <1>0, <1>1, <2>2, <2>3, <4>1 DEF BadInv
    <3>2. \A i \in Jobs \ excused' :
             job'[i].live /\ job'[i].sched = Bad => job'[i].next >= Never
      BY <2>1, <2>3, <3>1 DEF BadInv
    <3>. QED  BY <1>0, <1>4, <2>3, <3>2 DEF BadInv
  <2>7. SlotInv'
    <3>1. \A e \in DOMAIN exec : exec[e].job \in Jobs
      BY <1>0 DEF CronRun
    <3>2. \A e \in DOMAIN exec :
             exec[e].job \notin excused' /\ job'[exec[e].job].live
             => /\ job[exec[e].job].live
                /\ job'[exec[e].job].next = job[exec[e].job].next
      BY <1>6, <2>1, <2>3, <3>1
    <3>3. \A e \in DOMAIN exec : InHand(e) => InHand(e)'
      BY <1>0 DEF InHand
    <3>. QED  BY <1>0, <2>3, <3>2, <3>3 DEF SlotInv
  <2>8. SchedInv'
    <3>1. j \notin mixed' => Fits(job'[j].sched, job'[j].next)
      <4>1. CASE p = Same
        BY <1>0, <1>1, <2>2, <2>3, <4>1 DEF SchedInv
      <4>2. CASE p # Same
        <5>1. p \in Nat \ {0} /\ p # Bad
          BY <4>2, CronAssumption DEF CronAssumption
        <5>2. \E k \in Nat : NextAfter(p, u) = p * k
          BY <2>0, <5>1, NextIsLater
        <5>. QED  BY <2>2, <4>2, <5>1, <5>2 DEF Fits
      <4>. QED  BY <4>1, <4>2
    <3>2. j \notin mixed' =>
            /\ \A d \in Dispatchers :
                  at[d] # "idle" /\ item[d].id = j => item[d].sched = job'[j].sched
            /\ \A b \in batch : b.id = j => b.row.sched = job'[j].sched
      BY <1>6, <2>3 DEF SchedInv, Held
    <3>3. \A i \in Jobs \ mixed' : job'[i].live =>
            /\ Fits(job'[i].sched, job'[i].next)
            /\ \A d \in Dispatchers :
                  at[d] # "idle" /\ item[d].id = i => item[d].sched = job'[i].sched
            /\ \A b \in batch : b.id = i => b.row.sched = job'[i].sched
      BY <2>1, <2>3, <3>1, <3>2 DEF SchedInv
    <3>4. \A d \in Callers : draft'[d].row.live /\ draft'[d].id \notin mixed' =>
              Fits(draft'[d].row.sched, draft'[d].row.next)
      BY <1>4, <2>3 DEF SchedInv
    <3>. QED  BY <1>0, <3>3, <3>4 DEF SchedInv, Fits
  <2>. QED  BY <2>4, <2>5, <2>6, <2>7, <2>8
<1>. QED  BY <1>5, <1>6
-----------------------------------------------------------------------------
LEMMA CronStep == CronInv /\ [CronNext]_cronVars => CronInv'
<1>. SUFFICES ASSUME CronInv, [CronNext]_cronVars PROVE CronInv'
  OBVIOUS
<1>0. CronTypeOK'
  BY CronTypeStep DEF CronInv
<1>1. CASE \/ UNCHANGED cronVars \/ ClockTicks \/ CronCrash \/ ExecutorStep
           \/ \E d \in Dispatchers : Fire(d) \/ MarkRunning(d)
           \/ \E j \in Jobs : DeleteJob(j)
  BY <1>0, <1>1, FrameSteps, FrameKeeps
<1>2. ASSUME NEW S \in SUBSET Jobs, CronStart(S) PROVE CronInv'
  BY <1>0, <1>2, StartKeeps
<1>3. CASE CheckDue
  BY <1>0, <1>3, CheckKeeps
<1>4. CASE DispatchDue
  BY <1>0, <1>4, DispatchKeeps
<1>5. ASSUME NEW d \in Dispatchers, CreateExecution(d) \/ SetNextRun(d) PROVE CronInv'
  BY <1>0, <1>5, CreateKeeps, NextKeeps
<1>6. ASSUME NEW j \in Jobs, NEW p \in Periods, NEW on \in BOOLEAN, CreateJob(j, p, on)
      PROVE  CronInv'
  <2>1. p \in Nat \ {0} /\ p # Bad /\ clock \in Nat
    BY CronAssumption DEF CronAssumption, CronInv, CronTypeOK
  <2>2. NextAfter(p, clock) \in Nat /\ \E k \in Nat : NextAfter(p, clock) = p * k
    BY <2>1, NextIsLater
  <2>3. Fits(p, NextAfter(p, clock))
    BY <2>1, <2>2 DEF Fits
  <2>. QED  BY <1>0, <1>6, <2>1, <2>2, <2>3, InsertKeeps DEF CreateJob
<1>7. ASSUME NEW j \in Jobs, NEW p \in Periods \cup {Bad}, CreatePluginJob(j, p)
      PROVE  CronInv'
  <2>1. Never \in Nat /\ Fits(p, Never)
    BY CronAssumption DEF CronAssumption, Never, Fits
  <2>. QED  BY <1>0, <1>7, <2>1, InsertKeeps DEF CreatePluginJob
<1>8. ASSUME NEW c \in Callers, NEW j \in Jobs, Trigger(c, j) \/ EditJob(c, j)
      PROVE  CronInv'
  BY <1>0, <1>8, TriggerKeeps, EditKeeps
<1>9. ASSUME NEW c \in Callers, SaveJob(c) PROVE CronInv'
  BY <1>0, <1>9, SaveKeeps
<1>. QED  BY <1>1, <1>2, <1>3, <1>4, <1>5, <1>6, <1>7, <1>8, <1>9 DEF CronNext, DispatchStep

\* checkAndDispatch and UpdateNextRun: the scheduler dispatches a slot of a job
\* once, unless a failure, a crash or another call brought the slot back.
THEOREM CronSlotsOnce == CronSpec => []SlotOnce
<1>1. CronInv => SlotOnce
  BY DEF CronInv
<1>. QED  BY CronInits, CronStep, <1>1, PTL DEF CronSpec

\* dispatchJob: no slot is passed over.  A next run moves on only by
\* UpdateNextRun, whose dispatch has created an execution; it began no earlier
\* than the next run it replaces, because both are times of one schedule and
\* the new one is the first after it began.
THEOREM CronSlotsServed == CronSpec => SlotServed
<1>. DEFINE Served ==
        \A j \in Jobs :
          (/\ job[j].live /\ job'[j].live /\ draft' = draft
           /\ j \notin mixed /\ job[j].next <= clock
           /\ job'[j].next > job[j].next)
          => \E e \in DOMAIN exec : exec[e].job = j /\ exec[e].start >= job[j].next
<1>1. ASSUME CronInv, [CronNext]_cronVars PROVE Served
  <2>. USE <1>1 DEF CronInv
  <2>. SUFFICES ASSUME NEW j \in Jobs, job[j].live, job'[j].live, draft' = draft,
                       j \notin mixed, job[j].next <= clock, job'[j].next > job[j].next
       PROVE  \E e \in DOMAIN exec : exec[e].job = j /\ exec[e].start >= job[j].next
    OBVIOUS
  <2>0. /\ job \in [Jobs -> CronRow] /\ job[j].next \in Nat /\ clock \in Nat /\ clock < Never
        /\ job'[j].next # job[j].next
    BY CronAssumption DEF CronAssumption, CronTypeOK, CronRow, Never
  <2>1. CASE \/ UNCHANGED cronVars \/ ClockTicks \/ CronCrash \/ ExecutorStep
             \/ \E d \in Dispatchers : Fire(d) \/ MarkRunning(d)
             \/ \E i \in Jobs : DeleteJob(i)
    BY <2>0, <2>1, FrameSteps DEF CronFrame
  <2>2. ASSUME NEW S \in SUBSET Jobs, CronStart(S) PROVE FALSE
    BY <2>0, <2>2 DEF CronStart, Unseeded
  <2>3. CASE \/ CheckDue \/ DispatchDue
             \/ \E d \in Dispatchers : CreateExecution(d)
             \/ \E c \in Callers, i \in Jobs : Trigger(c, i) \/ EditJob(c, i)
    BY <2>0, <2>3 DEF CheckDue, DispatchDue, CreateExecution, Trigger, EditJob
  <2>4. ASSUME NEW i \in Jobs, NEW p, NEW on, NEW t, Insert(i, p, on, t) PROVE FALSE
    BY <2>0, <2>4 DEF Insert, LiveInv
  <2>5. ASSUME NEW c \in Callers, SaveJob(c) PROVE FALSE
    <3>1. draft[c].row.live /\ draft'[c] = [draft[c] EXCEPT !.row.live = FALSE]
      BY <2>5 DEF SaveJob, CronTypeOK
    <3>. QED  BY <3>1 DEF CronTypeOK, CronDraft, CronRow
  <2>6. ASSUME NEW d \in Dispatchers, SetNextRun(d)
        PROVE  \E e \in DOMAIN exec : exec[e].job = j /\ exec[e].start >= job[j].next
    <3>1. /\ at[d] = "next" /\ item[d].sched # Bad /\ item[d].id = j
          /\ job'[j].next = NextRun(d)
      <4>1. PICK i \in Jobs : i = item[d].id
        BY <2>6 DEF SetNextRun, ItemInv
      <4>2. \/ job' = job
            \/ item[d].sched # Bad /\ job' = [job EXCEPT ![i].next = NextRun(d)]
        BY <2>6, <4>1 DEF SetNextRun
      <4>3. i = j /\ item[d].sched # Bad /\ job' = [job EXCEPT ![i].next = NextRun(d)]
        BY <2>0, <4>2
      <4>. QED  BY <2>0, <2>6, <4>1, <4>3 DEF SetNextRun, CronRow
    <3>2. PICK e \in DOMAIN exec : exec[e].job = j /\ exec[e].start = item[d].start
      BY <3>1 DEF CreatedInv
    <3>3. item[d].sched = job[j].sched
      BY <3>1 DEF SchedInv
    <3>4. item[d].sched \in Nat \ {0} /\ item[d].start \in Nat
      BY <3>1, CronAssumption DEF CronAssumption, CronTypeOK, CronItem
    <3>5. PICK k \in Nat : job[j].next = item[d].sched * k
      BY <2>0, <3>3 DEF SchedInv, Fits
    <3>6. item[d].sched * k > item[d].start => item[d].sched * k >= NextRun(d)
      BY <3>4, NextIsLater DEF NextRun
    <3>7. NextRun(d) \in Nat
      BY <3>4, NextIsLater DEF NextRun
    <3>8. item[d].start >= job[j].next
      BY <2>0, <3>1, <3>4, <3>5, <3>6, <3>7
    <3>. QED  BY <3>2, <3>8
  <2>. QED  BY <1>1, <2>1, <2>2, <2>3, <2>4, <2>5, <2>6
               DEF CronNext, DispatchStep, CreateJob, CreatePluginJob
<1>2. CronInv /\ [CronNext]_cronVars =>
        [\A j \in Jobs :
           (/\ job[j].live /\ job'[j].live /\ draft' = draft
            /\ j \notin mixed /\ job[j].next <= clock
            /\ job'[j].next > job[j].next)
           => \E e \in DOMAIN exec : /\ exec[e].job = j
                                    /\ exec[e].start >= job[j].next]_cronVars
  BY <1>1
<1>. QED  BY CronInits, CronStep, <1>2, PTL DEF CronSpec, SlotServed

-----------------------------------------------------------------------------
(***************************************************************************)
(* CronSearch.  The days of a month follow those of the month before       *)
(* without a gap, leap years included (NextStart), so every day before the *)
(* end of the calendar has one date (EveryDayDated) and a later day is of  *)
(* the same month or a later one (LaterMonth).  Each jump then goes on and *)
(* passes over no minute that matches (AdvanceJumps): what lies between is *)
(* of the same month, day, hour or minute, or of one that is not in the    *)
(* schedule.                                                               *)
(***************************************************************************)

LEMMA LeastOf ==
    ASSUME NEW T \in SUBSET Nat, T # {}
    PROVE  \E x \in T : \A y \in T : x <= y
<1>1. IsWellFoundedOn({ss \in Nat \X Nat : ss[1] < ss[2]}, Nat)
  BY NatLessThanWellFounded DEF OpToRel
<1>2. PICK x \in T : \A y \in T : ~(<<y, x>> \in {ss \in Nat \X Nat : ss[1] < ss[2]})
  BY <1>1, WFMin
<1>3. ASSUME NEW y \in T PROVE x <= y
  <2>1. ~(y < x)
    BY <1>2
  <2>. QED  BY <2>1
<1>. QED  BY <1>3

\* What is true of 0, and of a number when it is of the one before, is true of all.
LEMMA UpTo ==
    ASSUME NEW n \in Nat, NEW T, 0 \in T, \A i \in 0 .. n - 1 : i \in T => i + 1 \in T
    PROVE  0 .. n \subseteq T
<1>. DEFINE Rest == (0 .. n) \ T
<1>. SUFFICES ASSUME Rest # {} PROVE FALSE
  OBVIOUS
<1>1. PICK x \in Rest : \A y \in Rest : x <= y
  <2>1. Rest \in SUBSET Nat
    OBVIOUS
  <2>. HIDE DEF Rest
  <2>. QED  BY <2>1, LeastOf
<1>2. x # 0 /\ x - 1 \in 0 .. n - 1 /\ x - 1 \notin Rest
  BY <1>1
<1>. QED  BY <1>2

\* The same from 1 on.
LEMMA UpFrom ==
    ASSUME NEW n \in Nat \ {0}, NEW T, 1 \in T, \A i \in 1 .. n - 1 : i \in T => i + 1 \in T
    PROVE  1 .. n \subseteq T
<1>. DEFINE U == {i \in 0 .. n - 1 : i + 1 \in T}
<1>1. 0 \in U
  OBVIOUS
<1>2. ASSUME NEW i \in 0 .. (n - 1) - 1, i \in U PROVE i + 1 \in U
  <2>1. i + 1 \in 1 .. n - 1 /\ i + 1 \in T
    BY <1>2
  <2>2. (i + 1) + 1 \in T /\ i + 1 \in 0 .. n - 1
    BY <2>1
  <2>. QED  BY <2>2
<1>3. n - 1 \in Nat
  OBVIOUS
<1>. HIDE DEF U
<1>4. 0 .. n - 1 \subseteq U
  BY <1>1, <1>2, <1>3, UpTo
<1>5. ASSUME NEW j \in 1 .. n PROVE j \in T
  <2>1. j - 1 \in 0 .. n - 1 /\ (j - 1) + 1 = j
    OBVIOUS
  <2>2. j - 1 \in U
    BY <1>4, <2>1
  <2>. QED  BY <2>1, <2>2 DEF U
<1>. QED  BY <1>5

-----------------------------------------------------------------------------
(* The minutes of a day *)

\* Division with remainder, and that it is the only one.
LEMMA Division ==
    ASSUME NEW p \in Nat \ {0}, NEW t \in Nat
    PROVE  /\ t \div p \in Nat /\ t % p \in 0 .. p - 1
           /\ t = p * (t \div p) + (t % p)
<1>1. t \div p \in Nat
  OBVIOUS
<1>2. t % p \in 0 .. p - 1
  OBVIOUS
<1>3. t = p * (t \div p) + (t % p)
  BY SMTT(30)
<1>. QED  BY <1>1, <1>2, <1>3, Zenon

LEMMA Quotient ==
    ASSUME NEW p \in Nat \ {0}, NEW t \in Nat, NEW q \in Nat, NEW r \in 0 .. p - 1,
           t = p * q + r
    PROVE  t \div p = q /\ t % p = r
<1>1. t \div p \in Nat /\ t % p \in 0 .. p - 1 /\ t = p * (t \div p) + (t % p)
  BY Division
<1>. DEFINE a == t \div p
            b == t % p
<1>. HIDE DEF a, b
<1>2. a \in Nat /\ b \in 0 .. p - 1 /\ p * a + b = p * q + r
  BY <1>1 DEF a, b
<1>3. ASSUME NEW x \in Nat, NEW y \in Nat, x < y PROVE p * x + p <= p * y
  <2>1. PICK k \in Nat : y = x + 1 + k
    <3>1. y - x - 1 \in Nat /\ y = x + 1 + (y - x - 1)
      BY <1>3
    <3>. QED  BY <3>1
  <2>2. p * y = p * x + p + p * k /\ p * k \in Nat /\ p * x \in Nat
    BY <2>1
  <2>. QED  BY <2>2
<1>4. p * a \in Nat /\ p * q \in Nat
  BY <1>2
<1>5. ~(a < q)
  BY <1>2, <1>3, <1>4
<1>6. ~(q < a)
  BY <1>2, <1>3, <1>4
<1>7. a = q
  BY <1>2, <1>5, <1>6
<1>. QED  BY <1>2, <1>4, <1>7 DEF a, b

\* A larger factor gives a larger product.
LEMMA Multiples ==
    ASSUME NEW p \in Nat, NEW x \in Nat, NEW y \in Nat, x <= y
    PROVE  x * p \in Nat /\ y * p \in Nat /\ x * p <= y * p
<1>1. PICK k \in Nat : y = x + k
  <2>1. y - x \in Nat /\ y = x + (y - x)
    OBVIOUS
  <2>. QED  BY <2>1
<1>2. y * p = x * p + k * p /\ k * p \in Nat /\ x * p \in Nat
  BY <1>1
<1>. QED  BY <1>2

LEMMA DayMinutesType == DayMinutes \in Nat \ {0} /\ DayMinutes = DayHours * HourMinutes
BY CalendarAssumption DEF DayMinutes


\* A minute is made of the day, the hour and the minute of its clock.
LEMMA Clock ==
    ASSUME NEW t \in Nat
    PROVE  /\ DayOf(t) \in Nat /\ HourOf(t) \in 0 .. DayHours - 1
           /\ MinuteOf(t) \in 0 .. HourMinutes - 1
           /\ t = Midnight(DayOf(t)) + HourOf(t) * HourMinutes + MinuteOf(t)
<1>. DEFINE D == DayMinutes
            H == HourMinutes
            q == t \div D
            r == t % D
            h == r \div H
            m == r % H
<1>1. D \in Nat \ {0} /\ D = DayHours * H /\ H \in Nat \ {0} /\ DayHours \in Nat \ {0}
  BY DayMinutesType, CalendarAssumption
<1>. HIDE DEF D, H
<1>2. q \in Nat /\ r \in 0 .. D - 1 /\ t = D * q + r
  BY <1>1, Division
<1>3. r \in Nat
  BY <1>1, <1>2
<1>. HIDE DEF q, r
<1>4. h \in Nat /\ m \in 0 .. H - 1 /\ r = H * h + m
  BY <1>1, <1>3, Division
<1>. HIDE DEF h, m
<1>5. h < DayHours
  <2>. SUFFICES ASSUME DayHours <= h PROVE FALSE
    BY <1>1, <1>4
  <2>1. DayHours * H <= h * H /\ h * H = H * h /\ h * H \in Nat
    BY <1>1, <1>4, Multiples
  <2>. QED  BY <1>1, <1>2, <1>4, <2>1
<1>6. t % H = m
  <2>1. DayHours * q + h \in Nat
    BY <1>1, <1>2, <1>4
  <2>2. t = H * (DayHours * q + h) + m
    <3>1. t = (DayHours * H) * q + (H * h + m)
      BY <1>1, <1>2, <1>4
    <3>2. (DayHours * H) * q = H * (DayHours * q)
      BY <1>1, <1>2
    <3>3. H * (DayHours * q + h) = H * (DayHours * q) + H * h
      BY <1>1, <1>2, <1>4
    <3>4. DayHours * q \in Nat /\ H * (DayHours * q) \in Nat /\ H * h \in Nat
      BY <1>1, <1>2, <1>4
    <3>. QED  BY <3>1, <3>2, <3>3, <3>4, <1>4
  <2>. QED  BY <1>1, <1>4, <2>1, <2>2, Quotient
<1>7. DayOf(t) = q /\ HourOf(t) = h /\ MinuteOf(t) = m /\ Midnight(DayOf(t)) = q * D
  BY <1>6 DEF DayOf, HourOf, MinuteOf, Midnight, q, r, h, D, H
<1>8. q * D = D * q /\ h * H = H * h /\ q * D \in Nat /\ h * H \in Nat
  BY <1>1, <1>2, <1>4
<1>9. t = Midnight(DayOf(t)) + HourOf(t) * HourMinutes + MinuteOf(t)
  <2>1. t = q * D + h * H + m
    BY <1>1, <1>2, <1>3, <1>4, <1>8
  <2>. QED  BY <1>7, <2>1 DEF H
<1>. QED  BY <1>1, <1>2, <1>4, <1>5, <1>7, <1>9 DEF H

\* The minutes of one day.
LEMMA SameDay ==
    ASSUME NEW t \in Nat, NEW u \in Nat, NEW n \in Nat,
           Midnight(n) <= u, u < Midnight(n + 1)
    PROVE  DayOf(u) = n
<1>1. DayMinutes \in Nat \ {0}
  BY DayMinutesType
<1>. DEFINE D == DayMinutes
            r == u - n * D
<1>. HIDE DEF D
<1>2. (n + 1) * D = n * D + D /\ n * D \in Nat /\ n * D = D * n
  BY <1>1 DEF D
<1>3. n * D <= u /\ u < n * D + D
  BY <1>2 DEF Midnight, D
<1>4. r \in 0 .. D - 1 /\ u = D * n + r
  BY <1>1, <1>2, <1>3 DEF D
<1>. HIDE DEF r
<1>5. u \div D = n
  BY <1>1, <1>4, Quotient DEF D
<1>. QED  BY <1>5 DEF DayOf, D

\* The day of a minute begins before it and ends after it.
LEMMA OfDay ==
    ASSUME NEW t \in Nat
    PROVE  /\ DayOf(t) \in Nat /\ Midnight(DayOf(t)) \in Nat
           /\ Midnight(DayOf(t)) <= t /\ t < Midnight(DayOf(t) + 1)
<1>1. DayMinutes \in Nat \ {0}
  BY DayMinutesType
<1>. DEFINE D == DayMinutes
            q == DayOf(t)
            r == t % D
<1>2. q \in Nat /\ r \in 0 .. D - 1 /\ t = D * q + r
  BY <1>1, Division DEF DayOf
<1>3. D \in Nat
  BY <1>1
<1>. HIDE DEF D, q, r
<1>4. (q + 1) * D = q * D + D /\ q * D \in Nat /\ q * D = D * q
  BY <1>2, <1>3
<1>5. q * D <= t /\ t < (q + 1) * D
  BY <1>2, <1>3, <1>4
<1>. QED  BY <1>2, <1>4, <1>5 DEF Midnight, D, q

LEMMA DaysGoOn ==
    ASSUME NEW t \in Nat, NEW u \in Nat, t <= u
    PROVE  DayOf(t) <= DayOf(u)
<1>. SUFFICES ASSUME DayOf(u) < DayOf(t) PROVE FALSE
  BY OfDay
<1>1. DayMinutes \in Nat
  BY DayMinutesType
<1>2. Midnight(DayOf(u) + 1) <= Midnight(DayOf(t))
  BY <1>1, OfDay, Multiples DEF Midnight
<1>3. Midnight(DayOf(u) + 1) \in Nat
  BY <1>1, OfDay, Multiples DEF Midnight
<1>. QED  BY <1>2, <1>3, OfDay

\* A minute before a midnight is of an earlier day.
LEMMA DayBefore ==
    ASSUME NEW t \in Nat, NEW n \in Nat, t < Midnight(n)
    PROVE  DayOf(t) < n
<1>. SUFFICES ASSUME n <= DayOf(t) PROVE FALSE
  BY OfDay
<1>1. Midnight(n) <= Midnight(DayOf(t)) /\ Midnight(n) \in Nat
  BY DayMinutesType, OfDay, Multiples DEF Midnight
<1>. QED  BY <1>1, OfDay

-----------------------------------------------------------------------------
(* The months of a year *)

LEMMA MonthsType ==
    /\ Len(MonthDays) \in Nat \ {0}
    /\ \A m \in Months : MonthDays[m] \in Nat \ {0}
BY CalendarAssumption DEF Months

LEMMA MonthLengths ==
    ASSUME NEW y \in Nat, NEW m \in Months
    PROVE  /\ MonthLength(y, m) \in Nat \ {0}
           /\ MonthLength(y, m) =
                  MonthLength(0, m) + IF y % 4 = 3 /\ m = LeapMonth THEN 1 ELSE 0
<1>1. MonthDays[m] \in Nat \ {0}
  BY MonthsType
<1>2. 0 % 4 = 0
  OBVIOUS
<1>. QED  BY <1>1, <1>2 DEF MonthLength

\* The days of a year before each of its first n months.
DayTable(y, n, g) ==
    g = [k \in 1 .. n |-> IF k = 1 THEN 0 ELSE g[k - 1] + MonthLength(y, k - 1)]

LEMMA DayTableExists ==
    ASSUME NEW y, NEW n \in Nat \ {0}
    PROVE  \E g : DayTable(y, n, g)
<1>. DEFINE T == {m \in Nat : \E g : DayTable(y, m, g)}
<1>1. 1 \in T
  <2>. DEFINE r == [k \in 1 .. 1 |-> 0]
  <2>1. DayTable(y, 1, r)
    BY DEF DayTable
  <2>. HIDE DEF r
  <2>. QED  BY <2>1
<1>2. ASSUME NEW m \in 1 .. n - 1, m \in T PROVE m + 1 \in T
  <2>1. PICK g : DayTable(y, m, g)
    BY <1>2
  <2>. DEFINE h == [k \in 1 .. m + 1 |->
                       IF k = m + 1 THEN g[m] + MonthLength(y, m) ELSE g[k]]
  <2>2. \A k \in 1 .. m : g[k] = IF k = 1 THEN 0 ELSE g[k - 1] + MonthLength(y, k - 1)
    BY <2>1 DEF DayTable
  <2>3. ASSUME NEW k \in 1 .. m + 1
        PROVE  h[k] = IF k = 1 THEN 0 ELSE h[k - 1] + MonthLength(y, k - 1)
    <3>1. CASE k = m + 1
      <4>1. k # 1 /\ k - 1 = m /\ h[k] = g[m] + MonthLength(y, m) /\ h[m] = g[m]
        BY <3>1
      <4>. HIDE DEF h
      <4>. QED  BY <4>1
    <3>2. CASE k \in 1 .. m
      <4>1. h[k] = g[k] /\ (k # 1 => h[k - 1] = g[k - 1])
        BY <3>2
      <4>. HIDE DEF h
      <4>. QED  BY <2>2, <3>2, <4>1
    <3>. QED  BY <3>1, <3>2
  <2>4. DayTable(y, m + 1, h)
    <3>1. h = [k \in 1 .. m + 1 |-> h[k]]
      OBVIOUS
    <3>. HIDE DEF h
    <3>. QED  BY <2>3, <3>1, Zenon DEF DayTable
  <2>. HIDE DEF h
  <2>. QED  BY <2>4
<1>. HIDE DEF T
<1>3. 1 .. n \subseteq T
  BY <1>1, <1>2, UpFrom
<1>4. n \in T
  BY <1>3
<1>. QED  BY <1>4 DEF T

\* DaysBefore adds up the lengths of the months.
LEMMA DaysBeforeSums ==
    ASSUME NEW y \in Nat
    PROVE  /\ DaysBefore(y, 1) = 0
           /\ \A m \in Months : DaysBefore(y, m) \in Nat
           /\ \A m \in Months : m + 1 \in Months =>
                 DaysBefore(y, m + 1) = DaysBefore(y, m) + MonthLength(y, m)
<1>. DEFINE L == Len(MonthDays)
            g == CHOOSE f : DayTable(y, L, f)
<1>1. L \in Nat \ {0} /\ Months = 1 .. L
  BY MonthsType DEF Months
<1>2. DayTable(y, L, g)
  <2>1. \E f : DayTable(y, L, f)
    BY <1>1, DayTableExists
  <2>. QED  BY <2>1, Zenon
<1>3. ASSUME NEW m PROVE DaysBefore(y, m) = g[m]
  BY <1>1, Zenon DEF DaysBefore, DayTable, Months
<1>. HIDE DEF g, L
<1>4. \A k \in 1 .. L : g[k] = IF k = 1 THEN 0 ELSE g[k - 1] + MonthLength(y, k - 1)
  BY <1>2 DEF DayTable
<1>5. g[1] = 0
  BY <1>1, <1>4
<1>6. ASSUME NEW m \in Months, m + 1 \in Months PROVE g[m + 1] = g[m] + MonthLength(y, m)
  <2>1. m + 1 \in 1 .. L /\ m + 1 # 1 /\ (m + 1) - 1 = m
    BY <1>1, <1>6
  <2>. QED  BY <1>4, <2>1
<1>7. \A m \in Months : g[m] \in Nat
  <2>. DEFINE T == {m \in Months : g[m] \in Nat}
  <2>1. 1 \in T
    BY <1>1, <1>5
  <2>2. ASSUME NEW m \in 1 .. L - 1, m \in T PROVE m + 1 \in T
    <3>1. m \in Months /\ m + 1 \in Months /\ g[m] \in Nat
      BY <1>1, <2>2
    <3>2. MonthLength(y, m) \in Nat
      BY <3>1, MonthLengths
    <3>. QED  BY <1>6, <3>1, <3>2
  <2>. HIDE DEF T
  <2>3. 1 .. L \subseteq T
    BY <1>1, <2>1, <2>2, UpFrom
  <2>. QED  BY <1>1, <2>3 DEF T
<1>. QED  BY <1>3, <1>5, <1>6, <1>7

\* A leap year is one day longer after its leap month.
LEMMA LeapDay ==
    ASSUME NEW y \in Nat, NEW m \in Months
    PROVE  DaysBefore(y, m) =
              DaysBefore(0, m) + IF y % 4 = 3 /\ m > LeapMonth THEN 1 ELSE 0
<1>. DEFINE L == Len(MonthDays)
            T == {k \in Months : DaysBefore(y, k) =
                     DaysBefore(0, k) + IF y % 4 = 3 /\ k > LeapMonth THEN 1 ELSE 0}
<1>1. L \in Nat \ {0} /\ Months = 1 .. L /\ LeapMonth \in 1 .. L
  BY MonthsType, CalendarAssumption DEF Months
<1>2. 1 \in T
  <2>1. 1 \in Months /\ ~(1 > LeapMonth)
    BY <1>1
  <2>2. DaysBefore(y, 1) = 0 /\ DaysBefore(0, 1) = 0
    BY DaysBeforeSums
  <2>. QED  BY <2>1, <2>2
<1>3. ASSUME NEW k \in 1 .. L - 1, k \in T PROVE k + 1 \in T
  <2>1. k \in Months /\ k + 1 \in Months
    BY <1>1
  <2>2. /\ DaysBefore(y, k + 1) = DaysBefore(y, k) + MonthLength(y, k)
        /\ DaysBefore(0, k + 1) = DaysBefore(0, k) + MonthLength(0, k)
        /\ DaysBefore(0, k) \in Nat
    BY <2>1, DaysBeforeSums
  <2>3. /\ MonthLength(y, k) =
              MonthLength(0, k) + IF y % 4 = 3 /\ k = LeapMonth THEN 1 ELSE 0
        /\ MonthLength(0, k) \in Nat
    BY <2>1, MonthLengths
  <2>4. DaysBefore(y, k) =
           DaysBefore(0, k) + IF y % 4 = 3 /\ k > LeapMonth THEN 1 ELSE 0
    BY <1>3
  <2>5. DaysBefore(y, k + 1) =
           DaysBefore(0, k + 1) + IF y % 4 = 3 /\ k + 1 > LeapMonth THEN 1 ELSE 0
    BY <1>1, <2>1, <2>2, <2>3, <2>4
  <2>. QED  BY <2>1, <2>5
<1>. HIDE DEF T
<1>4. 1 .. L \subseteq T
  BY <1>1, <1>2, <1>3, UpFrom
<1>. QED  BY <1>1, <1>4 DEF T

-----------------------------------------------------------------------------
(* The days of the calendar *)

\* The number of the first day of a month.
Start(y, m) == DayNumber(y, m, 1)

LEMMA YearLengthType == YearLength \in Nat
<1>1. Len(MonthDays) \in Months /\ 0 \in Nat
  BY MonthsType DEF Months
<1>2. DaysBefore(0, Len(MonthDays)) \in Nat
  BY <1>1, DaysBeforeSums
<1>3. MonthLength(0, Len(MonthDays)) \in Nat
  BY <1>1, MonthLengths
<1>. QED  BY <1>2, <1>3 DEF YearLength

LEMMA StartType ==
    ASSUME NEW y \in Nat, NEW m \in Months
    PROVE  /\ Start(y, m) \in Nat
           /\ Start(y, m) = y * YearLength + (y \div 4) + DaysBefore(y, m)
<1>1. y * YearLength \in Nat /\ y \div 4 \in Nat /\ DaysBefore(y, m) \in Nat
  BY YearLengthType, DaysBeforeSums
<1>. QED  BY <1>1 DEF Start, DayNumber

LEMMA NumberOfDay ==
    ASSUME NEW y \in Nat, NEW m \in Months, NEW d \in Nat
    PROVE  DayNumber(y, m, d) = Start(y, m) + d - 1
<1>1. y * YearLength \in Nat /\ y \div 4 \in Nat /\ DaysBefore(y, m) \in Nat
  BY YearLengthType, DaysBeforeSums
<1>. QED  BY <1>1 DEF Start, DayNumber

\* Every month follows the one before without a gap.
LEMMA NextStart ==
    ASSUME NEW y \in Nat, NEW m \in Months
    PROVE  /\ m + 1 \in Months => Start(y, m + 1) = Start(y, m) + MonthLength(y, m)
           /\ m = Len(MonthDays) => Start(y + 1, 1) = Start(y, m) + MonthLength(y, m)
           /\ Start(0, 1) = 0
<1>1. Months = 1 .. Len(MonthDays) /\ Len(MonthDays) \in Nat \ {0}
  BY MonthsType DEF Months
<1>2. 1 \in Months /\ y + 1 \in Nat /\ 0 \in Nat
  BY <1>1
<1>3. /\ Start(y, m) = y * YearLength + (y \div 4) + DaysBefore(y, m)
      /\ y * YearLength \in Nat /\ y \div 4 \in Nat /\ DaysBefore(y, m) \in Nat
  BY YearLengthType, DaysBeforeSums, StartType
<1>4. ASSUME m + 1 \in Months PROVE Start(y, m + 1) = Start(y, m) + MonthLength(y, m)
  <2>1. Start(y, m + 1) = y * YearLength + (y \div 4) + DaysBefore(y, m + 1)
    BY <1>4, StartType
  <2>2. DaysBefore(y, m + 1) = DaysBefore(y, m) + MonthLength(y, m)
    BY <1>4, DaysBeforeSums
  <2>3. MonthLength(y, m) \in Nat
    BY MonthLengths
  <2>. QED  BY <1>3, <2>1, <2>2, <2>3
<1>5. ASSUME m = Len(MonthDays) PROVE Start(y + 1, 1) = Start(y, m) + MonthLength(y, m)
  <2>. DEFINE leap == IF y % 4 = 3 THEN 1 ELSE 0
  <2>1. Start(y + 1, 1) = (y + 1) * YearLength + ((y + 1) \div 4) + DaysBefore(y + 1, 1)
    BY <1>2, StartType
  <2>2. DaysBefore(y + 1, 1) = 0
    BY <1>2, DaysBeforeSums
  <2>3. (y + 1) * YearLength = y * YearLength + YearLength
    BY YearLengthType
  <2>4. (y + 1) \div 4 = (y \div 4) + leap
    OBVIOUS
  <2>5. DaysBefore(y, m) + MonthLength(y, m) = YearLength + leap
    <3>1. DaysBefore(y, m) = DaysBefore(0, m) + IF y % 4 = 3 /\ m > LeapMonth THEN 1 ELSE 0
      BY LeapDay
    <3>2. MonthLength(y, m) = MonthLength(0, m) + IF y % 4 = 3 /\ m = LeapMonth THEN 1 ELSE 0
      BY MonthLengths
    <3>3. YearLength = DaysBefore(0, m) + MonthLength(0, m)
      BY <1>5 DEF YearLength
    <3>4. m \in Nat /\ LeapMonth \in 1 .. m
      BY <1>1, <1>5, CalendarAssumption
    <3>5. DaysBefore(0, m) \in Nat /\ MonthLength(0, m) \in Nat
      BY DaysBeforeSums, MonthLengths
    <3>. QED  BY <3>1, <3>2, <3>3, <3>4, <3>5
  <2>6. MonthLength(y, m) \in Nat /\ leap \in Nat
    BY MonthLengths
  <2>. HIDE DEF leap
  <2>. QED  BY <1>3, <2>1, <2>2, <2>3, <2>4, <2>5, <2>6, YearLengthType
<1>6. Start(0, 1) = 0
  <2>1. Start(0, 1) = 0 * YearLength + (0 \div 4) + DaysBefore(0, 1)
    BY <1>2, StartType
  <2>2. DaysBefore(0, 1) = 0 /\ 0 * YearLength = 0 /\ 0 \div 4 = 0
    BY <1>2, DaysBeforeSums, YearLengthType
  <2>. QED  BY <2>1, <2>2
<1>. QED  BY <1>4, <1>5, <1>6

\* The months of one year are in order.
LEMMA MonthsInOrder ==
    ASSUME NEW y \in Nat, NEW m \in Months, NEW n \in Months, m < n
    PROVE  Start(y, m) + MonthLength(y, m) <= Start(y, n)
<1>. DEFINE T == {k \in Months : k <= m \/ Start(y, m) + MonthLength(y, m) <= Start(y, k)}
            L == Len(MonthDays)
<1>1. Months = 1 .. L /\ L \in Nat \ {0} /\ m \in Nat /\ n \in Nat
  BY MonthsType DEF Months
<1>2. 1 \in T
  BY <1>1
<1>3. ASSUME NEW k \in 1 .. L - 1, k \in T PROVE k + 1 \in T
  <2>1. k \in Months /\ k + 1 \in Months
    BY <1>1
  <2>2. Start(y, k + 1) = Start(y, k) + MonthLength(y, k)
    BY <2>1, NextStart
  <2>3. /\ Start(y, k) \in Nat /\ MonthLength(y, k) \in Nat
        /\ Start(y, m) \in Nat /\ MonthLength(y, m) \in Nat
    BY <2>1, StartType, MonthLengths
  <2>4. CASE k < m
    <3>1. k + 1 <= m
      BY <2>4, <1>1
    <3>. QED  BY <2>1, <3>1
  <2>5. CASE k = m
    BY <2>1, <2>2, <2>3, <2>5
  <2>6. CASE m < k
    <3>1. Start(y, m) + MonthLength(y, m) <= Start(y, k)
      BY <1>1, <1>3, <2>6
    <3>2. Start(y, m) + MonthLength(y, m) <= Start(y, k + 1)
      BY <2>2, <2>3, <3>1
    <3>. QED  BY <2>1, <3>2
  <2>. QED  BY <1>1, <2>4, <2>5, <2>6
<1>. HIDE DEF T
<1>4. 1 .. L \subseteq T
  BY <1>1, <1>2, <1>3, UpFrom
<1>5. n \in T /\ ~(n <= m)
  BY <1>1, <1>4
<1>. QED  BY <1>5 DEF T

\* A year ends where the next one begins, and does not begin before it does.
LEMMA YearsInOrder ==
    ASSUME NEW y \in Nat, NEW z \in Nat, y < z, NEW m \in Months
    PROVE  Start(y, m) + MonthLength(y, m) <= Start(z, 1)
<1>. DEFINE L == Len(MonthDays)
            T == {k \in Nat : Start(y + 1, 1) <= Start(y + 1 + k, 1)}
<1>1. Months = 1 .. L /\ L \in Nat \ {0} /\ L \in Months /\ 1 \in Months /\ m \in Nat
  BY MonthsType DEF Months
<1>2. Start(y, m) + MonthLength(y, m) <= Start(y + 1, 1)
  <2>1. Start(y + 1, 1) = Start(y, L) + MonthLength(y, L)
    BY <1>1, NextStart
  <2>2. CASE m = L
    BY <1>1, <2>1, <2>2, StartType, MonthLengths
  <2>3. CASE m < L
    <3>1. Start(y, m) + MonthLength(y, m) <= Start(y, L)
      BY <1>1, <2>3, MonthsInOrder
    <3>2. /\ Start(y, L) \in Nat /\ MonthLength(y, L) \in Nat
          /\ Start(y, m) \in Nat /\ MonthLength(y, m) \in Nat
      BY <1>1, StartType, MonthLengths
    <3>. QED  BY <2>1, <3>1, <3>2
  <2>. QED  BY <1>1, <2>2, <2>3
<1>3. \A k \in Nat : Start(k, 1) <= Start(k + 1, 1) /\ Start(k, 1) \in Nat
  <2>. SUFFICES ASSUME NEW k \in Nat
                PROVE  Start(k, 1) <= Start(k + 1, 1) /\ Start(k, 1) \in Nat
    OBVIOUS
  <2>1. Start(k + 1, 1) = Start(k, L) + MonthLength(k, L)
    BY <1>1, NextStart
  <2>2. /\ Start(k, 1) \in Nat /\ Start(k, L) \in Nat
        /\ MonthLength(k, L) \in Nat /\ MonthLength(k, 1) \in Nat
    BY <1>1, StartType, MonthLengths
  <2>3. Start(k, 1) <= Start(k, L)
    <3>1. CASE L = 1
      BY <2>2, <3>1
    <3>2. CASE 1 < L
      <4>1. Start(k, 1) + MonthLength(k, 1) <= Start(k, L)
        BY <1>1, <3>2, MonthsInOrder
      <4>. QED  BY <2>2, <4>1
    <3>. HIDE DEF L
    <3>. QED  BY <1>1, <3>1, <3>2
  <2>. QED  BY <2>1, <2>2, <2>3
<1>4. 0 \in T
  <2>1. y + 1 + 0 = y + 1 /\ y + 1 \in Nat
    OBVIOUS
  <2>2. Start(y + 1, 1) \in Nat
    BY <1>3, <2>1
  <2>3. Start(y + 1, 1) <= Start(y + 1 + 0, 1)
    BY <2>1, <2>2
  <2>. QED  BY <2>3
<1>. DEFINE j == z - y - 1
<1>5. j \in Nat /\ y + 1 + j = z
  OBVIOUS
<1>6. ASSUME NEW k \in 0 .. j - 1, k \in T PROVE k + 1 \in T
  <2>1. y + 1 + k \in Nat /\ y + 1 + (k + 1) = (y + 1 + k) + 1 /\ y + 1 \in Nat
        /\ (y + 1 + k) + 1 \in Nat
    BY <1>6
  <2>2. Start(y + 1 + k, 1) <= Start(y + 1 + (k + 1), 1)
    BY <1>3, <2>1
  <2>3. Start(y + 1, 1) <= Start(y + 1 + k, 1)
    BY <1>6
  <2>4. /\ Start(y + 1, 1) \in Nat /\ Start(y + 1 + k, 1) \in Nat
        /\ Start(y + 1 + (k + 1), 1) \in Nat
    BY <1>3, <2>1
  <2>5. Start(y + 1, 1) <= Start(y + 1 + (k + 1), 1)
    BY <2>2, <2>3, <2>4
  <2>. QED  BY <1>6, <2>5
<1>. HIDE DEF T, j
<1>7. 0 .. j \subseteq T
  BY <1>4, <1>5, <1>6, UpTo
<1>8. Start(y + 1, 1) <= Start(z, 1)
  <2>1. j \in T
    BY <1>5, <1>7
  <2>. QED  BY <1>5, <2>1 DEF T
<1>9. Start(y, m) + MonthLength(y, m) \in Nat /\ Start(y + 1, 1) \in Nat /\ Start(z, 1) \in Nat
  <2>1. y + 1 \in Nat /\ Start(y, m) \in Nat /\ MonthLength(y, m) \in Nat
    BY StartType, MonthLengths
  <2>. QED  BY <1>3, <2>1
<1>. QED  BY <1>2, <1>8, <1>9

Earlier(y, m, z, n) == y < z \/ (y = z /\ m < n)

LEMMA InOrder ==
    ASSUME NEW y \in Nat, NEW m \in Months, NEW z \in Nat, NEW n \in Months,
           Earlier(y, m, z, n)
    PROVE  Start(y, m) + MonthLength(y, m) <= Start(z, n)
<1>1. CASE y = z /\ m < n
  BY <1>1, MonthsInOrder
<1>2. CASE y < z
  <2>1. 1 \in Months /\ n \in Nat /\ 1 <= n
    BY MonthsType DEF Months
  <2>2. Start(y, m) + MonthLength(y, m) <= Start(z, 1)
    BY <1>2, YearsInOrder
  <2>3. /\ Start(z, 1) \in Nat /\ Start(z, n) \in Nat /\ MonthLength(z, 1) \in Nat
        /\ Start(y, m) \in Nat /\ MonthLength(y, m) \in Nat
    BY <2>1, StartType, MonthLengths
  <2>4. Start(z, 1) <= Start(z, n)
    <3>1. CASE n = 1
      BY <2>3, <3>1
    <3>2. CASE 1 < n
      <4>1. Start(z, 1) + MonthLength(z, 1) <= Start(z, n)
        BY <2>1, <3>2, MonthsInOrder
      <4>. QED  BY <2>3, <4>1
    <3>. QED  BY <2>1, <3>1, <3>2
  <2>. QED  BY <2>2, <2>3, <2>4
<1>. QED  BY <1>1, <1>2 DEF Earlier

\* Day n is in month m of year y.
InMonth(n, y, m) ==
    /\ y \in Nat /\ m \in Months
    /\ Start(y, m) <= n /\ n < Start(y, m) + MonthLength(y, m)

\* A later day is in the same month or a later one.
LEMMA LaterMonth ==
    ASSUME NEW k \in Nat, NEW n \in Nat, k <= n,
           NEW y, NEW m, InMonth(k, y, m), NEW z, NEW p, InMonth(n, z, p)
    PROVE  ~Earlier(z, p, y, m)
<1>. SUFFICES ASSUME Earlier(z, p, y, m) PROVE FALSE
  OBVIOUS
<1>1. /\ y \in Nat /\ m \in Months /\ z \in Nat /\ p \in Months
      /\ Start(y, m) <= k /\ n < Start(z, p) + MonthLength(z, p)
  BY DEF InMonth
<1>2. Start(z, p) + MonthLength(z, p) <= Start(y, m)
  BY <1>1, InOrder
<1>3. Start(z, p) \in Nat /\ MonthLength(z, p) \in Nat /\ Start(y, m) \in Nat
  BY <1>1, StartType, MonthLengths
<1>. QED  BY <1>1, <1>2, <1>3

-----------------------------------------------------------------------------
(* The date of a day *)

\* The first day after the calendar.
End == Start(LastYear + 1, 1)

LEMMA EndType == End \in Nat /\ Midnight(End) \in Nat
<1>1. 1 \in Months /\ LastYear + 1 \in Nat
  BY MonthsType, CalendarAssumption DEF Months
<1>2. End \in Nat
  BY <1>1, StartType DEF End
<1>. QED  BY <1>2, DayMinutesType, Multiples DEF Midnight

Dated(n, x) == x \in Dates /\ DayNumber(x.year, x.month, x.day) = n

LEMMA DatesAre ==
    ASSUME NEW y \in 0 .. LastYear, NEW m \in Months, NEW d \in 1 .. MonthLength(y, m)
    PROVE  /\ [year |-> y, month |-> m, day |-> d] \in Dates
           /\ Dated(Start(y, m) + d - 1, [year |-> y, month |-> m, day |-> d])
<1>. DEFINE x == [year |-> y, month |-> m, day |-> d]
            R(yy, mm) == [year : {yy}, month : {mm}, day : 1 .. MonthLength(yy, mm)]
<1>1. x \in R(y, m)
  OBVIOUS
<1>2. Dates = UNION {R(yy, mm) : yy \in 0 .. LastYear, mm \in Months}
  BY DEF Dates
<1>3. x.year = y /\ x.month = m /\ x.day = d
  OBVIOUS
<1>. HIDE DEF R, x
<1>4. x \in Dates
  BY <1>1, <1>2
<1>5. y \in Nat /\ d \in Nat
  BY CalendarAssumption, MonthLengths
<1>6. DayNumber(y, m, d) = Start(y, m) + d - 1
  BY <1>5, NumberOfDay
<1>. QED  BY <1>3, <1>4, <1>6 DEF Dated, x

LEMMA DateIn ==
    ASSUME NEW n, NEW x, Dated(n, x)
    PROVE  /\ x.year \in 0 .. LastYear /\ x.month \in Months
           /\ x.day \in 1 .. MonthLength(x.year, x.month)
           /\ n = Start(x.year, x.month) + x.day - 1
           /\ InMonth(n, x.year, x.month)
<1>. DEFINE R(yy, mm) == [year : {yy}, month : {mm}, day : 1 .. MonthLength(yy, mm)]
<1>1. x \in UNION {R(yy, mm) : yy \in 0 .. LastYear, mm \in Months}
  BY DEF Dates, Dated
<1>. HIDE DEF R
<1>2. PICK y \in 0 .. LastYear, m \in Months : x \in R(y, m)
  BY <1>1
<1>3. x.year = y /\ x.month = m /\ x.day \in 1 .. MonthLength(y, m)
  BY <1>2 DEF R
<1>4. y \in Nat /\ MonthLength(y, m) \in Nat /\ Start(y, m) \in Nat
  <2>1. y \in Nat
    BY CalendarAssumption
  <2>. QED  BY <2>1, MonthLengths, StartType
<1>5. n = Start(y, m) + x.day - 1
  BY <1>3, <1>4, NumberOfDay DEF Dated
<1>6. InMonth(n, y, m)
  BY <1>3, <1>4, <1>5 DEF InMonth
<1>. QED  BY <1>3, <1>5, <1>6

\* Every day of the calendar has a date.
LEMMA EveryDayDated ==
    ASSUME NEW n \in Nat, n < End
    PROVE  \E x : Dated(n, x)
<1>. DEFINE T == {k \in Nat : \E x : Dated(k, x)}
            L == Len(MonthDays)
<1>1. Months = 1 .. L /\ L \in Nat \ {0} /\ 1 \in Months /\ LastYear \in Nat
  BY MonthsType, CalendarAssumption DEF Months
<1>2. ASSUME NEW y \in 0 .. LastYear, NEW m \in Months, NEW d \in 1 .. MonthLength(y, m)
      PROVE  \E x : Dated(Start(y, m) + d - 1, x)
  BY DatesAre
<1>3. 0 \in T
  <2>1. 0 \in 0 .. LastYear /\ MonthLength(0, 1) \in Nat \ {0} /\ Start(0, 1) = 0
    BY <1>1, MonthLengths, NextStart
  <2>2. 1 \in 1 .. MonthLength(0, 1)
    BY <2>1
  <2>3. \E x : Dated(Start(0, 1) + 1 - 1, x)
    BY <1>1, <1>2, <2>1, <2>2
  <2>4. Start(0, 1) + 1 - 1 = 0
    BY <2>1
  <2>. QED  BY <2>3, <2>4
<1>4. ASSUME NEW k \in 0 .. n - 1, k \in T PROVE k + 1 \in T
  <2>1. PICK x : Dated(k, x)
    BY <1>4
  <2>. DEFINE y == x.year
              m == x.month
              d == x.day
  <2>2. /\ y \in 0 .. LastYear /\ m \in Months /\ d \in 1 .. MonthLength(y, m)
        /\ k = Start(y, m) + d - 1
    BY <2>1, DateIn
  <2>. HIDE DEF y, m, d
  <2>3. y \in Nat /\ y + 1 \in Nat /\ MonthLength(y, m) \in Nat \ {0} /\ Start(y, m) \in Nat
    BY <1>1, <2>2, MonthLengths, StartType
  <2>4. CASE d < MonthLength(y, m)
    <3>1. d + 1 \in 1 .. MonthLength(y, m) /\ k + 1 = Start(y, m) + (d + 1) - 1
      BY <2>2, <2>3, <2>4
    <3>2. \E w : Dated(Start(y, m) + (d + 1) - 1, w)
      BY <1>2, <2>2, <3>1
    <3>. QED  BY <3>1, <3>2
  <2>5. CASE d = MonthLength(y, m) /\ m < L
    <3>1. m + 1 \in Months
      BY <1>1, <2>2, <2>5
    <3>2. Start(y, m + 1) = Start(y, m) + MonthLength(y, m)
      BY <2>2, <2>3, <3>1, NextStart
    <3>3. MonthLength(y, m + 1) \in Nat \ {0}
      BY <2>3, <3>1, MonthLengths
    <3>4. 1 \in 1 .. MonthLength(y, m + 1) /\ k + 1 = Start(y, m + 1) + 1 - 1
      BY <2>2, <2>3, <2>5, <3>2, <3>3
    <3>5. \E w : Dated(Start(y, m + 1) + 1 - 1, w)
      BY <1>2, <2>2, <3>1, <3>4
    <3>. QED  BY <3>4, <3>5
  <2>6. CASE d = MonthLength(y, m) /\ m = L
    <3>1. Start(y + 1, 1) = Start(y, m) + MonthLength(y, m)
      BY <2>2, <2>3, <2>6, NextStart
    <3>2. k + 1 = Start(y + 1, 1) /\ k + 1 <= n
      BY <2>2, <2>3, <2>6, <3>1
    <3>3. y + 1 \in 0 .. LastYear
      <4>. SUFFICES ASSUME y = LastYear PROVE FALSE
        BY <1>1, <2>2
      <4>1. End = k + 1
        BY <3>2 DEF End
      <4>. QED  BY <3>2, <4>1
    <3>4. MonthLength(y + 1, 1) \in Nat \ {0}
      BY <1>1, <2>3, MonthLengths
    <3>5. 1 \in 1 .. MonthLength(y + 1, 1) /\ k + 1 = Start(y + 1, 1) + 1 - 1
      BY <3>2, <3>4
    <3>6. \E w : Dated(Start(y + 1, 1) + 1 - 1, w)
      BY <1>1, <1>2, <3>3, <3>5
    <3>. QED  BY <3>5, <3>6
  <2>. QED  BY <1>1, <2>2, <2>3, <2>4, <2>5, <2>6
<1>. HIDE DEF T
<1>5. 0 .. n \subseteq T
  BY <1>3, <1>4, UpTo
<1>6. n \in T
  BY <1>5
<1>. QED  BY <1>6 DEF T

\* The date of a minute of the calendar.
LEMMA DateOfMinute ==
    ASSUME NEW t \in Nat, t < Midnight(End)
    PROVE  /\ DayOf(t) \in Nat /\ DayOf(t) < End
           /\ Dated(DayOf(t), Date(t))
<1>1. DayOf(t) \in Nat /\ DayOf(t) < End
  BY OfDay, DayBefore, EndType
<1>2. PICK x : Dated(DayOf(t), x)
  BY <1>1, EveryDayDated
<1>. DEFINE N == {DayNumber(w.year, w.month, w.day) : w \in Dates}
<1>3. DayOf(t) \in N
  BY <1>2 DEF Dated
<1>4. Date(t) = CHOOSE w \in Dates : DayNumber(w.year, w.month, w.day) = DayOf(t)
  BY <1>3 DEF Date, DateOf
<1>5. Date(t) = CHOOSE w : Dated(DayOf(t), w)
  BY <1>4, Zenon DEF Dated
<1>6. Dated(DayOf(t), Date(t))
  BY <1>2, <1>5, Zenon
<1>. QED  BY <1>1, <1>6

-----------------------------------------------------------------------------
(* The jumps *)

LEMMA LeastIs ==
    ASSUME NEW S \in SUBSET Nat, S # {}
    PROVE  Least(S) \in S /\ \A x \in S : Least(S) <= x
<1>1. \E x \in S : \A y \in S : x <= y
  BY LeastOf
<1>. QED  BY <1>1 DEF Least

\* Nothing of the set is between a value and the next one.
LEMMA NextValIs ==
    ASSUME NEW S \in SUBSET Nat, S # {}, NEW v \in Nat
    PROVE  /\ NextVal(S, v) \in S
           /\ v < NextVal(S, v) => \A x \in S : x > v => NextVal(S, v) <= x
           /\ NextVal(S, v) <= v => /\ \A x \in S : x <= v
                                    /\ \A x \in S : NextVal(S, v) <= x
<1>. DEFINE U == {x \in S : x > v}
<1>1. CASE U # {}
  <2>1. NextVal(S, v) = Least(U)
    BY <1>1 DEF NextVal
  <2>2. U \in SUBSET Nat
    OBVIOUS
  <2>. HIDE DEF U
  <2>3. Least(U) \in U /\ \A x \in U : Least(U) <= x
    BY <1>1, <2>2, LeastIs
  <2>4. NextVal(S, v) \in S /\ NextVal(S, v) > v /\ NextVal(S, v) \in Nat
    BY <2>1, <2>3 DEF U
  <2>5. \A x \in S : x > v => NextVal(S, v) <= x
    BY <2>1, <2>3 DEF U
  <2>6. ~(NextVal(S, v) <= v)
    BY <2>4
  <2>. QED  BY <2>4, <2>5, <2>6
<1>2. CASE U = {}
  <2>1. NextVal(S, v) = Least(S)
    BY <1>2 DEF NextVal
  <2>2. Least(S) \in S /\ \A x \in S : Least(S) <= x
    BY LeastIs
  <2>3. \A x \in S : x <= v
    BY <1>2
  <2>. QED  BY <2>1, <2>2, <2>3
<1>. QED  BY <1>1, <1>2

\* A jump goes on, and no minute it passes over matches.
Jumps(s, t, u) ==
    /\ u \in Nat /\ t < u
    /\ \A w \in Nat : t < w /\ w < u /\ w < Midnight(End) => ~Matches(s, w)

LEMMA JumpDay ==
    ASSUME NEW s, NEW t \in Nat,
           Date(t).day \notin s.days \/ WeekDay(t) \notin s.weekdays
    PROVE  Jumps(s, t, NextDay(t))
<1>. DEFINE n == DayOf(t)
<1>1. n \in Nat /\ n + 1 \in Nat /\ Midnight(n) <= t /\ t < Midnight(n + 1)
      /\ Midnight(n) \in Nat
  BY OfDay
<1>2. Midnight(n + 1) \in Nat
  BY <1>1, DayMinutesType, Multiples DEF Midnight
<1>. HIDE DEF n
<1>3. ASSUME NEW w \in Nat, t < w, w < Midnight(n + 1) PROVE ~Matches(s, w)
  <2>1. Midnight(n) <= w
    BY <1>1, <1>3
  <2>2. DayOf(w) = DayOf(t)
    BY <1>1, <1>3, <2>1, SameDay DEF n
  <2>3. Date(w) = Date(t) /\ WeekDay(w) = WeekDay(t)
    BY <2>2 DEF Date, WeekDay
  <2>. QED  BY <2>3 DEF Matches
<1>4. NextDay(t) = Midnight(n + 1)
  BY DEF NextDay, n
<1>. QED  BY <1>1, <1>2, <1>3, <1>4 DEF Jumps

\* A later minute of the same day is not of an earlier hour.
LEMMA LaterHour ==
    ASSUME NEW t \in Nat, NEW w \in Nat, t < w, DayOf(w) = DayOf(t)
    PROVE  HourOf(t) <= HourOf(w)
<1>. SUFFICES ASSUME HourOf(w) < HourOf(t) PROVE FALSE
  <2>1. HourOf(t) \in Nat /\ HourOf(w) \in Nat
    BY Clock, CalendarAssumption
  <2>. QED  BY <2>1
<1>. DEFINE h == HourOf(t)
            k == HourOf(w)
            d == Midnight(DayOf(t))
            H == HourMinutes
<1>1. H \in Nat \ {0} /\ DayHours \in Nat
  BY CalendarAssumption
<1>2. /\ t = d + h * H + MinuteOf(t) /\ MinuteOf(t) \in 0 .. H - 1
      /\ w = d + k * H + MinuteOf(w) /\ MinuteOf(w) \in 0 .. H - 1
  BY Clock
<1>3. d \in Nat /\ h \in Nat /\ k \in Nat /\ k < h
  BY <1>1, OfDay, Clock
<1>. HIDE DEF h, k, d, H
<1>4. (k + 1) * H <= h * H /\ h * H \in Nat /\ (k + 1) * H = k * H + H /\ k * H \in Nat
  <2>1. k + 1 \in Nat /\ k + 1 <= h
    BY <1>3
  <2>2. (k + 1) * H <= h * H /\ h * H \in Nat
    BY <1>1, <1>3, <2>1, Multiples
  <2>. QED  BY <1>1, <1>3, <2>2
<1>. QED  BY <1>1, <1>2, <1>3, <1>4

LEMMA JumpHour ==
    ASSUME NEW s \in Schedules, NEW t \in Nat, HourOf(t) \notin s.hours
    PROVE  Jumps(s, t, NextHour(s, t))
<1>. DEFINE v == HourOf(t)
            h == NextVal(s.hours, v)
            d == Midnight(DayOf(t))
            H == HourMinutes
            f == Least(s.minutes)
            u == d + h * H + f
<1>1. H \in Nat \ {0} /\ DayHours \in Nat \ {0}
  BY CalendarAssumption
<1>2. /\ s.hours \in SUBSET Nat /\ s.hours # {} /\ s.hours \subseteq 0 .. DayHours - 1
      /\ s.minutes \in SUBSET Nat /\ s.minutes # {} /\ s.minutes \subseteq 0 .. H - 1
  BY <1>1, SchedulesAssumption
<1>3. /\ v \in 0 .. DayHours - 1 /\ v \in Nat
      /\ t = d + v * H + MinuteOf(t) /\ MinuteOf(t) \in 0 .. H - 1
      /\ d \in Nat /\ DayOf(t) \in Nat /\ t < Midnight(DayOf(t) + 1)
  BY <1>1, Clock, OfDay
<1>4. f \in 0 .. H - 1 /\ f \in Nat /\ \A x \in s.minutes : f <= x
  BY <1>1, <1>2, LeastIs
<1>5. /\ h \in s.hours
      /\ v < h => \A x \in s.hours : x > v => h <= x
      /\ h <= v => \A x \in s.hours : x <= v
  BY <1>2, <1>3, NextValIs
<1>6. h \in 0 .. DayHours - 1 /\ h \in Nat
  BY <1>1, <1>2, <1>5
<1>7. NextHour(s, t) = IF h <= v THEN NextDay(t) ELSE u
  BY DEF NextHour
<1>8. Midnight(DayOf(t) + 1) = d + DayHours * H /\ DayHours * H \in Nat
  <2>1. Midnight(DayOf(t) + 1) = (DayOf(t) + 1) * (DayHours * H)
    BY DayMinutesType DEF Midnight
  <2>2. d = DayOf(t) * (DayHours * H)
    BY DayMinutesType DEF Midnight
  <2>3. DayHours * H \in Nat
    BY <1>1
  <2>. DEFINE p == DayHours * H
              q == DayOf(t)
  <2>4. (q + 1) * p = q * p + p
    <3>. HIDE DEF p, q
    <3>1. p \in Nat /\ q \in Nat
      BY <1>3, <2>3 DEF p, q
    <3>. QED  BY <3>1
  <2>. QED  BY <2>1, <2>2, <2>3, <2>4
<1>9. CASE h <= v
  <2>. DEFINE e == Midnight(DayOf(t) + 1)
  <2>1. NextHour(s, t) = e
    BY <1>7, <1>9 DEF NextDay
  <2>2. e \in Nat /\ t < e
    BY <1>3, <1>8
  <2>. HIDE DEF h
  <2>3. ASSUME NEW w \in Nat, t < w, w < e PROVE ~Matches(s, w)
    <3>1. DayOf(w) = DayOf(t)
      <4>1. d <= w
        BY <2>3, OfDay
      <4>. QED  BY <1>3, <2>3, <4>1, SameDay
    <3>2. v <= HourOf(w) /\ HourOf(w) \in Nat
      BY <1>1, <2>3, <3>1, LaterHour, Clock
    <3>3. HourOf(w) \notin s.hours
      BY <1>3, <1>5, <1>9, <3>2
    <3>. QED  BY <3>3 DEF Matches
  <2>. QED  BY <2>1, <2>2, <2>3 DEF Jumps
<1>10. CASE v < h
  <2>1. NextHour(s, t) = u
    BY <1>3, <1>6, <1>7, <1>10
  <2>. HIDE DEF h, f, v, d, H
  <2>2. (v + 1) * H <= h * H /\ h * H \in Nat /\ (v + 1) * H = v * H + H /\ v * H \in Nat
    <3>1. v + 1 \in Nat /\ v + 1 <= h
      BY <1>3, <1>6, <1>10
    <3>2. (v + 1) * H <= h * H /\ h * H \in Nat
      BY <1>1, <1>6, <3>1, Multiples
    <3>. QED  BY <1>1, <1>3, <3>2
  <2>3. (h + 1) * H <= DayHours * H /\ (h + 1) * H = h * H + H
    <3>1. h + 1 \in Nat /\ h + 1 <= DayHours /\ DayHours \in Nat /\ H \in Nat
      BY <1>1, <1>6
    <3>2. (h + 1) * H <= DayHours * H
      BY <3>1, Multiples
    <3>3. (h + 1) * H = h * H + H
      BY <1>6, <3>1
    <3>. QED  BY <3>2, <3>3
  <2>4. u \in Nat /\ t < u /\ u < Midnight(DayOf(t) + 1)
    BY <1>1, <1>3, <1>4, <1>8, <2>2, <2>3
  <2>5. ASSUME NEW w \in Nat, t < w, w < u, Matches(s, w) PROVE FALSE
    <3>1. HourOf(w) \in s.hours /\ MinuteOf(w) \in s.minutes
      BY <2>5 DEF Matches
    <3>2. DayOf(w) = DayOf(t)
      <4>1. d <= w
        BY <2>5, OfDay DEF d
      <4>2. w < Midnight(DayOf(t) + 1)
        BY <1>8, <2>4, <2>5, <1>3
      <4>. QED  BY <1>3, <4>1, <4>2, SameDay DEF d
    <3>3. v <= HourOf(w) /\ HourOf(w) \in Nat
      BY <1>1, <2>5, <3>2, LaterHour, Clock DEF v
    <3>4. HourOf(w) # v
      BY <3>1 DEF v
    <3>5. h <= HourOf(w)
      BY <1>3, <1>5, <1>10, <3>1, <3>3, <3>4
    <3>6. h * H <= HourOf(w) * H /\ HourOf(w) * H \in Nat
      BY <1>1, <1>6, <3>3, <3>5, Multiples
    <3>7. w = d + HourOf(w) * H + MinuteOf(w) /\ MinuteOf(w) \in 0 .. H - 1
      BY <3>2, Clock DEF d, H
    <3>8. f <= MinuteOf(w)
      BY <1>4, <3>1
    <3>. QED  BY <1>1, <1>3, <1>4, <2>2, <2>5, <3>6, <3>7, <3>8
  <2>. QED  BY <2>1, <2>4, <2>5 DEF Jumps
<1>. QED  BY <1>3, <1>6, <1>9, <1>10

LEMMA JumpMinute ==
    ASSUME NEW s \in Schedules, NEW t \in Nat, MinuteOf(t) \notin s.minutes
    PROVE  Jumps(s, t, NextMinute(s, t))
<1>. DEFINE H == HourMinutes
            v == MinuteOf(t)
            m == NextVal(s.minutes, v)
            b == t - v
            q == t \div H
            u == NextMinute(s, t)
<1>1. H \in Nat \ {0}
  BY CalendarAssumption
<1>2. s.minutes \in SUBSET Nat /\ s.minutes # {} /\ s.minutes \subseteq 0 .. H - 1
  BY <1>1, SchedulesAssumption
<1>3. v \in 0 .. H - 1 /\ q \in Nat /\ t = H * q + v
  BY <1>1, Division DEF MinuteOf
<1>4. v \in Nat /\ H * q \in Nat /\ b = H * q
  BY <1>1, <1>3
<1>5. /\ m \in s.minutes
      /\ v < m => \A x \in s.minutes : x > v => m <= x
      /\ m <= v => \A x \in s.minutes : x <= v
  BY <1>2, <1>4, NextValIs
<1>6. m \in 0 .. H - 1 /\ m \in Nat
  BY <1>1, <1>2, <1>5
<1>7. u = b + IF m <= v THEN H ELSE m
  BY DEF NextMinute
<1>8. ASSUME NEW w \in Nat, t < w, w < b + H PROVE MinuteOf(w) = w - b
  <2>. DEFINE r == w - b
  <2>1. r \in 0 .. H - 1 /\ w = H * q + r
    BY <1>1, <1>3, <1>4, <1>8
  <2>. HIDE DEF r, H, q
  <2>2. w % H = r
    BY <1>1, <1>3, <2>1, Quotient
  <2>. QED  BY <2>2 DEF MinuteOf, r, H
<1>. HIDE DEF H, v, m, b, q, u
<1>9. u \in Nat /\ t < u /\ u <= b + H
  BY <1>1, <1>3, <1>4, <1>6, <1>7
<1>10. ASSUME NEW w \in Nat, t < w, w < u, MinuteOf(w) \in s.minutes PROVE FALSE
  <2>1. MinuteOf(w) = w - b
    BY <1>1, <1>4, <1>8, <1>9, <1>10
  <2>2. w - b > v
    BY <1>3, <1>4, <1>10
  <2>3. w - b \in Nat
    BY <1>4, <2>2
  <2>4. CASE m <= v
    BY <1>4, <1>5, <1>10, <2>1, <2>2, <2>3, <2>4
  <2>5. CASE v < m
    <3>1. m <= w - b
      BY <1>5, <1>10, <2>1, <2>2, <2>5
    <3>2. w < b + m
      BY <1>4, <1>6, <1>7, <1>10, <2>5
    <3>. QED  BY <1>4, <1>6, <3>1, <3>2
  <2>. QED  BY <1>4, <1>6, <2>4, <2>5
<1>11. NextMinute(s, t) = u
  BY DEF u
<1>. QED  BY <1>9, <1>10, <1>11 DEF Jumps, Matches

LEMMA JumpMonth ==
    ASSUME NEW s \in Schedules, NEW t \in Nat, t < Midnight(End),
           Date(t).month \notin s.months
    PROVE  Jumps(s, t, NextMonth(s, t))
<1>. DEFINE y == Date(t).year
            v == Date(t).month
            m == NextVal(s.months, v)
            z == y + IF m <= v THEN 1 ELSE 0
            e == Start(z, m)
<1>1. Months = 1 .. Len(MonthDays) /\ Len(MonthDays) \in Nat
  BY MonthsType DEF Months
<1>2. s.months \in SUBSET Nat /\ s.months # {} /\ s.months \subseteq Months
  BY <1>1, SchedulesAssumption
<1>3. /\ y \in Nat /\ v \in Months /\ v \in Nat /\ InMonth(DayOf(t), y, v)
      /\ DayOf(t) \in Nat /\ DayOf(t) < End
  BY <1>1, DateOfMinute, DateIn, CalendarAssumption DEF InMonth
<1>4. /\ m \in s.months
      /\ v < m => \A x \in s.months : x > v => m <= x
      /\ m <= v => (\A x \in s.months : x <= v) /\ (\A x \in s.months : m <= x)
  BY <1>2, <1>3, NextValIs
<1>5. m \in Months /\ m \in Nat /\ z \in Nat
  BY <1>1, <1>2, <1>3, <1>4
<1>6. NextMonth(s, t) = Midnight(e)
  BY DEF NextMonth, Start
<1>7. Earlier(y, v, z, m)
  <2>. HIDE DEF m, y, v
  <2>. QED  BY <1>3, <1>5 DEF Earlier
<1>8. z = IF m <= v THEN y + 1 ELSE y
  <2>. HIDE DEF m, y, v
  <2>. QED  BY <1>3
<1>. HIDE DEF m, y, v, z
<1>9. DayOf(t) < e /\ e \in Nat
  <2>1. Start(y, v) + MonthLength(y, v) <= e
    BY <1>3, <1>5, <1>7, InOrder
  <2>2. Start(y, v) \in Nat /\ MonthLength(y, v) \in Nat /\ e \in Nat
    BY <1>3, <1>5, StartType, MonthLengths
  <2>3. DayOf(t) < Start(y, v) + MonthLength(y, v)
    BY <1>3 DEF InMonth
  <2>. HIDE DEF e
  <2>. QED  BY <1>3, <2>1, <2>2, <2>3
<1>. HIDE DEF e
<1>10. Midnight(e) \in Nat /\ t < Midnight(e)
  <2>1. Midnight(DayOf(t) + 1) <= Midnight(e) /\ Midnight(e) \in Nat
        /\ Midnight(DayOf(t) + 1) \in Nat
    <3>1. DayOf(t) + 1 \in Nat /\ DayOf(t) + 1 <= e /\ DayMinutes \in Nat
      BY <1>3, <1>9, DayMinutesType
    <3>. QED  BY <1>9, <3>1, Multiples DEF Midnight
  <2>2. t < Midnight(DayOf(t) + 1)
    BY OfDay
  <2>. QED  BY <2>1, <2>2
<1>11. ASSUME NEW w \in Nat, t < w, w < Midnight(e), w < Midnight(End), Matches(s, w)
       PROVE  FALSE
  <2>. DEFINE a == Date(w).year
              p == Date(w).month
  <2>1. /\ a \in Nat /\ p \in Months /\ p \in Nat /\ InMonth(DayOf(w), a, p)
        /\ DayOf(w) \in Nat
    BY <1>1, <1>11, DateOfMinute, DateIn, CalendarAssumption DEF InMonth
  <2>2. p \in s.months
    BY <1>11 DEF Matches
  <2>. HIDE DEF a, p
  <2>3. DayOf(t) <= DayOf(w) /\ DayOf(w) < e
    BY <1>9, <1>11, DaysGoOn, DayBefore
  <2>4. ~Earlier(a, p, y, v)
    BY <1>3, <2>1, <2>3, LaterMonth
  <2>5. Earlier(a, p, z, m)
    <3>. SUFFICES ASSUME ~Earlier(a, p, z, m) PROVE FALSE
      OBVIOUS
    <3>1. (z = a /\ m = p) \/ Earlier(z, m, a, p)
      BY <1>5, <2>1 DEF Earlier
    <3>2. Start(z, m) <= Start(a, p)
      <4>1. CASE z = a /\ m = p
        BY <1>5, <4>1, StartType
      <4>2. CASE Earlier(z, m, a, p)
        <5>1. Start(z, m) + MonthLength(z, m) <= Start(a, p)
          BY <1>5, <2>1, <4>2, InOrder
        <5>2. Start(z, m) \in Nat /\ MonthLength(z, m) \in Nat /\ Start(a, p) \in Nat
          BY <1>5, <2>1, StartType, MonthLengths
        <5>. QED  BY <5>1, <5>2
      <4>. QED  BY <3>1, <4>1, <4>2
    <3>3. Start(a, p) <= DayOf(w) /\ Start(a, p) \in Nat /\ Start(z, m) \in Nat
      BY <1>5, <2>1, StartType DEF InMonth
    <3>4. Start(z, m) <= DayOf(w)
      BY <2>1, <3>2, <3>3
    <3>. QED  BY <2>1, <2>3, <3>3, <3>4 DEF e
  <2>6. p # v
    BY <2>2 DEF v
  <2>7. CASE v < m
    <3>1. z = y
      BY <1>3, <1>5, <1>8, <2>7
    <3>2. a = y /\ v < p /\ p < m
      BY <1>3, <1>5, <2>1, <2>4, <2>5, <2>6, <3>1 DEF Earlier
    <3>. QED  BY <1>4, <1>5, <2>1, <2>2, <2>7, <3>2
  <2>8. CASE m <= v
    <3>1. z = y + 1 /\ p <= v /\ m <= p
      BY <1>4, <1>8, <2>2, <2>8
    <3>. QED  BY <1>3, <1>5, <2>1, <2>4, <2>5, <2>6, <3>1 DEF Earlier
  <2>. QED  BY <1>3, <1>5, <2>7, <2>8
<1>. QED  BY <1>6, <1>10, <1>11 DEF Jumps

\* Every jump of the search goes on and passes over no minute that matches.
LEMMA AdvanceJumps ==
    ASSUME NEW s \in Schedules, NEW t \in Nat, t < Midnight(End), ~Matches(s, t)
    PROVE  Jumps(s, t, Advance(s, t))
<1>1. CASE Date(t).month \notin s.months
  BY <1>1, JumpMonth DEF Advance
<1>2. CASE /\ Date(t).month \in s.months
           /\ Date(t).day \notin s.days \/ WeekDay(t) \notin s.weekdays
  BY <1>2, JumpDay DEF Advance
<1>3. CASE /\ Date(t).month \in s.months
           /\ Date(t).day \in s.days /\ WeekDay(t) \in s.weekdays
           /\ HourOf(t) \notin s.hours
  BY <1>3, JumpHour DEF Advance
<1>4. CASE /\ Date(t).month \in s.months
           /\ Date(t).day \in s.days /\ WeekDay(t) \in s.weekdays
           /\ HourOf(t) \in s.hours
  <2>1. MinuteOf(t) \notin s.minutes
    BY <1>4 DEF Matches
  <2>. QED  BY <1>4, <2>1, JumpMinute DEF Advance
<1>. QED  BY <1>1, <1>2, <1>3, <1>4

-----------------------------------------------------------------------------
(* The search *)

\* The search is past the minute it began at, and none of those it has left
\* behind matches.
SearchInv ==
    /\ sched \in Schedules /\ after \in Afters
    /\ minute \in Nat /\ after < minute
    /\ \A t \in Nat : after < t /\ t < minute /\ t < Limit => ~Matches(sched, t)

LEMMA SearchHolds == SearchSpec => []SearchInv
<1>1. SearchInit => SearchInv
  <2>. SUFFICES ASSUME SearchInit PROVE SearchInv
    OBVIOUS
  <2>1. sched \in Schedules /\ after \in Afters /\ minute = after + 1 /\ after \in Nat
    BY CalendarAssumption DEF SearchInit
  <2>. QED  BY <2>1 DEF SearchInv
<1>2. SearchInv /\ [SearchNext]_searchVars => SearchInv'
  <2>. SUFFICES ASSUME SearchInv, [SearchNext]_searchVars PROVE SearchInv'
    OBVIOUS
  <2>1. CASE Skip
    <3>. DEFINE u == Advance(sched, minute)
    <3>1. /\ minute < Limit /\ ~Matches(sched, minute) /\ minute' = u
          /\ sched' = sched /\ after' = after
      BY <2>1 DEF Skip
    <3>2. /\ sched \in Schedules /\ after \in Afters /\ minute \in Nat /\ after < minute
          /\ after \in Nat
      BY CalendarAssumption DEF SearchInv
    <3>3. Limit \in Nat /\ Limit' = Limit /\ Limit <= Midnight(End) /\ Midnight(End) \in Nat
      <4>1. 4 * YearLength * DayMinutes \in Nat
        BY YearLengthType, DayMinutesType
      <4>2. after + 4 * YearLength * DayMinutes <= Midnight(End)
        BY <3>2, LastYearAssumption DEF End, Start
      <4>. QED  BY <3>1, <3>2, <4>1, <4>2, EndType DEF Limit
    <3>4. minute < Midnight(End)
      BY <3>1, <3>2, <3>3
    <3>5. Jumps(sched, minute, u)
      BY <3>1, <3>2, <3>4, AdvanceJumps
    <3>. HIDE DEF u
    <3>6. u \in Nat /\ minute < u
      BY <3>5 DEF Jumps
    <3>7. ASSUME NEW t \in Nat, after < t, t < u, t < Limit PROVE ~Matches(sched, t)
      <4>1. CASE t < minute
        BY <3>7, <4>1 DEF SearchInv
      <4>2. CASE t = minute
        BY <3>1, <4>2
      <4>3. CASE minute < t
        <5>1. t < Midnight(End)
          BY <3>3, <3>7
        <5>. QED  BY <3>5, <3>7, <4>3, <5>1 DEF Jumps
      <4>. QED  BY <3>2, <4>1, <4>2, <4>3
    <3>8. ASSUME NEW t \in Nat, after' < t, t < minute', t < Limit'
          PROVE  ~Matches(sched, t)'
      <4>1. ~Matches(sched, t)
        BY <3>1, <3>3, <3>7, <3>8
      <4>2. Matches(sched, t)' <=> Matches(sched, t)
        BY <3>1 DEF Matches
      <4>. QED  BY <4>1, <4>2
    <3>. QED  BY <3>1, <3>2, <3>6, <3>8 DEF SearchInv
  <2>2. CASE UNCHANGED <<sched, after, minute>>
    <3>1. Limit' = Limit
      BY <2>2 DEF Limit
    <3>. QED  BY <2>2, <3>1 DEF SearchInv
  <2>3. CASE Found \/ GiveUp
    BY <2>2, <2>3 DEF Found, GiveUp
  <2>. QED  BY <2>1, <2>2, <2>3 DEF SearchNext, searchVars
<1>. QED  BY <1>1, <1>2, PTL DEF SearchSpec

\* NextAfter passes over no minute that matches, for every schedule, every
\* minute to search from and every calendar of the lengths the constants give.
THEOREM SearchSkipsNothing == SearchSpec => []NoMatchSkipped
<1>1. SearchInv => NoMatchSkipped
  <2>. SUFFICES ASSUME SearchInv, NEW t \in after + 1 .. minute - 1, t < Limit
                PROVE  ~Matches(sched, t)
    BY DEF NoMatchSkipped
  <2>1. after \in Nat /\ minute \in Nat
    BY CalendarAssumption DEF SearchInv
  <2>2. t \in Nat /\ after < t /\ t < minute
    BY <2>1
  <2>. QED  BY <2>2 DEF SearchInv
<1>. QED  BY <1>1, SearchHolds, PTL
=============================================================================
