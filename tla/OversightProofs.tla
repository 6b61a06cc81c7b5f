------------------------- MODULE OversightProofs --------------------------
(***************************************************************************)
(* Proofs about Pipelines, RateLimiter and Guard, for any jobs, commands,  *)
(* calls, addresses, windows, rates, deciders and timeouts.                *)
(***************************************************************************)
EXTENDS Pipelines, RateLimiter, Guard, SequenceTheorems, TLAPS

-----------------------------------------------------------------------------
(***************************************************************************)
(* Proofs about Pipelines, for any jobs, commands and calls that cancel.   *)
(* EndedIsMarked is not inductive: when the store refuses the context of a *)
(* job, Execute returns with the row as it is.  What saves it is the order *)
(* of cancel_pipeline_job, which cancels the context before it writes the  *)
(* status: a job whose context is cancelled and whose row still goes on is *)
(* one that a call is about to mark (AbortedIsWritten), and a job is       *)
(* tracked only once it has its row (RowFirst).                            *)
(***************************************************************************)

AbortedIsWritten ==
    \A j \in aborted \ unmarked :
        row[j] \in Live =>
            \E c \in Cancellers : /\ cancelling[c].job = j
                                  /\ cancelling[c].pc = "write"

RowFirst ==
    \A j \in Jobs :
        row[j] = "none" =>
            stage[j] = "none" /\ j \notin tracked /\ j \notin aborted

PipelinesInv ==
    PipelinesTypeOK /\ RowFirst /\ AbortedIsWritten /\ EndedIsMarked

(* A canceller that is not at rest has a job in hand. *)
LEMMA CallHasJob ==
    ASSUME PipelinesTypeOK, NEW c \in Cancellers,
           cancelling[c].pc \in {"signal", "write"}
    PROVE  /\ cancelling[c].job \in Jobs
           /\ cancelling[c] # AtRest
<1>1. cancelling[c] \in {AtRest} \cup [job : Jobs, pc : {"signal", "write"}]
  BY DEF PipelinesTypeOK
<1>2. AtRest.pc = "idle"
  BY DEF AtRest
<1> QED BY <1>1, <1>2

(* One at rest cancels nothing. *)
LEMMA RestHasNoJob ==
    ASSUME NEW j \in Jobs, NEW c \in Cancellers, cancelling[c] = AtRest
    PROVE  cancelling[c].job # j
BY PipelinesAssumption DEF AtRest, PipelinesAssumption

LEMMA PipelinesTypeInit == PipelinesInit => PipelinesTypeOK
BY PipelinesAssumption
   DEF PipelinesInit, PipelinesTypeOK, PipelinesAssumption, Live, Final, Executing

LEMMA PipelinesTypeStep ==
    ASSUME PipelinesTypeOK, [PipelinesNext]_pipelineVars
    PROVE  PipelinesTypeOK'
<1> USE PipelinesAssumption
    DEF PipelinesTypeOK, PipelinesAssumption, Live, Final, Executing, Stored,
        Returns, jobVars
<1>1. CASE UNCHANGED pipelineVars
  BY <1>1 DEF pipelineVars
<1>2. CASE PipelinesCrash
  <2>1. \A c \in Cancellers : cancelling[c].job \in Jobs \cup {NoJob}
    BY DEF AtRest
  <2> QED BY <1>2, <2>1 DEF PipelinesCrash
<1>3. ASSUME NEW j \in Jobs, RunPipeline(j)
      PROVE  PipelinesTypeOK'
  BY <1>3 DEF RunPipeline
<1>4. ASSUME NEW j \in Jobs,
             \/ TrackCancel(j) \/ CannotGoOn(j) \/ StartCommand(j) \/ Refused(j)
      PROVE  PipelinesTypeOK'
  BY <1>4 DEF TrackCancel, CannotGoOn, StartCommand, Refused
<1>5. ASSUME NEW j \in Jobs, LoadJob(j) \/ MarkRunning(j)
      PROVE  PipelinesTypeOK'
  BY <1>5 DEF LoadJob, MarkRunning
<1>6. ASSUME NEW j \in Jobs, EndCommand(j)
      PROVE  PipelinesTypeOK'
  BY <1>6 DEF EndCommand
<1>7. ASSUME NEW j \in Jobs, Complete(j) \/ FailJob(j)
      PROVE  PipelinesTypeOK'
  BY <1>7 DEF Complete, FailJob
<1>8. ASSUME NEW c \in Cancellers, NEW j \in Jobs, CancelReads(c, j)
      PROVE  PipelinesTypeOK'
  BY <1>8 DEF CancelReads
<1>9. ASSUME NEW c \in Cancellers, CancelSignals(c)
      PROVE  PipelinesTypeOK'
  <2>1. cancelling[c] \in [job : Jobs, pc : {"signal", "write"}]
    BY <1>9 DEF CancelSignals, AtRest
  <2> QED BY <1>9, <2>1 DEF CancelSignals
<1>10. ASSUME NEW c \in Cancellers, CancelWrites(c)
       PROVE  PipelinesTypeOK'
  <2>1. cancelling[c].job \in Jobs
    BY <1>10, CallHasJob DEF CancelWrites
  <2> QED BY <1>10, <2>1 DEF CancelWrites
<1> QED
  BY <1>1, <1>2, <1>3, <1>4, <1>5, <1>6, <1>7, <1>8, <1>9, <1>10
     DEF PipelinesNext

-----------------------------------------------------------------------------
LEMMA PipelinesInvInit == PipelinesInit => PipelinesInv
<1> SUFFICES ASSUME PipelinesInit PROVE PipelinesInv
  OBVIOUS
<1>1. PipelinesTypeOK
  BY PipelinesTypeInit
<1> QED
  BY <1>1 DEF PipelinesInit, PipelinesInv, RowFirst, AbortedIsWritten,
              EndedIsMarked

(* The row comes first. *)
LEMMA RowFirstStep ==
    ASSUME PipelinesTypeOK, RowFirst, [PipelinesNext]_pipelineVars
    PROVE  RowFirst'
<1> USE DEF PipelinesTypeOK, RowFirst, Returns, jobVars
<1>1. CASE UNCHANGED pipelineVars
  BY <1>1 DEF pipelineVars
<1>2. CASE PipelinesCrash
  BY <1>2 DEF PipelinesCrash, Executing
<1>3. ASSUME NEW j \in Jobs, RunPipeline(j)
      PROVE  RowFirst'
  BY <1>3 DEF RunPipeline
<1>4. ASSUME NEW j \in Jobs,
             \/ TrackCancel(j) \/ CannotGoOn(j) \/ StartCommand(j) \/ Refused(j)
             \/ EndCommand(j)
      PROVE  RowFirst'
  BY <1>4 DEF TrackCancel, CannotGoOn, StartCommand, Refused, EndCommand
<1>5. ASSUME NEW j \in Jobs,
             LoadJob(j) \/ MarkRunning(j) \/ Complete(j) \/ FailJob(j)
      PROVE  RowFirst'
  BY <1>5 DEF LoadJob, MarkRunning, Complete, FailJob
<1>6. ASSUME NEW c \in Cancellers, NEW j \in Jobs, CancelReads(c, j)
      PROVE  RowFirst'
  BY <1>6 DEF CancelReads
<1>7. ASSUME NEW c \in Cancellers, CancelSignals(c)
      PROVE  RowFirst'
  BY <1>7 DEF CancelSignals
<1>8. ASSUME NEW c \in Cancellers, CancelWrites(c)
      PROVE  RowFirst'
  <2>1. cancelling[c].job \in Jobs
    BY <1>8, CallHasJob DEF CancelWrites
  <2> QED BY <1>8, <2>1 DEF CancelWrites
<1> QED
  BY <1>1, <1>2, <1>3, <1>4, <1>5, <1>6, <1>7, <1>8 DEF PipelinesNext

(* Whoever cancels a context marks the job afterwards. *)
LEMMA AbortedIsWrittenStep ==
    ASSUME PipelinesTypeOK, RowFirst, AbortedIsWritten,
           [PipelinesNext]_pipelineVars
    PROVE  AbortedIsWritten'
<1> USE DEF AbortedIsWritten, jobVars
<1>1. CASE UNCHANGED pipelineVars
  BY <1>1 DEF pipelineVars
<1>2. CASE PipelinesCrash
  BY <1>2 DEF PipelinesCrash
<1>3. ASSUME NEW j \in Jobs, RunPipeline(j)
      PROVE  AbortedIsWritten'
  BY <1>3 DEF RunPipeline, RowFirst, PipelinesTypeOK
<1>4. ASSUME NEW j \in Jobs,
             \/ TrackCancel(j) \/ CannotGoOn(j) \/ StartCommand(j) \/ Refused(j)
             \/ EndCommand(j) \/ LoadJob(j)
      PROVE  AbortedIsWritten'
  BY <1>4 DEF TrackCancel, CannotGoOn, StartCommand, Refused, EndCommand, LoadJob
<1>5. ASSUME NEW j \in Jobs, MarkRunning(j)
      PROVE  AbortedIsWritten'
  BY <1>5 DEF MarkRunning, AsksStore, PipelinesTypeOK
<1>6. ASSUME NEW j \in Jobs, Complete(j) \/ FailJob(j)
      PROVE  AbortedIsWritten'
  BY <1>6 DEF Complete, FailJob, Live, PipelinesTypeOK
<1>7. ASSUME NEW c \in Cancellers, NEW j \in Jobs, CancelReads(c, j)
      PROVE  AbortedIsWritten'
  <2>1. cancelling[c].pc # "write"
    BY <1>7 DEF CancelReads, AtRest
  <2>2. \A d \in Cancellers :
           cancelling[d].pc = "write" => cancelling'[d] = cancelling[d]
    BY <1>7, <2>1 DEF CancelReads, PipelinesTypeOK
  <2> QED BY <1>7, <2>2 DEF CancelReads
<1>8. ASSUME NEW c \in Cancellers, CancelSignals(c)
      PROVE  AbortedIsWritten'
  <2>1. /\ cancelling'[c].job = cancelling[c].job /\ cancelling'[c].pc = "write"
        /\ \A d \in Cancellers \ {c} : cancelling'[d] = cancelling[d]
    BY <1>8 DEF CancelSignals, PipelinesTypeOK
  <2>2. \A d \in Cancellers :
           cancelling[d].pc = "write" => cancelling'[d] = cancelling[d]
    BY <1>8, <2>1 DEF CancelSignals
  <2> QED BY <1>8, <2>1, <2>2 DEF CancelSignals
<1>9. ASSUME NEW c \in Cancellers, CancelWrites(c)
      PROVE  AbortedIsWritten'
  <2> DEFINE j == cancelling[c].job
  <2>1. j \in Jobs
    BY <1>9, CallHasJob DEF CancelWrites
  <2>2. j \in unmarked' \/ row'[j] \notin Live
    BY <1>9, <2>1 DEF CancelWrites, Live, PipelinesTypeOK
  <2>3. /\ \A k \in Jobs \ {j} : row'[k] = row[k]
        /\ unmarked \subseteq unmarked'
        /\ aborted' = aborted
        /\ \A d \in Cancellers \ {c} : cancelling'[d] = cancelling[d]
    BY <1>9 DEF CancelWrites, PipelinesTypeOK
  <2> QED BY <2>1, <2>2, <2>3 DEF PipelinesTypeOK
<1> QED
  BY <1>1, <1>2, <1>3, <1>4, <1>5, <1>6, <1>7, <1>8, <1>9 DEF PipelinesNext

(* An execution that has ended leaves its row marked. *)
LEMMA EndedIsMarkedStep ==
    ASSUME PipelinesTypeOK, RowFirst, AbortedIsWritten, EndedIsMarked,
           [PipelinesNext]_pipelineVars
    PROVE  EndedIsMarked'
<1> USE DEF EndedIsMarked, Cancelled, jobVars
<1>1. CASE UNCHANGED pipelineVars
  BY <1>1 DEF pipelineVars
<1>2. CASE PipelinesCrash
  <2>1. \A j \in Jobs \ unmarked' :
           /\ stage[j] \notin Executing
           /\ \A c \in Cancellers : cancelling[c].job # j
    BY <1>2 DEF PipelinesCrash
  <2>2. \A j \in Jobs \ unmarked' : stage'[j] = stage[j] /\ j \notin unmarked
    BY <1>2, <2>1 DEF PipelinesCrash
  <2>3. row' = row
    BY <1>2 DEF PipelinesCrash
  <2> QED BY <2>1, <2>2, <2>3
<1>3. ASSUME NEW j \in Jobs, RunPipeline(j)
      PROVE  EndedIsMarked'
  BY <1>3 DEF RunPipeline, PipelinesTypeOK
<1>4. ASSUME NEW j \in Jobs,
             TrackCancel(j) \/ CannotGoOn(j) \/ StartCommand(j) \/ EndCommand(j)
      PROVE  EndedIsMarked'
  BY <1>4 DEF TrackCancel, CannotGoOn, StartCommand, EndCommand, PipelinesTypeOK
<1>5. ASSUME NEW j \in Jobs, LoadJob(j) \/ MarkRunning(j)
      PROVE  EndedIsMarked'
  BY <1>5 DEF LoadJob, MarkRunning, Returns, PipelinesTypeOK
<1>6. ASSUME NEW j \in Jobs, Complete(j) \/ FailJob(j)
      PROVE  EndedIsMarked'
  BY <1>6 DEF Complete, FailJob, Returns, Live, PipelinesTypeOK
<1>7. ASSUME NEW j \in Jobs, Refused(j)
      PROVE  EndedIsMarked'
  <2>1. j \in aborted /\ UNCHANGED <<row, unmarked, cancelling>>
    BY <1>7 DEF Refused
  <2>2. j \notin unmarked /\ row[j] \in Live => Cancelled(j)
    BY <2>1 DEF AbortedIsWritten
  <2>3. \A k \in Jobs \ {j} : stage'[k] = stage[k]
    BY <1>7 DEF Refused, Returns, PipelinesTypeOK
  <2> QED BY <2>1, <2>2, <2>3
<1>8. ASSUME NEW c \in Cancellers, NEW j \in Jobs, CancelReads(c, j)
      PROVE  EndedIsMarked'
  <2>1. \A k \in Jobs : cancelling[c].job # k
    BY <1>8, RestHasNoJob DEF CancelReads
  <2>2. \A d \in Cancellers \ {c} : cancelling'[d] = cancelling[d]
    BY <1>8 DEF CancelReads, PipelinesTypeOK
  <2>3. UNCHANGED <<row, stage, unmarked>>
    BY <1>8 DEF CancelReads
  <2> QED BY <2>1, <2>2, <2>3
<1>9. ASSUME NEW c \in Cancellers, CancelSignals(c)
      PROVE  EndedIsMarked'
  <2>1. \A d \in Cancellers : cancelling'[d].job = cancelling[d].job
    BY <1>9 DEF CancelSignals, PipelinesTypeOK
  <2> QED BY <1>9, <2>1 DEF CancelSignals
<1>10. ASSUME NEW c \in Cancellers, CancelWrites(c)
       PROVE  EndedIsMarked'
  <2> DEFINE j == cancelling[c].job
  <2>1. j \in Jobs
    BY <1>10, CallHasJob DEF CancelWrites
  <2>2. j \in unmarked' \/ row'[j] \notin Live
    BY <1>10, <2>1 DEF CancelWrites, Live, PipelinesTypeOK
  <2>3. /\ \A k \in Jobs \ {j} : row'[k] = row[k]
        /\ unmarked \subseteq unmarked'
        /\ stage' = stage
        /\ \A d \in Cancellers \ {c} : cancelling'[d] = cancelling[d]
    BY <1>10 DEF CancelWrites, PipelinesTypeOK
  <2> QED BY <2>1, <2>2, <2>3
<1> QED
  BY <1>1, <1>2, <1>3, <1>4, <1>5, <1>6, <1>7, <1>8, <1>9, <1>10
     DEF PipelinesNext

-----------------------------------------------------------------------------
\* The variables of Pipelines keep their types: where a goroutine is and what
\* a call of cancel_pipeline_job has in hand (Execute, cancelPipelineJob).
THEOREM PipelinesTyped == PipelinesSpec => []PipelinesTypeOK
<1> QED BY PipelinesTypeInit, PipelinesTypeStep, PTL DEF PipelinesSpec

\* Execute and cancel_pipeline_job: a job whose execution has ended is marked
\* so, or a call that cancels it has still to write.
THEOREM EndedJobsAreMarked == PipelinesSpec => []EndedIsMarked
<1>1. PipelinesInv /\ [PipelinesNext]_pipelineVars => PipelinesInv'
  BY PipelinesTypeStep, RowFirstStep, AbortedIsWrittenStep, EndedIsMarkedStep
     DEF PipelinesInv
<1>2. PipelinesInv => EndedIsMarked
  BY DEF PipelinesInv
<1> QED BY PipelinesInvInit, <1>1, <1>2, PTL DEF PipelinesSpec

-----------------------------------------------------------------------------
(***************************************************************************)
(* A bucket never holds more than the tightest window leaves, and exactly  *)
(* what some window leaves: the bucket that is refilled on demand, cut at  *)
(* its capacity and forgotten by Cleanup is the minimum over all windows.  *)
(***************************************************************************)

\* The shares of a bucket are below those of every window and equal to
\* those of one of them.
TightestWindow ==
    \A a \in Addresses :
        /\ \A s \in 0 .. now : Refilled(a) <= Left(a, s)
        /\ \E s \in 0 .. now : Refilled(a) = Left(a, s)

LEMMA FullIsNat == Full \in Nat /\ Full >= Minute
<1>1. \A m, n \in Nat \ {0} : m * n \in Nat /\ m * n >= n
  OBVIOUS
<1> QED BY <1>1, RateLimiterAssumption DEF Full

\* One more step, or one more request, adds its factor to a product.
LEMMA OneMore ==
    ASSUME NEW m \in Int, NEW n \in Int
    PROVE  /\ (m + 1) * n = m * n + n
           /\ m * n \in Int
  OBVIOUS

\* More than a minute refills more than a full bucket.
LEMMA MinuteFills ==
    ASSUME NEW n \in Int, n >= Minute PROVE n * RPM >= Full
<1>1. \A r, m \in Nat, k \in Int : k >= m => k * r >= r * m
  OBVIOUS
<1> QED BY <1>1, RateLimiterAssumption DEF Full

LEMMA RefilledIsInRange ==
    ASSUME RateLimiterTypeOK, NEW a \in Addresses
    PROVE  Refilled(a) \in 0 .. Full
<1>1. CASE bucket[a] = NoBucket
  BY <1>1, FullIsNat DEF Refilled
<1>2. CASE bucket[a] # NoBucket
  <2>1. /\ bucket[a].tokens \in 0 .. Full
        /\ bucket[a].last \in Int /\ now - bucket[a].last \in Nat
    BY <1>2 DEF RateLimiterTypeOK, Ticks
  <2>2. (now - bucket[a].last) * RPM \in Nat
    <3>1. \A m, n \in Nat : m * n \in Nat
      OBVIOUS
    <3> QED BY <3>1, <2>1, RateLimiterAssumption
  <2> QED BY <1>2, <2>1, <2>2, FullIsNat DEF Refilled, Capped
<1> QED BY <1>1, <1>2

-----------------------------------------------------------------------------
(* Every variable keeps its shape.                                         *)

LEMMA TypeStarts == RateLimiterInit => RateLimiterTypeOK
  BY RateLimiterAssumption DEF RateLimiterInit, RateLimiterTypeOK, Ticks

LEMMA TypeKept ==
    RateLimiterTypeOK /\ [RateLimiterNext]_limitVars => RateLimiterTypeOK'
<1> SUFFICES ASSUME RateLimiterTypeOK, [RateLimiterNext]_limitVars
             PROVE  RateLimiterTypeOK'
  OBVIOUS
<1> USE RateLimiterAssumption DEF RateLimiterTypeOK
<1>1. CASE Tick
  BY <1>1 DEF Tick, Ticks
<1>2. CASE Cleanup
  BY <1>2 DEF Cleanup
<1>3. ASSUME NEW a \in Addresses, Allow(a) PROVE RateLimiterTypeOK'
  <2> DEFINE b == [tokens |-> IF Refilled(a) >= Minute THEN Refilled(a) - Minute
                              ELSE Refilled(a),
                   last |-> now]
  <2>1. b \in [tokens : 0 .. Full, last : Ticks] /\ b.last <= now
    BY SMTT(30), RefilledIsInRange, FullIsNat DEF Ticks
  <2>2. bucket' = [bucket EXCEPT ![a] = b] /\ now' = now
    BY <1>3 DEF Allow
  <2> HIDE DEF b
  <2>3. bucket' \in [Addresses -> {NoBucket} \cup [tokens : 0 .. Full, last : Ticks]]
    BY <2>1, <2>2
  <2>4. \A x \in Addresses : bucket'[x] # NoBucket => bucket'[x].last <= now'
    BY <2>1, <2>2
  <2>5. calls' \in [Addresses -> 0 .. MaxCalls]
    BY <1>3 DEF Allow
  <2>6. total' \in [Addresses -> Nat] /\ before' = before
    BY <1>3 DEF Allow
  <2> QED BY <2>2, <2>3, <2>4, <2>5, <2>6
<1>4. CASE UNCHANGED limitVars
  BY <1>4 DEF limitVars
<1> QED BY <1>1, <1>2, <1>3, <1>4 DEF RateLimiterNext

\* Type correctness: in particular, a bucket never holds less than nothing
\* or more than it has room for, and none is newer than the clock.
THEOREM RateLimiterTyped == RateLimiterSpec => []RateLimiterTypeOK
  BY TypeStarts, TypeKept, PTL DEF RateLimiterSpec

-----------------------------------------------------------------------------
(* The steps, as the windows see them.                                     *)

LEMMA WindowIsInt ==
    ASSUME RateLimiterTypeOK, NEW a \in Addresses, NEW s \in 0 .. now
    PROVE  Left(a, s) \in Int
<1>1. now - s \in Int /\ total[a] - before[a][s] \in Int
  BY RateLimiterAssumption DEF RateLimiterTypeOK, Ticks
<1> QED BY <1>1, OneMore, FullIsNat, RateLimiterAssumption DEF Left

LEMMA TightStarts == RateLimiterInit => TightestWindow
<1> SUFFICES ASSUME RateLimiterInit PROVE TightestWindow
  OBVIOUS
<1>1. \A s \in 0 .. now : s = 0
  BY DEF RateLimiterInit
<1>2. 0 * RPM = 0 /\ 0 * Minute = 0
  BY RateLimiterAssumption
<1>3. ASSUME NEW a \in Addresses PROVE Refilled(a) = Full /\ Left(a, 0) = Full
  <2>1. now = 0 /\ total[a] = 0 /\ before[a][0] = 0 /\ bucket[a] = NoBucket
    BY RateLimiterAssumption DEF RateLimiterInit, Ticks
  <2> QED BY <1>2, <2>1, FullIsNat DEF Refilled, Left
<1>4. 0 \in 0 .. now
  BY DEF RateLimiterInit
<1>5. \A a \in Addresses, s \in 0 .. now : Refilled(a) = Full /\ Left(a, s) = Full
  BY <1>1, <1>3
<1>6. ASSUME NEW a \in Addresses
      PROVE  /\ \A s \in 0 .. now : Refilled(a) <= Left(a, s)
             /\ \E s \in 0 .. now : Refilled(a) = Left(a, s)
  <2>1. \A s \in 0 .. now : Refilled(a) <= Left(a, s)
    BY <1>5, FullIsNat
  <2>2. \E s \in 0 .. now : Refilled(a) = Left(a, s)
    BY <1>4, <1>5
  <2> QED BY <2>1, <2>2
<1> QED BY <1>6, Zenon DEF TightestWindow

\* A tick refills RPM shares, to the capacity.
LEMMA TickRefills ==
    ASSUME RateLimiterTypeOK, Tick, NEW a \in Addresses
    PROVE  Refilled(a)' = Capped(Refilled(a) + RPM)
<1>1. now' = now + 1 /\ bucket' = bucket
  BY DEF Tick
<1>2. CASE bucket[a] = NoBucket
  BY <1>1, <1>2, FullIsNat, RateLimiterAssumption DEF Refilled, Capped
<1>3. CASE bucket[a] # NoBucket
  <2> DEFINE n == now - bucket[a].last
             t == bucket[a].tokens
  <2>1. n \in Int /\ t \in Int /\ now' - bucket[a].last = n + 1
    BY <1>1, <1>3 DEF RateLimiterTypeOK, Ticks
  <2>2. Refilled(a) = Capped(t + n * RPM)
    BY <1>3 DEF Refilled
  <2>3. Refilled(a)' = Capped(t + (n + 1) * RPM)
    BY <1>1, <1>3, <2>1 DEF Refilled, Capped
  <2> HIDE DEF n, t
  <2>4. (n + 1) * RPM = n * RPM + RPM /\ n * RPM \in Int
    <3>1. RPM \in Int
      BY RateLimiterAssumption
    <3> QED  BY <2>1, <3>1, OneMore
  <2> QED BY <2>1, <2>2, <2>3, <2>4, FullIsNat, RateLimiterAssumption DEF Capped
<1> QED BY <1>2, <1>3

\* It gives every window RPM shares more, and opens a window with a full
\* bucket.
LEMMA TickOpensWindow ==
    ASSUME RateLimiterTypeOK, Tick, NEW a \in Addresses
    PROVE  /\ \A s \in 0 .. now : Left(a, s)' = Left(a, s) + RPM
           /\ \A s \in Ticks : s = now + 1 => Left(a, s)' = Full
<1>1. /\ now \in Nat /\ now' = now + 1 /\ now + 1 \in Ticks /\ total' = total
      /\ before'[a] = [before[a] EXCEPT ![now + 1] = total[a]]
  BY RateLimiterAssumption DEF Tick, RateLimiterTypeOK, Ticks
<1>2. ASSUME NEW s \in 0 .. now PROVE Left(a, s)' = Left(a, s) + RPM
  <2>1. before'[a][s] = before[a][s]
    BY <1>1, RateLimiterAssumption DEF RateLimiterTypeOK, Ticks
  <2>2. now - s \in Int /\ now' - s = (now - s) + 1
    BY <1>1
  <2>3. ((now - s) + 1) * RPM = (now - s) * RPM + RPM /\ (now - s) * RPM \in Int
    BY <2>2, OneMore, RateLimiterAssumption
  <2>4. (total[a] - before[a][s]) * Minute \in Int
    <3>1. total[a] - before[a][s] \in Int
      BY <1>1, RateLimiterAssumption DEF RateLimiterTypeOK, Ticks
    <3> QED BY <3>1, OneMore, RateLimiterAssumption
  <2>5. Left(a, s)' = Full + ((now - s) + 1) * RPM - (total[a] - before[a][s]) * Minute
    BY <1>1, <2>1, <2>2 DEF Left, Full
  <2> QED BY <2>3, <2>4, <2>5, FullIsNat, RateLimiterAssumption DEF Left
<1>3. ASSUME NEW s \in Ticks, s = now + 1 PROVE Left(a, s)' = Full
  <2>1. before'[a][s] = total[a] /\ total[a] \in Nat
    BY <1>1, <1>3 DEF RateLimiterTypeOK
  <2>2. now' - s = 0 /\ total[a] - total[a] = 0
    BY <1>1, <1>3, <2>1
  <2>3. Left(a, s)' = Full + 0 * RPM - 0 * Minute
    BY <1>1, <2>1, <2>2 DEF Left, Full
  <2> QED BY <2>3, FullIsNat, RateLimiterAssumption
<1> QED BY <1>2, <1>3

LEMMA TickKeepsTight ==
    ASSUME RateLimiterTypeOK, TightestWindow, Tick PROVE TightestWindow'
<1> SUFFICES ASSUME NEW a \in Addresses
             PROVE  /\ \A s \in 0 .. now' : Refilled(a)' <= Left(a, s)'
                    /\ \E s \in 0 .. now' : Refilled(a)' = Left(a, s)'
  BY DEF TightestWindow
<1>1. now \in Nat /\ now' = now + 1 /\ now + 1 \in Ticks
  BY RateLimiterAssumption DEF Tick, RateLimiterTypeOK, Ticks
<1>2. Refilled(a) \in 0 .. Full /\ Refilled(a)' = Capped(Refilled(a) + RPM)
  BY RefilledIsInRange, TickRefills
<1>3. Refilled(a)' <= Full /\ Refilled(a)' <= Refilled(a) + RPM
  BY <1>2, FullIsNat, RateLimiterAssumption DEF Capped
<1>4. ASSUME NEW s \in 0 .. now' PROVE Refilled(a)' <= Left(a, s)'
  <2>1. CASE s = now + 1
    BY <1>1, <1>3, <2>1, TickOpensWindow
  <2>2. CASE s \in 0 .. now
    <3>1. Left(a, s) \in Int /\ Refilled(a) <= Left(a, s)
      BY <2>2, WindowIsInt DEF TightestWindow
    <3>2. Left(a, s)' = Left(a, s) + RPM
      BY <2>2, TickOpensWindow
    <3>3. Refilled(a)' \in Int
      BY <1>2, FullIsNat, RateLimiterAssumption DEF Capped
    <3> QED BY <1>2, <1>3, <3>1, <3>2, <3>3, RateLimiterAssumption
  <2> QED BY <1>1, <2>1, <2>2
<1>5. \E s \in 0 .. now' : Refilled(a)' = Left(a, s)'
  <2>1. CASE Refilled(a)' = Full
    BY <1>1, <2>1, TickOpensWindow
  <2>2. CASE Refilled(a)' # Full
    <3>1. PICK s \in 0 .. now : Refilled(a) = Left(a, s)
      BY DEF TightestWindow
    <3>2. Refilled(a)' = Refilled(a) + RPM
      BY <1>2, <2>2 DEF Capped
    <3> QED BY <1>1, <3>1, <3>2, TickOpensWindow
  <2> QED BY <2>1, <2>2
<1> QED BY <1>4, <1>5

\* Cleanup forgets only buckets that are full again by now.
LEMMA StaleIsFull ==
    ASSUME RateLimiterTypeOK, NEW a \in Addresses, Stale(a)
    PROVE  Refilled(a) = Full
<1>1. /\ bucket[a].tokens \in 0 .. Full
      /\ now - bucket[a].last \in Int /\ now - bucket[a].last >= Minute
  BY RateLimiterAssumption DEF Stale, RateLimiterTypeOK, Ticks
<1>2. \A n \in Int : n >= Minute => n * RPM >= Full /\ n * RPM \in Int
  BY MinuteFills, OneMore, RateLimiterAssumption
<1>3. (now - bucket[a].last) * RPM >= Full /\ (now - bucket[a].last) * RPM \in Int
  BY <1>1, <1>2
<1> QED BY <1>1, <1>3, FullIsNat DEF Refilled, Capped, Stale

LEMMA CleanupKeepsTight ==
    ASSUME RateLimiterTypeOK, TightestWindow, Cleanup PROVE TightestWindow'
<1>1. now' = now /\ total' = total /\ before' = before
  BY DEF Cleanup
<1>2. ASSUME NEW a \in Addresses PROVE Refilled(a)' = Refilled(a)
  <2>1. CASE Stale(a)
    BY <2>1, StaleIsFull DEF Cleanup, Refilled, Full
  <2>2. CASE ~Stale(a)
    BY <1>1, <2>2 DEF Cleanup, Refilled, Capped, Full
  <2> QED BY <2>1, <2>2
<1>3. \A a \in Addresses : \A s \in 0 .. now : Left(a, s)' = Left(a, s)
  BY <1>1 DEF Left, Full
<1> QED BY <1>1, <1>2, <1>3 DEF TightestWindow

LEMMA AllowKeepsTight ==
    ASSUME RateLimiterTypeOK, TightestWindow, NEW a \in Addresses, Allow(a)
    PROVE  TightestWindow'
<1> DEFINE R == Refilled(a)
           ok == R >= Minute
<1>1. R \in 0 .. Full /\ now \in Nat
  BY RefilledIsInRange, RateLimiterAssumption DEF RateLimiterTypeOK, Ticks
<1>2. now' = now /\ before' = before
  BY DEF Allow
<1>3. ASSUME NEW x \in Addresses, x # a
      PROVE  /\ Refilled(x)' = Refilled(x)
             /\ \A s \in 0 .. now : Left(x, s)' = Left(x, s)
  <2>1. bucket'[x] = bucket[x] /\ total'[x] = total[x]
    BY <1>3 DEF Allow, RateLimiterTypeOK
  <2> QED BY <1>2, <2>1 DEF Refilled, Capped, Left, Full
<1>4. Refilled(a)' = IF ok THEN R - Minute ELSE R
  <2> DEFINE t == IF ok THEN R - Minute ELSE R
  <2>1. bucket'[a] = [tokens |-> t, last |-> now]
    BY DEF Allow, RateLimiterTypeOK
  <2>2. t \in 0 .. Full /\ now \in Int /\ now - now = 0
    BY <1>1, FullIsNat, RateLimiterAssumption
  <2> HIDE DEF t
  <2>3. bucket'[a] # NoBucket /\ bucket'[a].tokens = t /\ bucket'[a].last = now
    <3>1. [tokens |-> t, last |-> now] \in [tokens : Int, last : Int]
      BY <2>2, FullIsNat
    <3> QED BY <2>1, <3>1, RateLimiterAssumption
  <2>4. Refilled(a)' = Capped(t + 0 * RPM)
    BY <1>2, <2>2, <2>3 DEF Refilled, Capped, Full
  <2>5. Refilled(a)' = t
    BY <2>2, <2>4, FullIsNat, RateLimiterAssumption DEF Capped
  <2> QED BY <2>5 DEF t
<1>5. ASSUME NEW s \in 0 .. now
      PROVE  Left(a, s)' = IF ok THEN Left(a, s) - Minute ELSE Left(a, s)
  <2> DEFINE d == total[a] - before[a][s]
  <2>1. d \in Int /\ total[a] \in Nat /\ before[a][s] \in Nat /\ (now - s) * RPM \in Int
    <3>1. d \in Int /\ total[a] \in Nat /\ before[a][s] \in Nat /\ now - s \in Int
      BY <1>1, RateLimiterAssumption DEF RateLimiterTypeOK, Ticks
    <3> QED BY <3>1, OneMore, RateLimiterAssumption
  <2>2. total'[a] = IF ok THEN total[a] + 1 ELSE total[a]
    BY DEF Allow, RateLimiterTypeOK
  <2>3. (d + 1) * Minute = d * Minute + Minute /\ d * Minute \in Int
    BY <2>1, OneMore, RateLimiterAssumption
  <2>4. total'[a] - before'[a][s] = IF ok THEN d + 1 ELSE d
    BY <1>2, <2>1, <2>2
  <2>5. Left(a, s)' = Full + (now - s) * RPM - (IF ok THEN d + 1 ELSE d) * Minute
    BY <1>2, <2>4 DEF Left, Full
  <2>6. Left(a, s) = Full + (now - s) * RPM - d * Minute
    BY DEF Left
  <2> HIDE DEF d, ok
  <2> QED BY <2>1, <2>3, <2>5, <2>6, FullIsNat, RateLimiterAssumption
<1>6. \A s \in 0 .. now : Left(a, s) \in Int
  BY WindowIsInt
<1>7. /\ \A s \in 0 .. now : Refilled(a)' <= Left(a, s)'
      /\ \E s \in 0 .. now : Refilled(a)' = Left(a, s)'
  <2>1. /\ \A s \in 0 .. now : R <= Left(a, s)
        /\ \E s \in 0 .. now : R = Left(a, s)
    BY DEF TightestWindow
  <2>2. \A s \in 0 .. now : Refilled(a)' <= Left(a, s)'
    BY <1>1, <1>4, <1>5, <1>6, <2>1, FullIsNat, RateLimiterAssumption
  <2>3. \E s \in 0 .. now : Refilled(a)' = Left(a, s)'
    BY <1>4, <1>5, <2>1
  <2> QED BY <2>2, <2>3
<1>8. ASSUME NEW x \in Addresses
      PROVE  /\ \A s \in 0 .. now : Refilled(x)' <= Left(x, s)'
             /\ \E s \in 0 .. now : Refilled(x)' = Left(x, s)'
  <2>1. CASE x = a
    BY <1>7, <2>1
  <2>2. CASE x # a
    BY <1>3, <2>2 DEF TightestWindow
  <2> QED BY <2>1, <2>2
<1> QED BY <1>2, <1>8 DEF TightestWindow

LEMMA TightKept ==
    ASSUME RateLimiterTypeOK, TightestWindow, [RateLimiterNext]_limitVars
    PROVE  TightestWindow'
<1>1. CASE UNCHANGED limitVars
  BY <1>1 DEF limitVars, TightestWindow, Refilled, Capped, Left, Full
<1> QED BY <1>1, TickKeepsTight, CleanupKeepsTight, AllowKeepsTight
        DEF RateLimiterNext

-----------------------------------------------------------------------------
LEMMA TightDecides ==
    ASSUME RateLimiterTypeOK, TightestWindow PROVE AllowsByWindows
<1> SUFFICES ASSUME NEW a \in Addresses
             PROVE  Refilled(a) >= Minute <=> \A s \in 0 .. now : Left(a, s) >= Minute
  BY DEF AllowsByWindows
<1>1. Refilled(a) \in Int /\ Minute \in Int
  BY RefilledIsInRange, FullIsNat, RateLimiterAssumption
<1>2. \A s \in 0 .. now : Left(a, s) \in Int /\ Refilled(a) <= Left(a, s)
  BY WindowIsInt DEF TightestWindow
<1>3. PICK s \in 0 .. now : Refilled(a) = Left(a, s)
  BY DEF TightestWindow
<1> QED BY <1>1, <1>2, <1>3

\* For every rate, every clock and every pattern of requests and cleanups,
\* Allow lets a request pass exactly if every window that ends with it has
\* room: the token bucket is the sliding window it stands for.
THEOREM LimiterAllowsByWindows == RateLimiterSpec => []AllowsByWindows
<1>1. RateLimiterInit => TightestWindow
  BY TightStarts
<1>2. RateLimiterTypeOK /\ TightestWindow /\ [RateLimiterNext]_limitVars
        => TightestWindow'
  BY TightKept
<1>3. RateLimiterTypeOK /\ TightestWindow => AllowsByWindows
  BY TightDecides
<1> QED BY <1>1, <1>2, <1>3, RateLimiterTyped, PTL DEF RateLimiterSpec

-----------------------------------------------------------------------------
(***************************************************************************)
(* Proofs about Guard: an action is decided once, a denied call runs only  *)
(* on its own approval, nobody sends on, or closes, a channel that is      *)
(* closed, and the history holds the newest decisions.                     *)
(***************************************************************************)

USE DEF Steps, TimerSteps

\* The decisions taken so far, as a set.
Made == {decisions[i] : i \in DOMAIN decisions}

Ruling(c, approved, by) == [id |-> c, approved |-> approved, by |-> by]

\* Nobody is about to send, or to send or close, on the channel of c.
NoSender(c) ==
    /\ timer[c] # "signal"
    /\ \A g \in Calls : ~(pc[g] = "signal" /\ target[g] = c)

NoHolder(c) ==
    /\ timer[c] \notin {"signal", "closing"}
    /\ \A g \in Calls : ~(pc[g] \in {"signal", "closing"} /\ target[g] = c)

\* The parts of the inductive invariant.  An action is pending only behind its
\* guard, and is not decided before.
TimerStarted == \A c \in Calls : pc[c] \in {"idle", "denied"} => timer[c] = "off"

ArmedHasTimer == \A c \in Calls : pc[c] = "armed" => timer[c] # "off"

PendingIsDenied == \A c \in pending :
    pc[c] \in {"waiting", "told", "cancelled"} /\ timer[c] # "off"

MadeWasPending == \A d \in Made :
    d.id \notin pending /\ pc[d.id] \notin {"idle", "denied", "armed"}

\* Who holds a decision to signal took that very decision; with DecidedOnce, no
\* two hold one for the same action.
DecidersHold == \A g \in Calls :
    pc[g] \in {"signal", "closing"} => Ruling(target[g], verdict[g], g) \in Made

TimersHold == \A c \in Calls :
    timer[c] \in {"signal", "closing"} => Ruling(c, FALSE, Timer) \in Made

TimersReject == \A d \in Made : d.by = Timer => ~d.approved

AnswersAreMade == \A c \in Calls : answer[c] # <<>> =>
    /\ NoSender(c)
    /\ \E d \in Made : d.id = c /\ d.approved = Head(answer[c])

ClosedIsOver == \A c \in closed : NoHolder(c) /\ \E d \in Made : d.id = c

ApprovedRuns == \A c \in Calls :
    timer[c] # "off" /\ pc[c] \in {"run", "signal", "closing", "done"} =>
        \E d \in Made : d.id = c /\ d.approved

Unique == \A d, e \in Made : d.id = e.id => d = e

GInv ==
    /\ GuardTypeOK
    /\ DecidedOnce
    /\ TimerStarted
    /\ ArmedHasTimer
    /\ PendingIsDenied
    /\ MadeWasPending
    /\ DecidersHold
    /\ TimersHold
    /\ TimersReject
    /\ AnswersAreMade
    /\ ClosedIsOver
    /\ ApprovedRuns
-----------------------------------------------------------------------------
\* Decisions are records of calls, and one per action.
LEMMA MadeTyped ==
    ASSUME GuardTypeOK, DecidedOnce
    PROVE  Made \subseteq Decision /\ Unique
<1>1. decisions \in Seq(Decision) /\ DOMAIN decisions = 1..Len(decisions)
  BY LenProperties DEF GuardTypeOK
<1>2. \A i \in DOMAIN decisions : decisions[i] \in Decision
  BY <1>1, ElementOfSeq
<1> QED
  BY <1>2 DEF Made, Unique, DecidedOnce

\* The newest n entries of a sequence.
LEMMA NewestProperties ==
    ASSUME NEW S, NEW s \in Seq(S), NEW n \in Nat
    PROVE  /\ Newest(s, n) \in Seq(S)
           /\ Len(Newest(s, n)) = IF Len(s) > n THEN n ELSE Len(s)
           /\ \A i \in 1..Len(Newest(s, n)) :
                 Newest(s, n)[i] = s[(IF Len(s) > n THEN Len(s) - n ELSE 0) + i]
<1> DEFINE m == (IF Len(s) > n THEN Len(s) - n ELSE 0) + 1
<1>1. Len(s) \in Nat /\ m \in 1..(Len(s) + 1)
  BY LenProperties
<1>7. Len(s) - m + 1 = IF Len(s) > n THEN n ELSE Len(s)
  BY <1>1
<1>8. m - 1 = IF Len(s) > n THEN Len(s) - n ELSE 0
  BY <1>1
<1>4. Newest(s, n) = SubSeq(s, m, Len(s))
  BY DEF Newest
<1> HIDE DEF m
<1>2. \A i \in m..Len(s) : s[i] \in S
  BY <1>1, ElementOfSeq
<1>3. /\ SubSeq(s, m, Len(s)) \in Seq(S)
      /\ Len(SubSeq(s, m, Len(s))) = IF m <= Len(s) THEN Len(s) - m + 1 ELSE 0
      /\ \A i \in 1..(Len(s) - m + 1) : SubSeq(s, m, Len(s))[i] = s[m + i - 1]
  <2>1. m \in Int /\ Len(s) \in Int
    BY <1>1
  <2> QED
    BY <1>2, <2>1, SubSeqProperties
<1>5. Len(Newest(s, n)) = Len(s) - m + 1
  BY <1>1, <1>3, <1>4
<1>6. ASSUME NEW i \in 1..Len(Newest(s, n))
      PROVE  Newest(s, n)[i] = s[(IF Len(s) > n THEN Len(s) - n ELSE 0) + i]
  <2>1. Newest(s, n)[i] = s[m + i - 1]
    BY <1>3, <1>4, <1>5
  <2>2. m + i - 1 = (m - 1) + i
    BY <1>1, <1>5
  <2> QED
    BY <1>8, <2>1, <2>2
<1> QED
  BY <1>3, <1>4, <1>5, <1>6, <1>7

\* A decision that is taken keeps the shape of history and is added to Made.
LEMMA SettleMakes ==
    ASSUME GuardTypeOK, NEW c \in pending, NEW approved \in BOOLEAN,
           NEW by \in Calls \cup {Timer}, Settle(c, approved, by)
    PROVE  /\ history' \in Seq(Decision) /\ Len(history') <= MaxHistory
           /\ decisions' \in Seq(Decision)
           /\ Made' = Made \cup {Ruling(c, approved, by)}
           /\ pending' = pending \ {c}
           /\ DecidedOnce => DecidedOnce'
<1> DEFINE d == Ruling(c, approved, by)
<1>1. d \in Decision
  BY DEF Ruling, Decision, GuardTypeOK
<1>2. /\ decisions' = Append(decisions, d)
      /\ history' = Trim(Append(history, d))
      /\ pending' = pending \ {c}
  BY DEF Settle, Ruling
<1>3. /\ decisions' \in Seq(Decision)
      /\ Len(decisions') = Len(decisions) + 1
      /\ \A i \in 1..Len(decisions) : decisions'[i] = decisions[i]
      /\ decisions'[Len(decisions) + 1] = d
      /\ Len(decisions) \in Nat
      /\ DOMAIN decisions = 1..Len(decisions)
      /\ DOMAIN decisions' = 1..(Len(decisions) + 1)
  <2>1. decisions \in Seq(Decision)
    BY DEF GuardTypeOK
  <2>2. /\ decisions' \in Seq(Decision)
        /\ Len(decisions') = Len(decisions) + 1
        /\ \A i \in 1..Len(decisions) : decisions'[i] = decisions[i]
        /\ decisions'[Len(decisions) + 1] = d
    BY <1>1, <1>2, <2>1, AppendProperties
  <2> QED
    BY <2>1, <2>2, LenProperties
<1>4. history' \in Seq(Decision) /\ Len(history') <= MaxHistory
  <2> DEFINE h == Append(history, d)
  <2>1. h \in Seq(Decision) /\ Len(h) = Len(history) + 1 /\ Len(history) \in Nat
    BY <1>1, AppendProperties, LenProperties DEF GuardTypeOK
  <2>2. CASE Len(h) > MaxHistory
    <3>1. history' = Newest(h, Keep)
      BY <1>2, <2>2 DEF Trim
    <3>2. Keep \in Nat /\ MaxHistory \in Nat /\ Keep <= MaxHistory
      BY GuardAssumption
    <3> HIDE DEF h
    <3>3. Newest(h, Keep) \in Seq(Decision) /\ Len(Newest(h, Keep)) = Keep
      BY <2>1, <2>2, <3>2, NewestProperties
    <3> QED
      BY <3>1, <3>2, <3>3
  <2>3. CASE ~(Len(h) > MaxHistory)
    BY <1>2, <2>1, <2>3, GuardAssumption DEF Trim
  <2> QED
    BY <2>2, <2>3
<1>5. Made' = Made \cup {d}
  BY <1>3 DEF Made
<1>6. ASSUME DecidedOnce PROVE DecidedOnce'
  <2>1. \A i \in 1..Len(decisions) : decisions[i].id # c
    BY <1>3, <1>6 DEF DecidedOnce
  <2>2. d.id = c
    BY DEF Ruling
  <2>3. ASSUME NEW i \in DOMAIN decisions', NEW j \in DOMAIN decisions',
               decisions'[i].id = decisions'[j].id
        PROVE  i = j
    BY <1>3, <1>6, <2>1, <2>2, <2>3 DEF DecidedOnce
  <2>4. ASSUME NEW i \in DOMAIN decisions' PROVE decisions'[i].id \notin pending'
    BY <1>2, <1>3, <1>6, <2>2 DEF DecidedOnce
  <2> QED
    BY <2>3, <2>4 DEF DecidedOnce
<1> QED
  BY <1>2, <1>3, <1>4, <1>5, <1>6
-----------------------------------------------------------------------------
\* Nobody has been called.
LEMMA GInvInit == GuardInit => GInv
<1> SUFFICES ASSUME GuardInit PROVE GInv
  OBVIOUS
<1>1. Made = {}
  BY DEF GuardInit, Made
<1>2. GuardTypeOK
  BY GuardAssumption, EmptySeq DEF GuardInit, GuardTypeOK
<1> QED
  BY <1>1, <1>2 DEF GuardInit, GInv, DecidedOnce, TimerStarted, ArmedHasTimer, PendingIsDenied,
     MadeWasPending, DecidersHold, TimersHold, TimersReject, AnswersAreMade,
     ClosedIsOver, ApprovedRuns

\* The steps of a call's goroutine before it decides anything.
LEMMA CallStep ==
    ASSUME GInv, NEW c \in Calls,
           Pass(c) \/ Deny(c) \/ StartTimer(c) \/ Insert(c) \/ Receive(c)
             \/ Run(c) \/ DecideNothing(c) \/ Cancel(c)
    PROVE  GInv'
<1>1. GuardTypeOK
  BY DEF GInv
<1>2. UNCHANGED <<target, verdict, closed, history, decisions>> /\ Made' = Made
  BY DEF Pass, Deny, StartTimer, Insert, Receive, Run, DecideNothing, Cancel, Made
<1>3. Made \subseteq Decision
  BY MadeTyped DEF GInv
<1>4. GuardTypeOK'
  <2>1. answer' \in [Calls -> Seq(BOOLEAN)] /\ \A a \in Calls : Len(answer'[a]) <= 1
    <3>1. CASE Receive(c)
      <4>1. answer[c] \in Seq(BOOLEAN) /\ answer[c] # <<>> /\ Len(answer[c]) <= 1
        BY <1>1, <3>1 DEF Receive, GuardTypeOK
      <4>2. Tail(answer[c]) \in Seq(BOOLEAN) /\ Len(Tail(answer[c])) = Len(answer[c]) - 1
        BY <4>1, HeadTailProperties
      <4>3. Len(answer[c]) \in Nat
        BY <4>1, LenProperties
      <4>4. Len(Tail(answer[c])) <= 1
        BY <4>1, <4>2, <4>3
      <4>5. answer' = [answer EXCEPT ![c] = Tail(answer[c])]
        BY <3>1 DEF Receive
      <4> QED
        BY <1>1, <4>2, <4>4, <4>5 DEF GuardTypeOK
    <3>2. CASE ~Receive(c)
      BY <1>1, <3>2 DEF Pass, Deny, StartTimer, Insert, Run, DecideNothing, Cancel,
         GuardTypeOK
    <3> QED
      BY <3>1, <3>2
  <2>2. /\ pc' \in [Calls -> Steps]
        /\ timer' \in [Calls -> TimerSteps]
        /\ pending' \subseteq Calls
    BY ZenonT(60), <1>1 DEF Pass, Deny, StartTimer, Insert, Receive, Run, DecideNothing,
       Cancel, GuardTypeOK
  <2> QED
    BY <1>1, <1>2, <2>1, <2>2 DEF GuardTypeOK
<1>5. /\ \A a \in Calls : a # c =>
            pc'[a] = pc[a] /\ timer'[a] = timer[a] /\ answer'[a] = answer[a]
      /\ pc[c] \notin {"signal", "closing"} /\ pc'[c] \notin {"signal", "closing"}
      /\ timer'[c] # timer[c] => pc[c] = "denied" /\ pc'[c] = "armed" /\ timer'[c] = "set"
      /\ pc'[c] \in {"idle", "denied"} => pc[c] = "idle"
      /\ pc'[c] = "armed" => pc[c] = "denied" /\ timer'[c] = "set"
      /\ pending' # pending =>
            pc[c] = "armed" /\ pending' = pending \cup {c} /\ pc'[c] \in {"waiting", "told"}
      /\ answer'[c] # answer[c] => pc[c] = "waiting"
  BY <1>1 DEF Pass, Deny, StartTimer, Insert, Receive, Run, DecideNothing, Cancel,
     GuardTypeOK
<1>6. DecidedOnce'
  BY <1>1, <1>2, <1>3, <1>5 DEF GInv, DecidedOnce, MadeWasPending, Made
<1>7. TimerStarted'
  BY <1>5 DEF GInv, TimerStarted
<1>8. PendingIsDenied'
  <2>1. \A a \in pending : a # c => pc'[a] = pc[a] /\ timer'[a] = timer[a]
    BY <1>1, <1>5 DEF GuardTypeOK
  <2>2. CASE c \in pending
    <3>1. pc[c] \in {"waiting", "told", "cancelled"} /\ timer[c] # "off"
      BY <2>2 DEF GInv, PendingIsDenied
    <3>2. ~Receive(c)
      BY <1>3, <2>2 DEF Receive, GInv, AnswersAreMade, MadeWasPending
    <3>3. pc'[c] \in {"waiting", "told", "cancelled"}
      BY <1>1, <3>1, <3>2 DEF Pass, Deny, StartTimer, Insert, Run, DecideNothing,
         Cancel, GuardTypeOK
    <3> QED
      BY <1>5, <2>1, <3>1, <3>3 DEF GInv, PendingIsDenied
  <2>3. CASE c \notin pending
    <3>1. CASE pending' = pending
      BY <2>1, <2>3, <3>1 DEF GInv, PendingIsDenied
    <3>2. CASE pending' # pending
      <4>1. Insert(c)
        BY <3>2 DEF Pass, Deny, StartTimer, Receive, Run, DecideNothing, Cancel
      <4>2. timer'[c] # "off" /\ timer' = timer
        BY <4>1 DEF Insert, GInv, ArmedHasTimer
      <4> QED
        BY <1>5, <2>1, <2>3, <3>2, <4>2 DEF GInv, PendingIsDenied
    <3> QED
      BY <3>1, <3>2
  <2> QED
    BY <2>2, <2>3
<1>9. ArmedHasTimer'
  BY <1>5 DEF GInv, ArmedHasTimer
<1>10. MadeWasPending'
  <2> SUFFICES ASSUME NEW d \in Made
               PROVE  d.id \notin pending' /\ pc'[d.id] \notin {"idle", "denied", "armed"}
    BY <1>2 DEF MadeWasPending
  <2>1. d.id \in Calls /\ d.id \notin pending /\ pc[d.id] \notin {"idle", "denied", "armed"}
    BY <1>3 DEF GInv, MadeWasPending, Decision
  <2> QED
    BY <1>5, <2>1
<1>11. DecidersHold'
  BY <1>2, <1>5 DEF GInv, DecidersHold
<1>12. TimersHold'
  BY <1>2, <1>5 DEF GInv, TimersHold
<1>13. TimersReject'
  BY <1>2 DEF GInv, TimersReject
<1>14. AnswersAreMade'
  <2> SUFFICES ASSUME NEW a \in Calls, answer'[a] # <<>>
               PROVE  /\ NoSender(a)'
                      /\ \E d \in Made : d.id = a /\ d.approved = Head(answer'[a])
    BY <1>2 DEF AnswersAreMade
  <2>1. answer'[a] = answer[a]
    <3>1. CASE Receive(c) /\ a = c
      <4>1. answer[c] \in Seq(BOOLEAN) /\ answer[c] # <<>> /\ Len(answer[c]) <= 1
        BY <1>1, <3>1 DEF Receive, GuardTypeOK
      <4>2. Tail(answer[c]) \in Seq(BOOLEAN) /\ Len(Tail(answer[c])) = Len(answer[c]) - 1
        BY <4>1, HeadTailProperties
      <4>3. Len(answer[c]) \in Nat /\ Len(Tail(answer[c])) \in Nat
        BY <4>1, <4>2, LenProperties
      <4>4. Tail(answer[c]) = <<>>
        BY <4>1, <4>2, <4>3, EmptySeq, LenProperties
      <4> QED
        BY <1>1, <3>1, <4>4 DEF Receive, GuardTypeOK
    <3>2. CASE ~(Receive(c) /\ a = c)
      BY <1>5, <3>2 DEF Pass, Deny, StartTimer, Insert, Run, DecideNothing, Cancel
    <3> QED
      BY <3>1, <3>2
  <2>2. NoSender(a) /\ \E d \in Made : d.id = a /\ d.approved = Head(answer[a])
    BY <2>1 DEF GInv, AnswersAreMade
  <2> QED
    BY <1>2, <1>5, <2>1, <2>2 DEF NoSender
<1>15. ClosedIsOver'
  <2> SUFFICES ASSUME NEW a \in closed
               PROVE  NoHolder(a)' /\ \E d \in Made : d.id = a
    BY <1>2 DEF ClosedIsOver
  <2>1. a \in Calls /\ NoHolder(a) /\ \E d \in Made : d.id = a
    BY <1>1 DEF GInv, ClosedIsOver, GuardTypeOK
  <2> QED
    BY <1>2, <1>5, <2>1 DEF NoHolder
<1>16. ApprovedRuns'
  <2> SUFFICES ASSUME NEW a \in Calls, timer'[a] # "off",
                      pc'[a] \in {"run", "signal", "closing", "done"}
               PROVE  \E d \in Made : d.id = a /\ d.approved
    BY <1>2 DEF ApprovedRuns
  <2>1. CASE a # c
    BY <1>5, <2>1 DEF GInv, ApprovedRuns
  <2>2. CASE a = c /\ Receive(c)
    BY <1>1, <2>2 DEF Receive, GInv, AnswersAreMade, GuardTypeOK
  <2>3. CASE a = c /\ ~Receive(c)
    <3>1. pc[c] \in {"idle", "run"} /\ timer'[c] = timer[c]
      BY <1>1, <2>3 DEF Pass, Deny, StartTimer, Insert, Run, DecideNothing, Cancel,
         GuardTypeOK
    <3> QED
      BY <2>3, <3>1 DEF GInv, TimerStarted, ApprovedRuns
  <2> QED
    BY <2>1, <2>2, <2>3
<1> QED
  BY <1>4, <1>6, <1>7, <1>8, <1>9, <1>10, <1>11, <1>12, <1>13, <1>14, <1>15, <1>16
     DEF GInv

\* A decision is taken, by a governance call or by a timer that finds the action
\* pending: whoever takes it is the only one to hold it.
LEMMA SettleStep ==
    ASSUME GInv, NEW c \in pending, NEW approved \in BOOLEAN,
           NEW by \in Calls \cup {Timer}, Settle(c, approved, by),
           by \in Calls =>
              /\ pc[by] = "run"
              /\ timer' = [timer EXCEPT ![c] = "over"]
              /\ target' = [target EXCEPT ![by] = c]
              /\ verdict' = [verdict EXCEPT ![by] = approved]
              /\ pc' = [pc EXCEPT ![by] = "signal"],
           by = Timer =>
              /\ approved = FALSE
              /\ timer[c] = "set"
              /\ timer' = [timer EXCEPT ![c] = "signal"]
              /\ UNCHANGED <<pc, target, verdict>>,
           UNCHANGED <<answer, closed>>
    PROVE  GInv'
<1> DEFINE d == Ruling(c, approved, by)
<1>1. GuardTypeOK /\ DecidedOnce /\ Timer \notin Calls /\ c \in Calls
  BY GuardAssumption DEF GInv, GuardTypeOK
<1>2. /\ history' \in Seq(Decision) /\ Len(history') <= MaxHistory
      /\ decisions' \in Seq(Decision)
      /\ Made' = Made \cup {d}
      /\ pending' = pending \ {c}
      /\ DecidedOnce'
  BY <1>1, SettleMakes
<1>3. Made \subseteq Decision /\ Unique
  BY <1>1, MadeTyped
<1>4. d.id = c /\ d.approved = approved /\ d.by = by
  BY DEF Ruling
<1>5. pc[c] \in {"waiting", "told", "cancelled"} /\ timer[c] # "off"
  BY DEF GInv, PendingIsDenied
<1>6. \A e \in Made : e.id # c /\ e.id \in Calls
  BY <1>3 DEF GInv, MadeWasPending, Decision
<1>7. NoHolder(c) /\ answer[c] = <<>> /\ c \notin closed
  <2>1. timer[c] \notin {"signal", "closing"}
    BY <1>1, <1>6 DEF GInv, TimersHold, Ruling
  <2>2. \A g \in Calls : ~(pc[g] \in {"signal", "closing"} /\ target[g] = c)
    BY <1>6 DEF GInv, DecidersHold, Ruling
  <2>3. answer[c] = <<>> /\ c \notin closed
    BY <1>1, <1>6 DEF GInv, AnswersAreMade, ClosedIsOver
  <2> QED
    BY <2>1, <2>2, <2>3 DEF NoHolder
<1>8. /\ \A a \in Calls : a # c => timer'[a] = timer[a]
      /\ timer'[c] \in {"over", "signal"} /\ (timer'[c] = "signal" => by = Timer)
      /\ \A a \in Calls : a # by =>
            pc'[a] = pc[a] /\ target'[a] = target[a] /\ verdict'[a] = verdict[a]
      /\ by \in Calls => pc[by] = "run" /\ pc'[by] = "signal"
            /\ target'[by] = c /\ verdict'[by] = approved
      /\ timer'[c] = "signal" => approved = FALSE
      /\ pc'[c] = pc[c]
  BY <1>1, <1>5 DEF GuardTypeOK
<1>9. GuardTypeOK'
  <2>1. /\ pc' \in [Calls -> Steps] /\ timer' \in [Calls -> TimerSteps]
        /\ target' \in [Calls -> Calls] /\ verdict' \in [Calls -> BOOLEAN]
    <3>1. CASE by \in Calls
      <4>1. /\ timer' = [timer EXCEPT ![c] = "over"]
            /\ target' = [target EXCEPT ![by] = c]
            /\ verdict' = [verdict EXCEPT ![by] = approved]
            /\ pc' = [pc EXCEPT ![by] = "signal"]
        BY <3>1
      <4>2. /\ pc \in [Calls -> Steps] /\ timer \in [Calls -> TimerSteps]
            /\ target \in [Calls -> Calls] /\ verdict \in [Calls -> BOOLEAN]
        BY <1>1 DEF GuardTypeOK
      <4>3. pc' \in [Calls -> Steps] /\ timer' \in [Calls -> TimerSteps]
        BY <4>1, <4>2
      <4>4. target' \in [Calls -> Calls]
        BY <1>1, <4>1, <4>2
      <4>5. verdict' \in [Calls -> BOOLEAN]
        BY <4>1, <4>2, Zenon
      <4> QED
        BY <4>3, <4>4, <4>5
    <3>2. CASE by = Timer
      BY <1>1, <3>2 DEF GuardTypeOK
    <3> QED
      BY <3>1, <3>2
  <2>2. /\ pending' \subseteq Calls /\ closed' \subseteq Calls
        /\ answer' \in [Calls -> Seq(BOOLEAN)] /\ \A a \in Calls : Len(answer'[a]) <= 1
    BY <1>1, <1>2 DEF GuardTypeOK
  <2> QED
    BY <1>2, <2>1, <2>2 DEF GuardTypeOK
<1>10. TimerStarted'
  BY <1>1, <1>5, <1>8 DEF GInv, TimerStarted
<1>11. ArmedHasTimer'
  BY <1>1, <1>5, <1>8 DEF GInv, ArmedHasTimer
<1>12. PendingIsDenied'
  <2> SUFFICES ASSUME NEW a \in pending, a # c
               PROVE  pc'[a] \in {"waiting", "told", "cancelled"} /\ timer'[a] # "off"
    BY <1>2 DEF PendingIsDenied
  <2>1. a \in Calls /\ pc[a] \in {"waiting", "told", "cancelled"} /\ timer[a] # "off"
    BY <1>1 DEF GInv, PendingIsDenied, GuardTypeOK
  <2>2. a # by
    BY <1>8, <2>1
  <2> QED
    BY <1>8, <2>1, <2>2
<1>13. MadeWasPending'
  <2> SUFFICES ASSUME NEW e \in Made \cup {d}
               PROVE  e.id \notin pending' /\ pc'[e.id] \notin {"idle", "denied", "armed"}
    BY <1>2 DEF MadeWasPending
  <2>1. CASE e = d
    BY <1>2, <1>4, <1>5, <1>8, <2>1
  <2>2. CASE e \in Made
    <3>1. e.id \in Calls /\ e.id \notin pending /\ pc[e.id] \notin {"idle", "denied", "armed"}
      BY <1>6, <2>2 DEF GInv, MadeWasPending
    <3> QED
      BY <1>2, <1>8, <3>1
  <2> QED
    BY <2>1, <2>2
<1>14. DecidersHold'
  <2> SUFFICES ASSUME NEW g \in Calls, pc'[g] \in {"signal", "closing"}
               PROVE  Ruling(target'[g], verdict'[g], g) \in Made \cup {d}
    BY <1>2 DEF DecidersHold, Ruling
  <2>1. CASE g = by
    BY <1>8, <2>1 DEF Ruling
  <2>2. CASE g # by
    BY <1>8, <2>2 DEF GInv, DecidersHold
  <2> QED
    BY <2>1, <2>2
<1>15. TimersHold'
  <2> SUFFICES ASSUME NEW a \in Calls, timer'[a] \in {"signal", "closing"}
               PROVE  Ruling(a, FALSE, Timer) \in Made \cup {d}
    BY <1>2 DEF TimersHold, Ruling
  <2>1. CASE a = c
    BY <1>8, <2>1
  <2>2. CASE a # c
    BY <1>8, <2>2 DEF GInv, TimersHold
  <2> QED
    BY <2>1, <2>2
<1>16. TimersReject'
  BY <1>1, <1>2, <1>4 DEF GInv, TimersReject
<1>17. AnswersAreMade'
  <2> SUFFICES ASSUME NEW a \in Calls, answer[a] # <<>>
               PROVE  /\ NoSender(a)'
                      /\ \E e \in Made : e.id = a /\ e.approved = Head(answer[a])
    BY <1>2 DEF AnswersAreMade
  <2>1. NoSender(a) /\ \E e \in Made : e.id = a /\ e.approved = Head(answer[a])
    BY DEF GInv, AnswersAreMade
  <2>2. a # c
    BY <1>7
  <2> QED
    BY <1>8, <2>1, <2>2 DEF NoSender
<1>18. ClosedIsOver'
  <2> SUFFICES ASSUME NEW a \in closed
               PROVE  NoHolder(a)' /\ \E e \in Made : e.id = a
    BY <1>2 DEF ClosedIsOver
  <2>1. a \in Calls /\ NoHolder(a) /\ (\E e \in Made : e.id = a) /\ a # c
    BY <1>1, <1>7 DEF GInv, ClosedIsOver, GuardTypeOK
  <2> QED
    BY <1>8, <2>1 DEF NoHolder
<1>19. ApprovedRuns'
  <2> SUFFICES ASSUME NEW a \in Calls, timer'[a] # "off",
                      pc'[a] \in {"run", "signal", "closing", "done"}
               PROVE  \E e \in Made : e.id = a /\ e.approved
    BY <1>2 DEF ApprovedRuns
  <2>1. a # c
    BY <1>5, <1>8
  <2>2. pc[a] \in {"run", "signal", "closing", "done"} /\ timer[a] # "off"
    BY <1>8, <2>1
  <2> QED
    BY <2>2 DEF GInv, ApprovedRuns
<1> QED
  BY <1>2, <1>9, <1>10, <1>11, <1>12, <1>13, <1>14, <1>15, <1>16, <1>17, <1>18, <1>19
     DEF GInv

\* The holder of the decision about c sends it, and closes the channel.
LEMMA SignalStep ==
    ASSUME GInv, NEW c \in Calls, NEW by \in Calls \cup {Timer},
           NEW approved \in BOOLEAN, answer[c] = <<>>,
           answer' = [answer EXCEPT ![c] = <<approved>>],
           UNCHANGED <<target, verdict, pending, closed, history, decisions>>,
           by \in Calls =>
              /\ pc[by] = "signal" /\ target[by] = c /\ verdict[by] = approved
              /\ pc' = [pc EXCEPT ![by] = "closing"] /\ timer' = timer,
           by = Timer =>
              /\ timer[c] = "signal" /\ approved = FALSE
              /\ timer' = [timer EXCEPT ![c] = "closing"] /\ pc' = pc
    PROVE  GInv'
<1>1. GuardTypeOK /\ Timer \notin Calls
  BY GuardAssumption DEF GInv, GuardTypeOK
<1>2. Made' = Made /\ Made \subseteq Decision /\ Unique
  BY MadeTyped DEF GInv, Made
<1>3. Ruling(c, approved, by) \in Made
  BY <1>1 DEF GInv, DecidersHold, TimersHold
<1>4. /\ \A g \in Calls : pc[g] \in {"signal", "closing"} /\ target[g] = c => g = by
      /\ timer[c] \in {"signal", "closing"} => by = Timer
  BY <1>2, <1>3 DEF GInv, DecidersHold, TimersHold, Ruling, Unique
<1>5. c \notin closed
  BY <1>1 DEF GInv, ClosedIsOver, NoHolder
<1>6. /\ \A a \in Calls : a # c => timer'[a] = timer[a] /\ answer'[a] = answer[a]
      /\ timer'[c] # timer[c] => by = Timer /\ timer[c] = "signal" /\ timer'[c] = "closing"
      /\ \A g \in Calls : g # by => pc'[g] = pc[g]
      /\ by \in Calls => pc[by] = "signal" /\ pc'[by] = "closing"
      /\ by = Timer => timer'[c] = "closing"
      /\ target' = target /\ verdict' = verdict /\ pending' = pending
      /\ answer'[c] = <<approved>>
  BY <1>1 DEF GuardTypeOK
<1>7. GuardTypeOK'
  <2>1. Len(<<approved>>) <= 1 /\ <<approved>> \in Seq(BOOLEAN)
    OBVIOUS
  <2>2. CASE by \in Calls
    BY ZenonT(60), <1>1, <2>1, <2>2 DEF GuardTypeOK
  <2>3. CASE by = Timer
    BY <1>1, <2>1, <2>3 DEF GuardTypeOK
  <2> QED
    BY <2>2, <2>3
<1>8. DecidedOnce'
  BY DEF GInv, DecidedOnce
<1>9. TimerStarted' /\ ArmedHasTimer'
  BY <1>1, <1>6 DEF GInv, TimerStarted, ArmedHasTimer
<1>10. PendingIsDenied'
  BY <1>1, <1>6 DEF GInv, PendingIsDenied, GuardTypeOK
<1>11. MadeWasPending'
  BY <1>1, <1>2, <1>6 DEF GInv, MadeWasPending, Decision
<1>12. DecidersHold'
  BY <1>1, <1>2, <1>6 DEF GInv, DecidersHold
<1>13. TimersHold' /\ TimersReject'
  BY <1>2, <1>6 DEF GInv, TimersHold, TimersReject
<1>14. AnswersAreMade'
  <2> SUFFICES ASSUME NEW a \in Calls, answer'[a] # <<>>
               PROVE  /\ NoSender(a)'
                      /\ \E e \in Made : e.id = a /\ e.approved = Head(answer'[a])
    BY <1>2 DEF AnswersAreMade
  <2>1. CASE a = c
    <3>1. NoSender(a)'
      BY <1>1, <1>4, <1>6, <2>1 DEF NoSender
    <3>2. Head(answer'[a]) = approved
      BY <1>6, <2>1
    <3> QED
      BY <1>3, <2>1, <3>1, <3>2 DEF Ruling
  <2>2. CASE a # c
    BY <1>6, <2>2 DEF GInv, AnswersAreMade, NoSender
  <2> QED
    BY <2>1, <2>2
<1>15. ClosedIsOver'
  <2> SUFFICES ASSUME NEW a \in closed
               PROVE  NoHolder(a)' /\ \E e \in Made : e.id = a
    BY <1>2 DEF ClosedIsOver
  <2>1. a \in Calls /\ NoHolder(a) /\ (\E e \in Made : e.id = a) /\ a # c
    BY <1>1, <1>5 DEF GInv, ClosedIsOver, GuardTypeOK
  <2> QED
    BY <1>6, <2>1 DEF NoHolder
<1>16. ApprovedRuns'
  BY <1>1, <1>2, <1>6 DEF GInv, ApprovedRuns
<1> QED
  BY <1>7, <1>8, <1>9, <1>10, <1>11, <1>12, <1>13, <1>14, <1>15, <1>16 DEF GInv

LEMMA CloseStep ==
    ASSUME GInv, NEW c \in Calls, NEW by \in Calls \cup {Timer},
           closed' = closed \cup {c},
           UNCHANGED <<target, verdict, pending, answer, history, decisions>>,
           by \in Calls =>
              /\ pc[by] = "closing" /\ target[by] = c
              /\ pc' = [pc EXCEPT ![by] = "done"] /\ timer' = timer,
           by = Timer =>
              /\ timer[c] = "closing"
              /\ timer' = [timer EXCEPT ![c] = "over"] /\ pc' = pc
    PROVE  GInv'
<1>1. GuardTypeOK /\ Timer \notin Calls
  BY GuardAssumption DEF GInv, GuardTypeOK
<1>2. Made' = Made /\ Made \subseteq Decision /\ Unique
  BY MadeTyped DEF GInv, Made
<1>3. \E d \in Made : d.id = c /\ d.by = by
  BY <1>1 DEF GInv, DecidersHold, TimersHold, Ruling
<1>4. /\ \A g \in Calls : pc[g] \in {"signal", "closing"} /\ target[g] = c => g = by
      /\ timer[c] \in {"signal", "closing"} => by = Timer
  <2>1. \A d \in Made : d.id = c => d.by = by
    BY <1>2, <1>3 DEF Unique
  <2>2. ASSUME NEW g \in Calls, pc[g] \in {"signal", "closing"}, target[g] = c
        PROVE  g = by
    <3>1. Ruling(c, verdict[g], g) \in Made
      BY <2>2 DEF GInv, DecidersHold
    <3> QED
      BY <2>1, <3>1 DEF Ruling
  <2>3. ASSUME timer[c] \in {"signal", "closing"} PROVE by = Timer
    <3>1. Ruling(c, FALSE, Timer) \in Made
      BY <2>3 DEF GInv, TimersHold
    <3> QED
      BY <2>1, <3>1 DEF Ruling
  <2> QED
    BY <2>2, <2>3
<1>5. /\ \A a \in Calls : a # c => timer'[a] = timer[a]
      /\ timer'[c] # timer[c] => by = Timer /\ timer[c] = "closing" /\ timer'[c] = "over"
      /\ \A g \in Calls : g # by => pc'[g] = pc[g]
      /\ by \in Calls => pc[by] = "closing" /\ pc'[by] = "done"
      /\ by = Timer => timer'[c] = "over"
      /\ target' = target /\ verdict' = verdict /\ pending' = pending /\ answer' = answer
  BY <1>1 DEF GuardTypeOK
<1>6. GuardTypeOK'
  BY <1>1 DEF GuardTypeOK
<1>7. DecidedOnce'
  BY DEF GInv, DecidedOnce
<1>8. TimerStarted' /\ ArmedHasTimer'
  BY <1>1, <1>5 DEF GInv, TimerStarted, ArmedHasTimer
<1>9. PendingIsDenied'
  BY <1>1, <1>5 DEF GInv, PendingIsDenied, GuardTypeOK
<1>10. MadeWasPending'
  BY <1>1, <1>2, <1>5 DEF GInv, MadeWasPending, Decision
<1>11. DecidersHold'
  BY <1>1, <1>2, <1>5 DEF GInv, DecidersHold
<1>12. TimersHold' /\ TimersReject'
  BY <1>2, <1>5 DEF GInv, TimersHold, TimersReject
<1>13. AnswersAreMade'
  BY <1>1, <1>2, <1>5 DEF GInv, AnswersAreMade, NoSender
<1>14. ClosedIsOver'
  <2> SUFFICES ASSUME NEW a \in closed \cup {c}
               PROVE  NoHolder(a)' /\ \E e \in Made : e.id = a
    BY <1>2 DEF ClosedIsOver
  <2>1. CASE a = c
    BY <1>1, <1>3, <1>4, <1>5, <2>1 DEF NoHolder
  <2>2. CASE a # c
    <3>1. a \in Calls /\ NoHolder(a) /\ \E e \in Made : e.id = a
      BY <1>1, <2>2 DEF GInv, ClosedIsOver, GuardTypeOK
    <3> QED
      BY <1>5, <2>2, <3>1 DEF NoHolder
  <2> QED
    BY <2>1, <2>2
<1>15. ApprovedRuns'
  BY <1>1, <1>2, <1>5 DEF GInv, ApprovedRuns
<1> QED
  BY <1>6, <1>7, <1>8, <1>9, <1>10, <1>11, <1>12, <1>13, <1>14, <1>15 DEF GInv

\* A timer that fires before its action is pending is spent.
LEMMA SpentStep ==
    ASSUME GInv, NEW c \in Calls, timer[c] = "set",
           timer' = [timer EXCEPT ![c] = "over"],
           UNCHANGED <<pc, target, verdict, pending, answer, closed, history, decisions>>
    PROVE  GInv'
<1>1. GuardTypeOK
  BY DEF GInv
<1>2. Made' = Made /\ Made \subseteq Decision
  BY MadeTyped DEF GInv, Made
<1>3. \A a \in Calls : timer'[a] = timer[a] \/ (timer[a] = "set" /\ timer'[a] = "over")
  BY <1>1 DEF GuardTypeOK
<1>4. GuardTypeOK' /\ DecidedOnce'
  BY <1>1 DEF GInv, GuardTypeOK, DecidedOnce
<1>5. TimerStarted' /\ ArmedHasTimer' /\ PendingIsDenied'
  BY <1>1, <1>3 DEF GInv, TimerStarted, ArmedHasTimer, PendingIsDenied, GuardTypeOK
<1>6. MadeWasPending' /\ DecidersHold' /\ TimersHold' /\ TimersReject'
  BY <1>2, <1>3 DEF GInv, MadeWasPending, DecidersHold, TimersHold, TimersReject
<1>7. AnswersAreMade' /\ ApprovedRuns'
  BY <1>2, <1>3 DEF GInv, AnswersAreMade, NoSender, ApprovedRuns
<1>8. ClosedIsOver'
  BY <1>1, <1>2, <1>3 DEF GInv, ClosedIsOver, NoHolder, GuardTypeOK
<1> QED
  BY <1>4, <1>5, <1>6, <1>7, <1>8 DEF GInv
-----------------------------------------------------------------------------
\* Every step of the gate preserves the invariant.
LEMMA GInvStep == GInv /\ [GuardNext]_guardVars => GInv'
<1> SUFFICES ASSUME GInv, [GuardNext]_guardVars PROVE GInv'
  OBVIOUS
<1>1. GuardTypeOK /\ Timer \notin Calls
  BY GuardAssumption DEF GInv, GuardTypeOK
<1>2. ASSUME NEW c \in Calls, Pass(c) \/ Deny(c) \/ StartTimer(c) \/ Insert(c)
             \/ Receive(c) \/ Run(c) \/ DecideNothing(c) \/ Cancel(c)
      PROVE  GInv'
  BY <1>2, CallStep
<1>3. ASSUME NEW g \in Calls, NEW c \in Calls, NEW approved \in BOOLEAN,
             Decide(g, c, approved)
      PROVE  GInv'
  BY <1>1, <1>3, SettleStep DEF Decide
<1>4. ASSUME NEW g \in Calls, Signal(g) PROVE GInv'
  <2>1. target[g] \in Calls /\ verdict[g] \in BOOLEAN
    BY <1>1 DEF GuardTypeOK
  <2> QED
    BY <1>1, <1>4, <2>1, SignalStep DEF Signal
<1>5. ASSUME NEW g \in Calls, CloseChannel(g) PROVE GInv'
  <2>1. target[g] \in Calls
    BY <1>1 DEF GuardTypeOK
  <2> QED
    BY <1>1, <1>5, <2>1, CloseStep DEF CloseChannel
<1>6. ASSUME NEW c \in Calls, Timeout(c) PROVE GInv'
  <2>1. CASE c \in pending
    BY <1>1, <1>6, <2>1, SettleStep DEF Timeout
  <2>2. CASE c \notin pending
    BY <1>6, <2>2, SpentStep DEF Timeout
  <2> QED
    BY <2>1, <2>2
<1>7. ASSUME NEW c \in Calls, TimeoutSignal(c) PROVE GInv'
  BY <1>1, <1>7, SignalStep DEF TimeoutSignal
<1>8. ASSUME NEW c \in Calls, TimeoutClose(c) PROVE GInv'
  BY <1>1, <1>8, CloseStep DEF TimeoutClose
<1>9. CASE UNCHANGED guardVars
  <2> USE <1>9 DEF guardVars
  <2>1. Made' = Made
    BY DEF Made
  <2>2. GuardTypeOK' /\ DecidedOnce' /\ TimerStarted' /\ ArmedHasTimer' /\ PendingIsDenied'
    BY DEF GInv, GuardTypeOK, DecidedOnce, TimerStarted, ArmedHasTimer, PendingIsDenied
  <2>3. MadeWasPending' /\ DecidersHold' /\ TimersHold' /\ TimersReject'
    BY <2>1 DEF GInv, MadeWasPending, DecidersHold, TimersHold, TimersReject
  <2>4. AnswersAreMade' /\ ClosedIsOver' /\ ApprovedRuns'
    BY <2>1 DEF GInv, AnswersAreMade, NoSender, ClosedIsOver, NoHolder, ApprovedRuns
  <2> QED
    BY <2>2, <2>3, <2>4 DEF GInv
<1> QED
  BY <1>2, <1>3, <1>4, <1>5, <1>6, <1>7, <1>8, <1>9 DEF GuardNext, Proceed, Expire

\* What the invariant says of the properties.
LEMMA GInvImplies == GInv => RunsOnlyApproved /\ ChannelUsedOnce
<1> SUFFICES ASSUME GInv PROVE RunsOnlyApproved /\ ChannelUsedOnce
  OBVIOUS
<1>1. GuardTypeOK
  BY DEF GInv
<1>2. RunsOnlyApproved
  BY DEF GInv, RunsOnlyApproved, ApprovedRuns, TimersReject, Made
<1>3. ASSUME NEW g \in Calls, pc[g] = "signal"
      PROVE  answer[target[g]] = <<>> /\ target[g] \notin closed
  BY <1>1, <1>3 DEF GInv, AnswersAreMade, NoSender, ClosedIsOver, NoHolder, GuardTypeOK
<1>4. ASSUME NEW g \in Calls, pc[g] = "closing" PROVE target[g] \notin closed
  BY <1>4 DEF GInv, ClosedIsOver, NoHolder
<1>5. ASSUME NEW c \in Calls, timer[c] = "signal"
      PROVE  answer[c] = <<>> /\ c \notin closed
  BY <1>5 DEF GInv, AnswersAreMade, NoSender, ClosedIsOver, NoHolder
<1>6. ASSUME NEW c \in Calls, timer[c] = "closing" PROVE c \notin closed
  BY <1>6 DEF GInv, ClosedIsOver, NoHolder
<1> QED
  BY <1>2, <1>3, <1>4, <1>5, <1>6 DEF ChannelUsedOnce

LEMMA GuardInvariant == GuardSpec => []GInv
<1>1. GuardInit => GInv
  BY GInvInit
<1>2. GInv /\ [GuardNext]_guardVars => GInv'
  BY GInvStep
<1> QED
  BY <1>1, <1>2, PTL DEF GuardSpec

\* Every variable of the gate keeps its shape and history its limit, for every
\* number of calls and every size of the history.
THEOREM GuardTypeCorrect == GuardSpec => []GuardTypeOK
<1>1. GInv => GuardTypeOK
  BY DEF GInv
<1> QED
  BY <1>1, GuardInvariant, PTL

\* However approvals, rejections, timeouts and cancellations race, an action is
\* decided at most once.
THEOREM GuardDecidesOnce == GuardSpec => []DecidedOnce
<1>1. GInv => DecidedOnce
  BY DEF GInv
<1> QED
  BY <1>1, GuardInvariant, PTL

\* A call that a guard denied runs only when a governance call approved it.
THEOREM GuardedRunsAreApproved == GuardSpec => []RunsOnlyApproved
<1>1. GInv => RunsOnlyApproved
  BY GInvImplies
<1> QED
  BY <1>1, GuardInvariant, PTL

\* No decider and no timer blocks on, or panics over, a channel.
THEOREM GuardChannelsUsedOnce == GuardSpec => []ChannelUsedOnce
<1>1. GInv => ChannelUsedOnce
  BY GInvImplies
<1> QED
  BY <1>1, GuardInvariant, PTL
-----------------------------------------------------------------------------
\* A sequence that agrees with the end of another one is its newest part.
LEMMA NewestIs ==
    ASSUME NEW S, NEW h \in Seq(S), NEW s \in Seq(S), NEW n \in Nat,
           Len(s) = n, Len(h) <= n, \A i \in 1 .. Len(h) : h[i] = s[n - Len(h) + i]
    PROVE  h = Newest(s, Len(h))
<1>1. Len(h) \in Nat /\ Len(s) \in Nat
  BY LenProperties
<1>2. /\ Newest(s, Len(h)) \in Seq(S)
      /\ Len(Newest(s, Len(h))) = IF Len(s) > Len(h) THEN Len(h) ELSE Len(s)
      /\ \A i \in 1 .. Len(Newest(s, Len(h))) :
            Newest(s, Len(h))[i] = s[(IF Len(s) > Len(h) THEN Len(s) - Len(h) ELSE 0) + i]
  BY <1>1, NewestProperties
<1>3. /\ (IF Len(s) > Len(h) THEN Len(s) - Len(h) ELSE 0) = n - Len(h)
      /\ Len(Newest(s, Len(h))) = Len(h)
  BY <1>1, <1>2
<1>4. \A i \in 1 .. Len(h) : h[i] = Newest(s, Len(h))[i]
  BY <1>2, <1>3
<1> QED BY <1>2, <1>3, <1>4, SeqEqual

\* ... and the other way round.
LEMMA NewestAgrees ==
    ASSUME NEW S, NEW h \in Seq(S), NEW s \in Seq(S), h = Newest(s, Len(h))
    PROVE  /\ Len(h) <= Len(s)
           /\ \A i \in 1 .. Len(h) : h[i] = s[Len(s) - Len(h) + i]
<1>1. Len(h) \in Nat /\ Len(s) \in Nat
  BY LenProperties
<1>2. /\ Len(Newest(s, Len(h))) = IF Len(s) > Len(h) THEN Len(h) ELSE Len(s)
      /\ \A i \in 1 .. Len(Newest(s, Len(h))) :
            Newest(s, Len(h))[i] = s[(IF Len(s) > Len(h) THEN Len(s) - Len(h) ELSE 0) + i]
  BY <1>1, NewestProperties
<1> DEFINE n == Newest(s, Len(h))
<1>3. Len(n) = Len(h)
  BY Zenon
<1>4. Len(h) <= Len(s)
  BY <1>1, <1>2, <1>3
<1>5. (IF Len(s) > Len(h) THEN Len(s) - Len(h) ELSE 0) = Len(s) - Len(h)
  BY <1>1, <1>4
<1>6. \A i \in 1 .. Len(h) : n[i] = s[Len(s) - Len(h) + i]
  BY <1>2, <1>3, <1>5
<1> HIDE DEF n
<1>7. h = n
  BY Zenon DEF n
<1> QED BY <1>4, <1>6, <1>7

\* A decision that is taken leaves history with the newest of them.
LEMMA SettleKeepsRecent ==
    ASSUME GuardTypeOK, HistoryIsRecent, NEW c \in Calls, NEW approved \in BOOLEAN,
           NEW by \in Calls \cup {Timer}, Settle(c, approved, by)
    PROVE  HistoryIsRecent'
<1> DEFINE d == Ruling(c, approved, by)
           h == Append(history, d)
           n == Len(history)
           m == Len(decisions)
<1>1. d \in Decision
  BY DEF Ruling, Decision
<1>2. decisions' = Append(decisions, d) /\ history' = Trim(h)
  BY DEF Settle, Ruling
<1>3. history \in Seq(Decision) /\ decisions \in Seq(Decision) /\ n \in Nat /\ m \in Nat
  BY LenProperties DEF GuardTypeOK
<1>4. /\ n <= m /\ \A i \in 1 .. n : history[i] = decisions[m - n + i]
      /\ n >= IF m < Keep THEN m ELSE Keep
  BY <1>3, NewestAgrees DEF HistoryIsRecent
<1>5. /\ decisions' \in Seq(Decision) /\ Len(decisions') = m + 1
      /\ \A i \in 1 .. m : decisions'[i] = decisions[i]
      /\ decisions'[m + 1] = d
  BY <1>1, <1>2, <1>3, AppendProperties
<1>6. /\ h \in Seq(Decision) /\ Len(h) = n + 1
      /\ \A i \in 1 .. n : h[i] = history[i]
      /\ h[n + 1] = d
  BY <1>1, <1>3, AppendProperties
<1> HIDE DEF d, h, n, m
<1>7. ASSUME NEW i \in 1 .. (n + 1) PROVE h[i] = decisions'[m - n + i]
  <2>1. CASE i = n + 1
    <3>1. m - n + i = m + 1
      BY <1>3, <2>1
    <3> QED BY <1>5, <1>6, <2>1, <3>1
  <2>2. CASE i \in 1 .. n
    <3>1. m - n + i \in 1 .. m
      BY <1>3, <1>4, <2>2
    <3> QED BY <1>4, <1>5, <1>6, <2>2, <3>1
  <2> QED BY <1>3, <2>1, <2>2
<1>8. Keep \in Nat /\ MaxHistory \in Nat /\ Keep <= MaxHistory
  BY GuardAssumption
<1>9. /\ history' \in Seq(Decision) /\ Len(history') <= m + 1
      /\ Len(history') >= IF m + 1 < Keep THEN m + 1 ELSE Keep
      /\ \A i \in 1 .. Len(history') : history'[i] = decisions'[m + 1 - Len(history') + i]
  <2>1. CASE n + 1 > MaxHistory
    <3>1. history' = Newest(h, Keep)
      BY <1>2, <1>6, <2>1 DEF Trim
    <3>2. /\ Newest(h, Keep) \in Seq(Decision) /\ Len(Newest(h, Keep)) = Keep
          /\ \A i \in 1 .. Keep : Newest(h, Keep)[i] = h[n + 1 - Keep + i]
      <4>1. Len(h) > Keep /\ Len(h) - Keep = n + 1 - Keep
        BY <1>3, <1>6, <1>8, <2>1
      <4>2. /\ Newest(h, Keep) \in Seq(Decision)
            /\ Len(Newest(h, Keep)) = IF Len(h) > Keep THEN Keep ELSE Len(h)
            /\ \A i \in 1 .. Len(Newest(h, Keep)) :
                  Newest(h, Keep)[i] = h[(IF Len(h) > Keep THEN Len(h) - Keep ELSE 0) + i]
        BY <1>6, <1>8, NewestProperties
      <4> QED BY <4>1, <4>2
    <3>3. \A i \in 1 .. Keep : n + 1 - Keep + i \in 1 .. (n + 1)
                               /\ m - n + (n + 1 - Keep + i) = m + 1 - Keep + i
      BY <1>3, <1>8, <2>1
    <3>4. \A i \in 1 .. Keep : h[n + 1 - Keep + i] = decisions'[m + 1 - Keep + i]
      BY <1>7, <3>3
    <3>5. Len(history') = Keep /\ history' \in Seq(Decision)
      BY <3>1, <3>2
    <3>6. \A i \in 1 .. Len(history') : history'[i] = decisions'[m + 1 - Len(history') + i]
      BY <3>1, <3>2, <3>4, <3>5
    <3>7. Keep <= m + 1 /\ Keep >= IF m + 1 < Keep THEN m + 1 ELSE Keep
      BY <1>3, <1>4, <1>8, <2>1
    <3> QED BY <3>5, <3>6, <3>7
  <2>2. CASE ~(n + 1 > MaxHistory)
    <3>1. history' = h
      BY <1>2, <1>6, <2>2 DEF Trim
    <3>2. \A i \in 1 .. (n + 1) : m + 1 - (n + 1) + i = m - n + i
      BY <1>3
    <3>3. Len(history') = n + 1 /\ history' \in Seq(Decision)
      BY <1>6, <3>1
    <3>4. \A i \in 1 .. Len(history') : history'[i] = decisions'[m + 1 - Len(history') + i]
      BY <1>7, <3>1, <3>2, <3>3
    <3>5. n + 1 <= m + 1 /\ n + 1 >= IF m + 1 < Keep THEN m + 1 ELSE Keep
      BY <1>3, <1>4, <1>8
    <3> QED BY <3>3, <3>4, <3>5
  <2> QED BY <2>1, <2>2
<1>10. history' = Newest(decisions', Len(history'))
  <2> DEFINE end == decisions'
             kept == history'
             k == m + 1
  <2>1. /\ k \in Nat /\ end \in Seq(Decision) /\ kept \in Seq(Decision)
        /\ Len(end) = k /\ Len(kept) <= k
        /\ \A i \in 1 .. Len(kept) : kept[i] = end[k - Len(kept) + i]
    BY <1>3, <1>5, <1>9
  <2> HIDE DEF end, kept, k
  <2>2. kept = Newest(end, Len(kept))
    BY <2>1, NewestIs
  <2> QED BY <2>2 DEF end, kept
<1> QED BY <1>5, <1>9, <1>10 DEF HistoryIsRecent

\* Only a decision changes history.
LEMMA RecentStep ==
    GInv /\ HistoryIsRecent /\ [GuardNext]_guardVars => HistoryIsRecent'
<1> SUFFICES ASSUME GInv, HistoryIsRecent, [GuardNext]_guardVars PROVE HistoryIsRecent'
  OBVIOUS
<1>1. GuardTypeOK
  BY DEF GInv
<1>2. CASE UNCHANGED <<history, decisions>>
  BY <1>2 DEF HistoryIsRecent
<1>3. ASSUME NEW g \in Calls, NEW c \in Calls, NEW approved \in BOOLEAN,
             Decide(g, c, approved)
      PROVE  HistoryIsRecent'
  BY <1>1, <1>3, SettleKeepsRecent DEF Decide
<1>4. ASSUME NEW c \in Calls, Timeout(c) PROVE HistoryIsRecent'
  <2>1. CASE c \in pending
    BY <1>1, <1>4, <2>1, SettleKeepsRecent DEF Timeout
  <2>2. CASE c \notin pending
    BY <1>2, <1>4, <2>2 DEF Timeout
  <2> QED BY <2>1, <2>2
<1>5. ASSUME NEW c \in Calls, Pass(c) \/ Deny(c) \/ StartTimer(c) \/ Insert(c) \/ Receive(c)
             \/ Run(c) \/ DecideNothing(c) \/ Cancel(c) \/ Signal(c) \/ CloseChannel(c)
             \/ TimeoutSignal(c) \/ TimeoutClose(c)
      PROVE  UNCHANGED <<history, decisions>>
  BY <1>5 DEF Pass, Deny, StartTimer, Insert, Receive, Run, DecideNothing, Cancel, Signal,
              CloseChannel, TimeoutSignal, TimeoutClose
<1>6. CASE UNCHANGED guardVars
  BY <1>2, <1>6 DEF guardVars
<1> QED BY <1>2, <1>3, <1>4, <1>5, <1>6 DEF GuardNext, Proceed, Expire

\* The history that a governance call reads is the end of the true sequence of
\* decisions, with no entry lost, doubled or out of order, and never shorter
\* than what trimming keeps (action_manager.go decide and timeoutAction).
THEOREM GuardHistoryIsRecent == GuardSpec => []HistoryIsRecent
<1>1. GuardInit => HistoryIsRecent
  <2> SUFFICES ASSUME GuardInit PROVE HistoryIsRecent
    OBVIOUS
  <2>1. history = <<>> /\ decisions = <<>> /\ Keep \in Nat
    BY GuardAssumption DEF GuardInit
  <2>2. <<>> \in Seq(Decision) /\ Len(<<>>) = 0
    BY EmptySeq
  <2>3. <<>> = Newest(<<>>, Len(<<>>))
    <3>1. \A i \in 1 .. Len(<<>>) : <<>>[i] = <<>>[0 - Len(<<>>) + i]
      BY <2>2
    <3>2. Len(<<>>) <= 0
      BY <2>2
    <3> QED BY <2>2, <3>1, <3>2, NewestIs
  <2> QED BY <2>1, <2>2, <2>3 DEF HistoryIsRecent
<1> QED BY <1>1, RecentStep, GuardInvariant, PTL DEF GuardSpec
=============================================================================
