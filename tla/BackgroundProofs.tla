-------------------------- MODULE BackgroundProofs --------------------------
(***************************************************************************)
(* Proofs about what runs in the background: AgentMail, its dead letters,  *)
(* workflows and the CommHub, for any mails, calls, steps, graphs, agents  *)
(* and bounds.                                                             *)
(***************************************************************************)
EXTENDS Mailroom, DeadLetters, Workflow, CommHub, FiniteSetTheorems, TLAPS

-----------------------------------------------------------------------------
(* Mailroom.                                                               *)

MailTypeOK ==
    /\ sender \in [Mails -> {"new", "track", "done"}]
    /\ acks \subseteq Mails /\ answering \subseteq Mails /\ unheard \subseteq Mails
    /\ tries \in [Mails -> Nat]
    /\ queue \subseteq Mails /\ taken \subseteq Mails /\ settled \subseteq Mails
    /\ dead \subseteq Mails /\ lost \subseteq Mails
    /\ pending \subseteq Mails /\ acked \subseteq Mails /\ raised \subseteq Mails
    /\ locks \subseteq Workspaces
    /\ mishaps \in 0 .. MaxMishaps

\* The five places of a mail, written out.
PlacesDisjoint ==
    /\ queue \cap taken = {} /\ queue \cap settled = {} /\ queue \cap dead = {}
    /\ queue \cap lost = {} /\ taken \cap settled = {} /\ taken \cap dead = {}
    /\ taken \cap lost = {} /\ settled \cap dead = {} /\ settled \cap lost = {}
    /\ dead \cap lost = {}

\* A mail that send_mail has not written is nowhere ...
UnsentIsNowhere ==
    \A m \in Mails : sender[m] = "new" =>
        m \notin queue \cup taken \cup settled \cup dead \cup lost

\* ... and one that it has not registered is not known to the tracker.
UntrackedIsUnknown ==
    \A m \in Mails : sender[m] # "done" => m \notin pending \cup acked \cup raised

\* What the tracker waits for is neither answered nor given up.
PendingIsOpen == lapsed \subseteq pending /\ pending \cap (acked \cup raised) = {}

\* An answer that is stored was taken by the tracker or refused, or is on its way.
RowsAreAnswers == acks \subseteq acked \cup answering \cup unheard

MailInv ==
    /\ MailTypeOK /\ PlacesDisjoint /\ UnsentIsNowhere
    /\ UntrackedIsUnknown /\ PendingIsOpen /\ RowsAreAnswers
    /\ acked \cap raised = {}

(* The five places by number and by name. *)
LEMMA PlacesByName == PlacesDisjoint <=> MailInOnePlace
<1> DEFINE places == <<queue, taken, settled, dead, lost>>
<1>1. ASSUME PlacesDisjoint, NEW i \in 1 .. 5, NEW j \in 1 .. 5, i # j
      PROVE  places[i] \cap places[j] = {}
  <2>1. i = 1 \/ i = 2 \/ i = 3 \/ i = 4 \/ i = 5
    OBVIOUS
  <2>2. j = 1 \/ j = 2 \/ j = 3 \/ j = 4 \/ j = 5
    OBVIOUS
  <2> QED BY <1>1, <2>1, <2>2 DEF PlacesDisjoint
<1>2. ASSUME \A i, j \in 1 .. 5 : i # j => places[i] \cap places[j] = {}
      PROVE  PlacesDisjoint
  <2>1. \A i, j \in 1 .. 5 : i < j => places[i] \cap places[j] = {}
    BY <1>2
  <2> HIDE DEF places
  <2>2. /\ places[1] \cap places[2] = {} /\ places[1] \cap places[3] = {}
        /\ places[1] \cap places[4] = {} /\ places[1] \cap places[5] = {}
        /\ places[2] \cap places[3] = {} /\ places[2] \cap places[4] = {}
        /\ places[2] \cap places[5] = {} /\ places[3] \cap places[4] = {}
        /\ places[3] \cap places[5] = {} /\ places[4] \cap places[5] = {}
    BY <2>1
  <2> QED BY <2>2 DEF PlacesDisjoint, places
<1> QED BY <1>1, <1>2 DEF MailInOnePlace

LEMMA MailStart == MailInit => MailInv
BY MailroomAssumption
   DEF MailInit, MailInv, MailTypeOK, PlacesDisjoint, UnsentIsNowhere,
       UntrackedIsUnknown, PendingIsOpen, RowsAreAnswers, MailroomAssumption

LEMMA MailStep == MailInv /\ [MailNext]_mailVars => MailInv'
<1> SUFFICES ASSUME MailInv, [MailNext]_mailVars PROVE MailInv'
  OBVIOUS
<1> USE MailroomAssumption DEF MailroomAssumption
<1> USE DEF MailInv, MailTypeOK, PlacesDisjoint, UnsentIsNowhere,
            UntrackedIsUnknown, PendingIsOpen, RowsAreAnswers, Works,
            sendVars, trackVars, ackVars
<1>1. CASE UNCHANGED mailVars
  BY <1>1 DEF mailVars
<1>2. CASE Dispatch
  BY <1>2 DEF Dispatch
<1>3. CASE CheckDeadlines
  BY <1>3 DEF CheckDeadlines, Watched
<1>4. CASE MailCrash
  BY <1>4 DEF MailCrash
<1>5. ASSUME NEW w \in Workspaces, ResolvePartition(w) PROVE MailInv'
  BY <1>5 DEF ResolvePartition
<1>6. ASSUME NEW m \in Mails, SendOutbound(m) PROVE MailInv'
  BY <1>6 DEF SendOutbound
<1>7. ASSUME NEW m \in Mails, Track(m) PROVE MailInv'
  BY <1>7 DEF Track
<1>8. ASSUME NEW m \in Mails, Deliver(m) PROVE MailInv'
  BY <1>8 DEF Deliver
<1>9. ASSUME NEW m \in Mails, DeliveryFails(m) PROVE MailInv'
  BY <1>9 DEF DeliveryFails, Retries, Attempts
<1>10. ASSUME NEW m \in Mails, AckRow(m) PROVE MailInv'
  BY <1>10 DEF AckRow
<1>11. ASSUME NEW m \in Mails, Acknowledge(m) PROVE MailInv'
  BY <1>11 DEF Acknowledge
<1>12. ASSUME NEW m \in Mails, Lapse(m) PROVE MailInv'
  BY <1>12 DEF Lapse
<1> QED
  BY <1>1, <1>2, <1>3, <1>4, <1>5, <1>6, <1>7, <1>8, <1>9, <1>10, <1>11, <1>12
     DEF MailNext

LEMMA MailInvariant == MailSpec => []MailInv
BY MailStart, MailStep, PTL DEF MailSpec

\* Every mail that was enqueued is in one place (Mailroom.deliverOutbound,
\* handleDeliveryFailure, PostboxRepo.DequeueOutbound), for any number of mails,
\* batches and failures.
THEOREM MailsAreInOnePlace == MailSpec => []MailInOnePlace
<1>1. MailInv => MailInOnePlace
  BY PlacesByName DEF MailInv
<1> QED BY <1>1, MailInvariant, PTL

\* The tracker does not take the acknowledgement of a mail and raise a partition
\* for it, and a row that ack_mail stored beside a partition is one whose answer
\* it refused or has yet to hear (AckTracker.Acknowledge, checkDeadlines,
\* CommHandler.ackMail), for any number of mails, answers and restarts.
THEOREM AcknowledgedOrRaised == MailSpec => []AckOrPartition
<1>1. MailInv => AckOrPartition
  BY DEF MailInv, RowsAreAnswers, AckOrPartition
<1> QED BY <1>1, MailInvariant, PTL

-----------------------------------------------------------------------------
(* DeadLetters.                                                            *)

\* An entry is made once, each of its retries is counted before it is sent, and
\* one that was sent is taken out for good.
OfficeInv ==
    /\ entries \subseteq known /\ known \subseteq Letters
    /\ attempts \in [Letters -> 0 .. MaxAttempts]
    /\ resent = attempts
    /\ arrived \in [Letters -> Nat]
    /\ retrier \in [Retriers -> Letters \cup {NoLetter}]
    /\ \A c \in Retriers : retrier[c] # NoLetter => retrier[c] \in known
    /\ \A e \in Letters : arrived[e] > 0 => e \in known \ entries

LEMMA OfficeStep == OfficeInv /\ [OfficeNext]_officeVars => OfficeInv'
<1> SUFFICES ASSUME OfficeInv, [OfficeNext]_officeVars PROVE OfficeInv'
  OBVIOUS
<1> USE DeadLettersAssumption DEF DeadLettersAssumption, OfficeInv
<1>1. CASE UNCHANGED officeVars
  BY <1>1 DEF officeVars
<1>2. ASSUME NEW e \in Letters, Quarantine(e) \/ Discard(e) PROVE OfficeInv'
  BY <1>2 DEF Quarantine, Discard
<1>3. ASSUME NEW c \in Retriers, RetryFails(c) PROVE OfficeInv'
  BY <1>3 DEF RetryFails
<1>4. ASSUME NEW c \in Retriers, RetryWorks(c) PROVE OfficeInv'
  BY <1>4 DEF RetryWorks
<1>5. ASSUME NEW c \in Retriers, NEW e \in Letters, RetryBegins(c, e) PROVE OfficeInv'
  BY <1>5 DEF RetryBegins, Counted
<1> QED BY <1>1, <1>2, <1>3, <1>4, <1>5 DEF OfficeNext

\* However many calls of DeadLetterOffice.Retry overlap, an entry is sent again
\* at most MaxAttempts times and is gone once that has worked.
THEOREM RetriesAreBounded == OfficeSpec => []ResentBounded
<1>1. OfficeInit => OfficeInv
  BY DeadLettersAssumption DEF OfficeInit, OfficeInv, DeadLettersAssumption
<1>2. OfficeInv => ResentBounded
  BY DeadLettersAssumption DEF OfficeInv, ResentBounded, DeadLettersAssumption
<1> QED BY <1>1, <1>2, OfficeStep, PTL DEF OfficeSpec
-----------------------------------------------------------------------------
(* Workflow.                                                               *)

\* Every variable that the order of the steps depends on keeps its shape.
WorkflowTypeOK ==
    /\ deps \in Graphs
    /\ main \in {"idle", "level", "wait", "end", "complete", "over"}
    /\ depth \in Nat
    /\ stage \in [Steps -> {"idle", "begin", "gate", "select", "act", "over"}]
    /\ completed \in [Steps -> {"none", "completed", "skipped", "failed"}]

\* What executeDAG has done with the graph when it has come to a level: the
\* steps below are over, those above have not begun.
LevelsInv ==
    /\ main = "idle" => depth = 0 /\ \A s \in Steps : stage[s] = "idle"
    /\ main # "idle" => Valid
    /\ main \in {"level", "wait"} =>
          \A s \in Steps : /\ Level[s] < depth => stage[s] = "over"
                           /\ Level[s] > depth => stage[s] = "idle"
    /\ main = "level" => \A s \in Steps : Level[s] = depth => stage[s] = "idle"
    /\ main # "over" => \A s \in Steps : stage[s] = "over" => completed[s] # "none"

\* A step that has begun came after all it depends on, and will not be
\* overtaken: what is over stays so.
TurnsInv ==
    \A s \in Steps : stage[s] # "idle" =>
        \A d \in deps[s] : /\ stage[d] = "over"
                           /\ completed[d] \in {"completed", "skipped"}

\* The channel of a waiter is closed by an approval, unless the run is cancelled.
GatesInv ==
    cancel = "idle" =>
        /\ acted \cap Gated \subseteq approved
        /\ closed \subseteq approved
        /\ \A s \in Gated : stage[s] = "act" => s \in approved

WorkflowInv == WorkflowTypeOK /\ LevelsInv /\ TurnsInv /\ GatesInv

\* What a step may depend on is a step.
LEMMA DepsAreSteps ==
    ASSUME WorkflowTypeOK, NEW s \in Steps
    PROVE  deps[s] \subseteq Steps
BY WorkflowAssumption DEF WorkflowTypeOK

\* groupByLevel puts a step above all it depends on.
LEMMA LevelRises ==
    ASSUME WorkflowTypeOK, Valid
    PROVE  /\ Level \in [Steps -> Nat]
           /\ \A s \in Steps : \A d \in deps[s] : Level[d] < Level[s]
<1>1. Cardinality(Steps) \in Nat
  BY WorkflowAssumption, FS_CardinalityType
<1>2. Level \in Levellings
  BY DEF Valid, Level
<1>3. Level \in [Steps -> 0 .. Cardinality(Steps)] /\ IsLevelling(Level)
  BY <1>2 DEF Levellings
<1>4. \A s \in Steps : \A d \in deps[s] : Level[s] > Level[d]
  BY <1>3 DEF IsLevelling
<1>5. \A s \in Steps : deps[s] \subseteq Steps
  BY DepsAreSteps
<1>. HIDE DEF Level
<1>. QED  BY <1>1, <1>3, <1>4, <1>5

\* The graph does not change, and so neither do its levels.
LEMMA LevelStays ==
    ASSUME UNCHANGED deps
    PROVE  Level' = Level /\ (Valid' <=> Valid)
<1>1. Levellings' = Levellings
  BY DEF Levellings, IsLevelling
<1>. QED  BY <1>1 DEF Level, Valid

\* The run has not begun.
LEMMA WorkflowStart == WorkflowInit => WorkflowInv
<1>. SUFFICES ASSUME WorkflowInit PROVE WorkflowInv
  OBVIOUS
<1>1. WorkflowTypeOK
  BY DEF WorkflowInit, WorkflowTypeOK
<1>2. main = "idle" /\ depth = 0 /\ \A s \in Steps : stage[s] = "idle"
  BY DEF WorkflowInit
<1>3. LevelsInv /\ TurnsInv
  BY <1>2 DEF LevelsInv, TurnsInv
<1>4. GatesInv
  <2>1. acted = {} /\ closed = {} /\ \A s \in Steps : stage[s] = "idle"
    BY DEF WorkflowInit
  <2>. QED  BY <2>1, WorkflowAssumption DEF GatesInv
<1>. QED  BY <1>1, <1>3, <1>4 DEF WorkflowInv

\* A step of one goroutine of a level: it goes on, or it is over with a result.
LEMMA StepMoves ==
    ASSUME WorkflowInv, NEW s \in Steps, RunStep(s)
    PROVE  /\ UNCHANGED <<deps, main, depth, cancel, closed, approved>>
           /\ stage[s] \notin {"idle", "over"}
           /\ \E next \in {"gate", "select", "act", "over"} :
                 /\ stage' = [stage EXCEPT ![s] = next]
                 /\ next = "act" /\ s \in Gated => s \in closed
                 /\ \/ next # "over" /\ completed' = completed
                    \/ /\ next = "over"
                       /\ \E r \in {"completed", "skipped", "failed"} :
                             completed' = [completed EXCEPT ![s] = r]
           /\ acted' = acted \/ (acted' = acted \cup {s} /\ stage[s] = "act")
<1>. USE DEF StepOver, gateVars
<1>1. CASE ConditionEnds(s)
  BY <1>1 DEF ConditionEnds
<1>2. CASE StepRuns(s)
  BY <1>2 DEF StepRuns
<1>3. CASE WaitForApproval(s)
  BY <1>3 DEF WaitForApproval
<1>4. CASE Released(s)
  BY <1>4 DEF Released
<1>5. CASE Aborted(s)
  BY <1>5 DEF Aborted, GivesUp
<1>6. CASE Act(s)
  BY <1>6 DEF Act
<1>. QED  BY <1>1, <1>2, <1>3, <1>4, <1>5, <1>6 DEF RunStep

\* Every step of executeDAG, of its goroutines and of the calls keeps the
\* invariant.
LEMMA WorkflowStep == WorkflowInv /\ [WorkflowNext]_wfVars => WorkflowInv'
<1>. SUFFICES ASSUME WorkflowInv, [WorkflowNext]_wfVars PROVE WorkflowInv'
  OBVIOUS
<1>. USE DEF WorkflowInv
<1>0. UNCHANGED deps
  BY StepMoves DEF WorkflowNext, wfVars, StartRun, StartFails, RequestEnds, Main, BeginLevel,
     CancelledBetween, LevelsDone, EndLevel, EndRun, CompleteRun, CancelRun, CancelAll,
     CancelWrites, WorkflowCrash, ApproveStep
<1>00. Level' = Level /\ (Valid' <=> Valid)
  BY <1>0, LevelStays
<1>. HIDE DEF Level, Valid
<1>1. ASSUME StartRun PROVE WorkflowInv'
  <2>1. Valid /\ Level \in [Steps -> Nat]
    BY <1>1, LevelRises DEF StartRun
  <2>2. main = "idle" /\ main' = "level" /\ UNCHANGED <<deps, depth, stage, completed>>
    BY <1>1 DEF StartRun
  <2>3. LevelsInv'
    BY <2>1, <2>2, <1>00 DEF LevelsInv
  <2>. QED
    BY <1>1, <2>2, <2>3 DEF WorkflowTypeOK, TurnsInv, GatesInv, StartRun, gateVars
<1>2. ASSUME BeginLevel PROVE WorkflowInv'
  <2>1. /\ main = "level" /\ main' = "wait" /\ ~RunFailed
        /\ UNCHANGED <<deps, depth, completed, cancel, acted, closed, approved>>
        /\ stage' = [s \in Steps |-> IF Level[s] = depth THEN "begin" ELSE stage[s]]
    BY <1>2 DEF BeginLevel, AtLevel, gateVars
  <2>2. /\ Level \in [Steps -> Nat]
        /\ \A s \in Steps : \A d \in deps[s] : d \in Steps /\ Level[d] < Level[s]
    BY <2>1, LevelRises, DepsAreSteps DEF LevelsInv
  <2>3. WorkflowTypeOK'
    BY <2>1 DEF WorkflowTypeOK
  <2>4. LevelsInv'
    BY <2>1, <2>2, <1>00 DEF LevelsInv, WorkflowTypeOK
  <2>5. ASSUME NEW s \in Steps, stage'[s] # "idle", NEW d \in deps[s]
        PROVE  stage'[d] = "over" /\ completed'[d] \in {"completed", "skipped"}
    <3>1. d \in Steps /\ Level[d] < Level[s]
      BY <2>2
    <3>2. CASE Level[s] = depth
      <4>1. stage[d] = "over" /\ stage'[d] = "over"
        BY <2>1, <2>2, <3>1, <3>2 DEF LevelsInv
      <4>2. completed[d] # "none" /\ completed[d] # "failed"
        BY <2>1, <3>1, <4>1 DEF LevelsInv, RunFailed
      <4>. QED  BY <2>1, <3>1, <4>1, <4>2 DEF WorkflowTypeOK
    <3>3. CASE Level[s] # depth
      <4>1. stage[s] # "idle"
        BY <2>1, <2>5, <3>3
      <4>2. stage[d] = "over" /\ completed[d] \in {"completed", "skipped"}
        BY <4>1 DEF TurnsInv
      <4>3. Level[d] # depth
        BY <2>1, <3>1, <4>2 DEF LevelsInv
      <4>. QED  BY <2>1, <3>1, <4>2, <4>3
    <3>. QED  BY <3>2, <3>3
  <2>6. TurnsInv'
    BY <2>1, <2>5 DEF TurnsInv
  <2>7. GatesInv'
    BY <2>1, WorkflowAssumption DEF GatesInv
  <2>. QED  BY <2>3, <2>4, <2>6, <2>7
<1>3. ASSUME EndLevel PROVE WorkflowInv'
  <2>1. /\ main = "wait" /\ main' = "level" /\ depth' = depth + 1
        /\ UNCHANGED <<deps, stage, completed, cancel, acted, closed, approved>>
        /\ \A s \in Steps : Level[s] = depth => stage[s] = "over"
    BY <1>3 DEF EndLevel, AtLevel, gateVars
  <2>2. Level \in [Steps -> Nat] /\ depth \in Nat
    BY <2>1, LevelRises DEF LevelsInv, WorkflowTypeOK
  <2>3. LevelsInv'
    BY <2>1, <2>2, <1>00 DEF LevelsInv
  <2>. QED  BY <2>1, <2>2, <2>3 DEF WorkflowTypeOK, TurnsInv, GatesInv
<1>4. ASSUME CancelledBetween \/ LevelsDone \/ EndRun \/ CompleteRun PROVE WorkflowInv'
  <2>1. /\ main \notin {"idle", "over"} /\ main' \in {"end", "complete", "over"}
        /\ UNCHANGED <<deps, depth, stage, completed, cancel, acted, closed, approved>>
    BY <1>4 DEF CancelledBetween, LevelsDone, EndRun, CompleteRun, gateVars
  <2>. QED  BY <2>1, <1>00 DEF WorkflowTypeOK, LevelsInv, TurnsInv, GatesInv
<1>5. ASSUME NEW s \in Steps, RunStep(s) PROVE WorkflowInv'
  <2>1. PICK next \in {"gate", "select", "act", "over"} :
           /\ UNCHANGED <<deps, main, depth, cancel, closed, approved>>
           /\ stage[s] \notin {"idle", "over"}
           /\ stage' = [stage EXCEPT ![s] = next]
           /\ next = "act" /\ s \in Gated => s \in closed
           /\ \/ next # "over" /\ completed' = completed
              \/ /\ next = "over"
                 /\ \E r \in {"completed", "skipped", "failed"} :
                       completed' = [completed EXCEPT ![s] = r]
           /\ acted' = acted \/ (acted' = acted \cup {s} /\ stage[s] = "act")
    BY <1>5, StepMoves
  <2>2. /\ \A t \in Steps : t # s => stage'[t] = stage[t] /\ completed'[t] = completed[t]
        /\ stage'[s] = next /\ (next = "over" => completed'[s] # "none")
    BY <2>1 DEF WorkflowTypeOK
  <2>3. WorkflowTypeOK'
    BY <2>1 DEF WorkflowTypeOK
  <2>4. LevelsInv'
    BY <2>1, <2>2, <1>00 DEF LevelsInv
  <2>5. TurnsInv'
    BY <2>1, <2>2, DepsAreSteps DEF TurnsInv
  <2>6. GatesInv'
    BY <2>1, <2>2, WorkflowAssumption DEF GatesInv
  <2>. QED  BY <2>3, <2>4, <2>5, <2>6
<1>6. ASSUME WorkflowCrash PROVE WorkflowInv'
  <2>1. /\ main' = "over" /\ main # "idle" /\ cancel' = "done"
        /\ stage' = [s \in Steps |-> IF stage[s] = "idle" THEN "idle" ELSE "over"]
        /\ UNCHANGED <<deps, depth, completed>>
    BY <1>6 DEF WorkflowCrash
  <2>2. WorkflowTypeOK' /\ LevelsInv' /\ GatesInv'
    BY <2>1, <1>00 DEF WorkflowTypeOK, LevelsInv, GatesInv
  <2>3. TurnsInv'
    BY <2>1, DepsAreSteps DEF TurnsInv
  <2>. QED  BY <2>2, <2>3
<1>7. ASSUME StartFails \/ RequestEnds \/ CancelRun \/ CancelAll \/ CancelWrites
             \/ UNCHANGED wfVars \/ (\E s \in Steps : ApproveStep(s))
      PROVE  WorkflowInv'
  <2>1. UNCHANGED <<deps, main, depth, stage, completed>>
    BY <1>7 DEF StartFails, RequestEnds, CancelRun, CancelAll, CancelWrites, ApproveStep, wfVars
  <2>2. GatesInv'
    BY <1>7 DEF StartFails, RequestEnds, CancelRun, CancelAll, CancelWrites, ApproveStep, wfVars,
       gateVars, GatesInv
  <2>. QED  BY <2>1, <2>2, <1>00 DEF WorkflowTypeOK, LevelsInv, TurnsInv
<1>. QED
  BY <1>1, <1>2, <1>3, <1>4, <1>5, <1>6, <1>7 DEF WorkflowNext, Main

\* Whatever the graph, no step acts before all it depends on has been completed
\* or skipped, nor before its approval, unless the run is cancelled: whichever
\* steps fail, are skipped, wait or are aborted beside it (executor.go
\* executeDAG, executeStep).
THEOREM WorkflowActsInTurn == WorkflowSpec => []ActsInTurn
<1>1. WorkflowInv => ActsInTurn
  BY DEF WorkflowInv, TurnsInv, GatesInv, ActsInTurn, StepsInOrder, GatesHold
<1>. QED  BY WorkflowStart, WorkflowStep, <1>1, PTL DEF WorkflowSpec
-----------------------------------------------------------------------------
(* The inboxes of the communication hub.                                   *)

Courier == {"new", "sifted", "refused", "routed", "sent", "cut"}

\* The map of the hub and the inboxes: every inbox is that of one agent.
Layout(ib, bx) ==
    /\ ib \in [Recipients -> Nat] /\ bx \in Seq(Seq(Notes))
    /\ \A a \in Recipients : ib[a] <= Len(bx)
    /\ \A a, b \in Recipients : ib[a] = ib[b] /\ ib[a] # 0 => a = b
    /\ \A i \in 1 .. Len(bx) : \E a \in Recipients : ib[a] = i

\* What an agent has in its inbox.
Box(ib, bx, a) == IF ib[a] = 0 THEN <<>> ELSE bx[ib[a]]
Inbox(a) == Box(inboxes, boxes, a)

CommTypeOK ==
    /\ Layout(inboxes, boxes)
    /\ courier \in [Notes -> Courier] /\ target \in [Notes -> Nat]
    /\ reader \in [Readers -> Nat]
    /\ overflow \subseteq Notes /\ forfeit \subseteq Notes /\ IsFiniteSet(overflow)
    /\ drained \in Seq(Notes) /\ received \in Seq(Notes)

\* A Send or a Receive that has found an inbox has found the one of its agent.
FoundInv ==
    /\ \A n \in Notes : courier[n] = "routed" =>
          target[n] # 0 /\ target[n] = inboxes[Addressee[n]]
    /\ \A r \in Readers : reader[r] # 0 => \E a \in Recipients : reader[r] = inboxes[a]

Has(s, n) == \E i \in DOMAIN s : s[i] = n
Once(s) == \A i, j \in DOMAIN s : s[i] = s[j] => i = j

\* Nothing is twice in a sequence, and an inbox has only what is for its agent.
OnceInv ==
    /\ Once(received) /\ Once(drained)
    /\ \A a \in Recipients :
          /\ Once(Inbox(a))
          /\ \A n \in Notes : Has(Inbox(a), n) => Addressee[n] = a

\* A message that was sent is in one of the places, and no other is in any.
PlaceInv ==
    \A n \in Notes :
        LET rcv == Has(received, n)  drn == Has(drained, n)
            box == Has(Inbox(Addressee[n]), n)
            ovf == n \in overflow  frf == n \in forfeit
        IN  /\ (courier[n] = "sent") <=> (rcv \/ drn \/ box \/ ovf \/ frf)
            /\ rcv => ~drn /\ ~box /\ ~ovf /\ ~frf
            /\ drn => ~box /\ ~ovf /\ ~frf
            /\ box => ~ovf /\ ~frf
            /\ ovf => ~frf

CommInv == CommTypeOK /\ FoundInv /\ OnceInv /\ PlaceInv

\* Sequences without repetitions, and what is in them.
LEMMA Appended ==
    ASSUME NEW s \in Seq(Notes), NEW x \in Notes
    PROVE  /\ Append(s, x) \in Seq(Notes)
           /\ \A n \in Notes : Has(Append(s, x), n) <=> Has(s, n) \/ n = x
           /\ Once(s) /\ ~Has(s, x) => Once(Append(s, x))
<1>. DEFINE t == Append(s, x)
<1>1. /\ t \in Seq(Notes) /\ DOMAIN s = 1 .. Len(s) /\ DOMAIN t = 1 .. Len(s) + 1
      /\ Len(s) \in Nat
      /\ t[Len(s) + 1] = x /\ \A i \in 1 .. Len(s) : t[i] = s[i]
  OBVIOUS
<1>. HIDE DEF t
<1>2. \A n \in Notes : Has(t, n) <=> Has(s, n) \/ n = x
  BY <1>1 DEF Has
<1>3. Once(s) /\ ~Has(s, x) => Once(t)
  BY <1>1 DEF Has, Once
<1>. QED  BY <1>1, <1>2, <1>3 DEF t

LEMMA Shortened ==
    ASSUME NEW s \in Seq(Notes), s # <<>>, Once(s)
    PROVE  /\ Head(s) \in Notes /\ Tail(s) \in Seq(Notes) /\ Has(s, Head(s))
           /\ \A n \in Notes : Has(Tail(s), n) <=> Has(s, n) /\ n # Head(s)
           /\ Once(Tail(s))
<1>. DEFINE t == Tail(s)
<1>1. /\ t \in Seq(Notes) /\ DOMAIN s = 1 .. Len(s) /\ DOMAIN t = 1 .. Len(s) - 1
      /\ Len(s) \in Nat \ {0} /\ Head(s) = s[1]
      /\ \A i \in 1 .. Len(s) - 1 : t[i] = s[i + 1]
  OBVIOUS
<1>2. s[1] \in Notes
  BY <1>1
<1>. HIDE DEF t
<1>3. \A n \in Notes : Has(t, n) => Has(s, n) /\ n # s[1]
  BY SMTT(30), <1>1 DEF Has, Once
<1>4. ASSUME NEW n \in Notes, Has(s, n), n # s[1]
      PROVE  Has(t, n)
  <2>1. PICK i \in 1 .. Len(s) : s[i] = n
    BY <1>1, <1>4 DEF Has
  <2>2. i # 1 /\ i - 1 \in 1 .. Len(s) - 1 /\ s[(i - 1) + 1] = n
    BY <1>1, <1>4, <2>1
  <2>. QED  BY <1>1, <2>2 DEF Has
<1>5. Once(t)
  <2>. SUFFICES ASSUME NEW i \in DOMAIN t, NEW j \in DOMAIN t, t[i] = t[j]
                PROVE  i = j
    BY DEF Once
  <2>1. i + 1 \in DOMAIN s /\ j + 1 \in DOMAIN s /\ s[i + 1] = s[j + 1]
    BY <1>1
  <2>2. i + 1 = j + 1
    BY <2>1 DEF Once
  <2>. QED  BY <1>1, <2>2
<1>6. Has(s, s[1])
  BY <1>1 DEF Has
<1>. QED  BY <1>1, <1>2, <1>3, <1>4, <1>5, <1>6 DEF t

LEMMA Divided ==
    ASSUME NEW s \in Seq(Notes), NEW k \in 0 .. Len(s), Once(s)
    PROVE  /\ SubSeq(s, 1, k) \in Seq(Notes) /\ SubSeq(s, k + 1, Len(s)) \in Seq(Notes)
           /\ Once(SubSeq(s, 1, k)) /\ Once(SubSeq(s, k + 1, Len(s)))
           /\ \A n \in Notes :
                 /\ Has(s, n) <=> \/ Has(SubSeq(s, 1, k), n)
                                        \/ Has(SubSeq(s, k + 1, Len(s)), n)
                 /\ ~(Has(SubSeq(s, 1, k), n) /\ Has(SubSeq(s, k + 1, Len(s)), n))
<1>. DEFINE u == SubSeq(s, 1, k)
            v == SubSeq(s, k + 1, Len(s))
<1>1. /\ u \in Seq(Notes) /\ DOMAIN u = 1 .. k /\ \A i \in 1 .. k : u[i] = s[i]
      /\ DOMAIN s = 1 .. Len(s) /\ Len(s) \in Nat /\ k \in Nat /\ k <= Len(s)
  OBVIOUS
<1>2. /\ v \in Seq(Notes) /\ DOMAIN v = 1 .. Len(s) - k
      /\ \A i \in 1 .. Len(s) - k : v[i] = s[k + i]
  OBVIOUS
<1>. HIDE DEF u, v
<1>a. \A i \in DOMAIN v : k + i \in DOMAIN s /\ s[k + i] = v[i]
  BY <1>1, <1>2
<1>b. \A i \in DOMAIN u : i \in DOMAIN s /\ s[i] = u[i]
  BY <1>1
<1>3. Once(u) /\ Once(v)
  <2>1. Once(u)
    BY <1>b DEF Once
  <2>. SUFFICES ASSUME NEW i \in DOMAIN v, NEW j \in DOMAIN v, v[i] = v[j]
                PROVE  i = j
    BY <2>1 DEF Once
  <2>2. k + i = k + j
    BY <1>a DEF Once
  <2>. QED  BY <1>1, <1>2, <2>2
<1>4. ASSUME NEW n \in Notes
      PROVE  /\ Has(s, n) <=> Has(u, n) \/ Has(v, n)
             /\ ~(Has(u, n) /\ Has(v, n))
  <2>1. Has(u, n) \/ Has(v, n) => Has(s, n)
    BY <1>a, <1>b DEF Has
  <2>2. ~(Has(u, n) /\ Has(v, n))
    <3>. SUFFICES ASSUME NEW i \in DOMAIN u, NEW j \in DOMAIN v, u[i] = v[j]
                  PROVE  FALSE
      BY DEF Has
    <3>1. i = k + j
      BY <1>a, <1>b DEF Once
    <3>. QED  BY <1>1, <1>2, <3>1
  <2>3. ASSUME NEW i \in 1 .. Len(s), s[i] = n
        PROVE  Has(u, n) \/ Has(v, n)
    <3>1. CASE i <= k
      BY <1>1, <2>3, <3>1 DEF Has
    <3>2. CASE i > k
      <4>1. i - k \in 1 .. Len(s) - k /\ k + (i - k) = i
        BY <1>1, <3>2
      <4>. QED  BY <1>2, <2>3, <4>1 DEF Has
    <3>. QED  BY <1>1, <3>1, <3>2
  <2>. QED  BY <1>1, <2>1, <2>2, <2>3 DEF Has
<1>. QED  BY <1>1, <1>2, <1>3, <1>4 DEF u, v

LEMMA Joined ==
    ASSUME NEW s \in Seq(Notes), NEW t \in Seq(Notes), Once(s), Once(t),
           \A n \in Notes : ~(Has(s, n) /\ Has(t, n))
    PROVE  /\ s \o t \in Seq(Notes) /\ Once(s \o t)
           /\ \A n \in Notes : Has(s \o t, n) <=> Has(s, n) \/ Has(t, n)
<1>. DEFINE u == s \o t
<1>1. /\ u \in Seq(Notes) /\ DOMAIN u = 1 .. Len(s) + Len(t) /\ DOMAIN s = 1 .. Len(s)
      /\ DOMAIN t = 1 .. Len(t) /\ Len(s) \in Nat /\ Len(t) \in Nat
      /\ \A i \in 1 .. Len(s) : u[i] = s[i] /\ s[i] \in Notes
      /\ \A i \in 1 .. Len(t) : u[Len(s) + i] = t[i] /\ t[i] \in Notes
  OBVIOUS
<1>. HIDE DEF u
<1>2. \A i \in DOMAIN u : \/ i \in 1 .. Len(s)
                          \/ i - Len(s) \in 1 .. Len(t) /\ Len(s) + (i - Len(s)) = i
  BY <1>1
<1>3. Once(u)
  <2>. SUFFICES ASSUME NEW i \in DOMAIN u, NEW j \in DOMAIN u, u[i] = u[j]
                PROVE  i = j
    BY DEF Once
  <2>1. CASE i \in 1 .. Len(s) /\ j \in 1 .. Len(s)
    BY <1>1, <2>1 DEF Once
  <2>2. CASE i - Len(s) \in 1 .. Len(t) /\ j - Len(s) \in 1 .. Len(t)
    <3>1. t[i - Len(s)] = t[j - Len(s)]
      BY <1>1, <1>2, <2>2
    <3>2. i - Len(s) = j - Len(s)
      BY <1>1, <2>2, <3>1 DEF Once
    <3>. QED  BY <1>1, <3>2
  <2>3. ASSUME NEW p \in 1 .. Len(s), NEW q \in 1 .. Len(t), s[p] = t[q]
        PROVE  FALSE
    BY <1>1, <2>3 DEF Has
  <2>. QED  BY <1>1, <1>2, <2>1, <2>2, <2>3
<1>4. \A n \in Notes : Has(u, n) <=> Has(s, n) \/ Has(t, n)
  <2>1. \A n \in Notes : Has(u, n) => Has(s, n) \/ Has(t, n)
    BY <1>1, <1>2 DEF Has
  <2>2. \A n \in Notes : Has(s, n) \/ Has(t, n) => Has(u, n)
    <3>1. \A i \in DOMAIN s : i \in DOMAIN u /\ u[i] = s[i]
      BY <1>1
    <3>2. \A i \in DOMAIN t : Len(s) + i \in DOMAIN u /\ u[Len(s) + i] = t[i]
      BY <1>1
    <3>. QED  BY <3>1, <3>2 DEF Has
  <2>. QED  BY <2>1, <2>2
<1>. QED  BY <1>1, <1>3, <1>4 DEF u

\* The inbox that is found or made is that of the agent, and no other changes.
LEMMA OpenedKeeps ==
    ASSUME Layout(inboxes, boxes), NEW a \in Recipients
    PROVE  /\ Layout(Opened(a).inboxes, Opened(a).boxes)
           /\ Opened(a).box = Opened(a).inboxes[a] /\ Opened(a).box \in Nat \ {0}
           /\ \A c \in Recipients :
                 /\ Box(Opened(a).inboxes, Opened(a).boxes, c) = Inbox(c)
                 /\ inboxes[c] # 0 => Opened(a).inboxes[c] = inboxes[c]
<1>1. CASE inboxes[a] # 0
  <2>1. /\ Opened(a).inboxes = inboxes /\ Opened(a).boxes = boxes
        /\ Opened(a).box = inboxes[a]
    BY <1>1 DEF Opened
  <2>. QED  BY <1>1, <2>1 DEF Layout, Inbox
<1>2. CASE inboxes[a] = 0
  <2>. DEFINE ib == [inboxes EXCEPT ![a] = Len(boxes) + 1]
              bx == Append(boxes, <<>>)
  <2>1. Opened(a).inboxes = ib /\ Opened(a).boxes = bx /\ Opened(a).box = Len(boxes) + 1
    BY <1>2 DEF Opened
  <2>2. <<>> \in Seq(Notes)
    OBVIOUS
  <2>3. /\ bx \in Seq(Seq(Notes)) /\ Len(bx) = Len(boxes) + 1 /\ Len(boxes) \in Nat
        /\ bx[Len(boxes) + 1] = <<>> /\ \A i \in 1 .. Len(boxes) : bx[i] = boxes[i]
    BY <2>2 DEF Layout
  <2>4. /\ ib \in [Recipients -> Nat] /\ ib[a] = Len(boxes) + 1
        /\ \A c \in Recipients \ {a} : ib[c] = inboxes[c]
    BY <2>3 DEF Layout
  <2>. HIDE DEF ib, bx
  <2>5. Layout(ib, bx)
    <3>1. \A c \in Recipients : ib[c] <= Len(bx)
      BY SMTT(30), <2>3, <2>4 DEF Layout
    <3>2. ASSUME NEW c \in Recipients, NEW d \in Recipients, ib[c] = ib[d], ib[c] # 0
          PROVE  c = d
      <4>1. \A e \in Recipients \ {a} : ib[e] = inboxes[e] /\ inboxes[e] \in Nat
                                         /\ inboxes[e] <= Len(boxes)
        BY <2>4 DEF Layout
      <4>2. CASE c = a \/ d = a
        BY SMTT(30), <2>3, <2>4, <3>2, <4>1, <4>2
      <4>3. CASE c # a /\ d # a
        BY <3>2, <4>1, <4>3 DEF Layout
      <4>. QED  BY <4>2, <4>3
    <3>3. ASSUME NEW i \in 1 .. Len(bx)
          PROVE  \E c \in Recipients : ib[c] = i
      <4>1. CASE i = Len(boxes) + 1
        BY <2>4, <4>1
      <4>2. CASE i \in 1 .. Len(boxes)
        BY <1>2, <2>4, <4>2 DEF Layout
      <4>. QED  BY <2>3, <4>1, <4>2
    <3>. QED  BY <2>3, <2>4, <3>1, <3>2, <3>3 DEF Layout
  <2>6. ASSUME NEW c \in Recipients
        PROVE  Box(ib, bx, c) = Inbox(c) /\ (inboxes[c] # 0 => ib[c] = inboxes[c])
    <3>1. CASE c = a
      BY <1>2, <2>3, <2>4, <3>1 DEF Box, Inbox
    <3>2. CASE c # a
      <4>1. ib[c] = inboxes[c] /\ inboxes[c] \in Nat /\ inboxes[c] <= Len(boxes)
        BY <2>4, <3>2 DEF Layout
      <4>. QED  BY <2>3, <4>1 DEF Box, Inbox
    <3>. QED  BY <3>1, <3>2
  <2>. QED  BY <2>1, <2>3, <2>4, <2>5, <2>6
<1>. QED  BY <1>1, <1>2

Put(bx, i, s) == [bx EXCEPT ![i] = s]

\* What is written to the inbox of an agent is in the inbox of no other.
LEMMA PutInBox ==
    ASSUME NEW ib, NEW bx, Layout(ib, bx), NEW a \in Recipients, ib[a] # 0,
           NEW s \in Seq(Notes)
    PROVE  /\ Layout(ib, Put(bx, ib[a], s))
           /\ Box(ib, Put(bx, ib[a], s), a) = s
           /\ \A c \in Recipients \ {a} : Box(ib, Put(bx, ib[a], s), c) = Box(ib, bx, c)
<1>. DEFINE new == Put(bx, ib[a], s)
<1>1. ib[a] \in 1 .. Len(bx) /\ bx \in Seq(Seq(Notes)) /\ Len(bx) \in Nat
  BY DEF Layout
<1>2. /\ new \in Seq(Seq(Notes)) /\ Len(new) = Len(bx) /\ new[ib[a]] = s
      /\ \A i \in 1 .. Len(bx) : i # ib[a] => new[i] = bx[i]
  BY <1>1 DEF Put
<1>. HIDE DEF new
<1>3. Layout(ib, new)
  BY <1>2 DEF Layout
<1>4. ASSUME NEW c \in Recipients
      PROVE  Box(ib, new, c) = IF c = a THEN s ELSE Box(ib, bx, c)
  <2>1. CASE c = a
    BY <1>2, <2>1 DEF Box
  <2>2. CASE c # a /\ ib[c] # 0
    <3>1. ib[c] # ib[a] /\ ib[c] \in 1 .. Len(bx)
      BY <2>2 DEF Layout
    <3>. QED  BY <1>2, <2>2, <3>1 DEF Box
  <2>3. CASE c # a /\ ib[c] = 0
    BY <2>3 DEF Box
  <2>. QED  BY <2>1, <2>2, <2>3
<1>. QED  BY <1>3, <1>4 DEF new

LEMMA InboxTyped ==
    ASSUME CommInv, NEW a \in Recipients
    PROVE  Inbox(a) \in Seq(Notes)
<1>1. CASE inboxes[a] = 0
  BY <1>1 DEF Inbox, Box
<1>2. CASE inboxes[a] # 0
  <2>1. inboxes[a] \in 1 .. Len(boxes) /\ boxes \in Seq(Seq(Notes))
    BY <1>2 DEF CommInv, CommTypeOK, Layout
  <2>. QED  BY <1>2, <2>1 DEF Inbox, Box
<1>. QED  BY <1>1, <1>2

\* A message is put into the inbox of its agent: by a Send, or from what a
\* call of DrainOverflow has still to deliver.
LEMMA DepositKeeps ==
    ASSUME CommInv, NEW n \in Notes, NEW ib, NEW bx, Layout(ib, bx),
           ib[Addressee[n]] # 0, inboxes' = ib, Deposit(bx, ib[Addressee[n]], n),
           \A c \in Recipients : Box(ib, bx, c) = Inbox(c),
           \A c \in Recipients : inboxes[c] # 0 => ib[c] = inboxes[c],
           UNCHANGED <<target, reader, received>>,
           \/ courier[n] = "routed" /\ courier' = [courier EXCEPT ![n] = "sent"]
              /\ UNCHANGED drained
           \/ drained # <<>> /\ n = Head(drained) /\ drained' = Tail(drained)
              /\ UNCHANGED courier
    PROVE  CommInv'
<1>. DEFINE a == Addressee[n]
            s == Inbox(a)
            full == Len(s) >= InboxSize
            kept == IF full THEN Tail(s) ELSE s
            out == IF full THEN {Head(s)} ELSE {}
<1>0. PICK home \in Recipients : home = Addressee[n]
  BY CommAssumption
<1>1. s \in Seq(Notes) /\ Len(s) \in Nat /\ Once(s)
      /\ \A m \in Notes : Has(s, m) => Addressee[m] = home
  BY <1>0, InboxTyped DEF CommInv, OnceInv
<1>2. ~Has(s, n) /\ ~Has(received, n) /\ n \notin overflow /\ n \notin forfeit
      /\ (courier[n] = "routed" => ~Has(drained, n))
  <2>1. CASE courier[n] = "routed"
    BY <2>1 DEF CommInv, PlaceInv
  <2>2. CASE drained # <<>> /\ n = Head(drained)
    <3>1. Has(drained, n) /\ courier[n] = "sent"
      BY <2>2, Shortened DEF CommInv, CommTypeOK, OnceInv, PlaceInv
    <3>. QED  BY <3>1 DEF CommInv, PlaceInv
  <2>. QED  BY <2>1, <2>2
<1>3. full => s # <<>>
  BY <1>1, CommAssumption
<1>4. /\ kept \in Seq(Notes) /\ Once(kept) /\ out \subseteq Notes /\ IsFiniteSet(out)
      /\ \A m \in Notes : Has(kept, m) <=> Has(s, m) /\ m \notin out
      /\ \A m \in out : Has(s, m)
  <2>1. IsFiniteSet(out)
    BY FS_Singleton, FS_EmptySet
  <2>. QED  BY <1>1, <1>3, <2>1, Shortened
<1>5. bx[ib[a]] = s
  BY <1>0 DEF Box
<1>6. /\ boxes' = [bx EXCEPT ![ib[a]] = Append(kept, n)]
      /\ \/ overflow' = overflow \cup out /\ forfeit' = forfeit
         \/ forfeit' = forfeit \cup out /\ overflow' = overflow
  <2>1. ib[a] \in DOMAIN bx
    BY <1>0 DEF Layout
  <2>. QED  BY <1>5, <2>1 DEF Deposit
<1>. HIDE DEF kept, out, full
<1>7. /\ Append(kept, n) \in Seq(Notes) /\ Once(Append(kept, n))
      /\ \A m \in Notes : Has(Append(kept, n), m) <=> (Has(s, m) /\ m \notin out) \/ m = n
  BY <1>2, <1>4, Appended
<1>8. PICK t \in Seq(Notes) : t = Append(kept, n)
  BY <1>7
<1>9. /\ Layout(inboxes', boxes')
      /\ \A c \in Recipients : Inbox(c)' = IF c = home THEN t ELSE Inbox(c)
  <2>1. boxes' = [bx EXCEPT ![ib[home]] = t] /\ ib[home] # 0
    BY <1>0, <1>6, <1>8
  <2>2. /\ Layout(ib, boxes')
        /\ \A c \in Recipients : Box(ib, boxes', c) = IF c = home THEN t ELSE Box(ib, bx, c)
    <3>1. boxes' = Put(bx, ib[home], t)
      BY <2>1 DEF Put
    <3>2. /\ Layout(ib, Put(bx, ib[home], t)) /\ Box(ib, Put(bx, ib[home], t), home) = t
          /\ \A c \in Recipients \ {home} : Box(ib, Put(bx, ib[home], t), c) = Box(ib, bx, c)
      BY <2>1, PutInBox
    <3>. QED  BY <3>1, <3>2
  <2>3. inboxes' = ib /\ \A c \in Recipients : Box(ib, bx, c) = Box(inboxes, boxes, c)
    BY DEF Inbox
  <2>. HIDE DEF s, a
  <2>. QED  BY <2>1, <2>2, <2>3 DEF Inbox
<1>10. drained' \in Seq(Notes) /\ Once(drained')
       /\ \A m \in Notes : Has(drained', m) <=> Has(drained, m) /\ m # n
  <2>0. drained \in Seq(Notes) /\ Once(drained)
    BY DEF CommInv, CommTypeOK, OnceInv
  <2>1. CASE courier[n] = "routed" /\ UNCHANGED drained
    BY <1>2, <2>0, <2>1
  <2>2. CASE drained # <<>> /\ n = Head(drained) /\ drained' = Tail(drained)
    BY <2>0, <2>2, Shortened
  <2>. QED  BY <2>1, <2>2
<1>11. courier' \in [Notes -> Courier] /\ courier'[n] = "sent"
       /\ \A m \in Notes \ {n} : courier'[m] = courier[m]
  <2>1. CASE courier[n] = "routed" /\ courier' = [courier EXCEPT ![n] = "sent"]
    BY <2>1 DEF CommInv, CommTypeOK, Courier
  <2>2. CASE drained # <<>> /\ n = Head(drained) /\ UNCHANGED courier
    <3>1. Has(drained, n)
      BY <2>2, Shortened DEF CommInv, CommTypeOK, OnceInv
    <3>. QED  BY <2>2, <3>1 DEF CommInv, CommTypeOK, PlaceInv
  <2>. QED  BY <2>1, <2>2
<1>12. CommTypeOK'
  <2>1. IsFiniteSet(overflow')
    <3>1. IsFiniteSet(overflow)
      BY DEF CommInv, CommTypeOK
    <3>2. IsFiniteSet(overflow \cup out)
      BY <1>4, <3>1, FS_Union
    <3>. QED  BY <1>6, <3>1, <3>2
  <2>. QED  BY <1>4, <1>6, <1>9, <1>10, <1>11, <2>1 DEF CommInv, CommTypeOK
<1>13. FoundInv'
  <2>1. \A m \in Notes : Addressee[m] \in Recipients
    BY CommAssumption
  <2>. QED  BY <1>11, <2>1 DEF CommInv, FoundInv
<1>14. OnceInv'
  BY ZenonT(60), <1>0, <1>1, <1>7, <1>8, <1>9, <1>10 DEF CommInv, OnceInv
<1>15. PlaceInv'
  <2>. SUFFICES ASSUME NEW m \in Notes
                PROVE  /\ (courier'[m] = "sent") <=>
                             \/ Has(received, m) \/ Has(drained', m)
                             \/ Has(Inbox(Addressee[m])', m) \/ m \in overflow' \/ m \in forfeit'
                       /\ Has(received, m) => /\ ~Has(drained', m) /\ ~Has(Inbox(Addressee[m])', m)
                                              /\ m \notin overflow' /\ m \notin forfeit'
                       /\ Has(drained', m) => /\ ~Has(Inbox(Addressee[m])', m)
                                              /\ m \notin overflow' /\ m \notin forfeit'
                       /\ Has(Inbox(Addressee[m])', m) => m \notin overflow' /\ m \notin forfeit'
                       /\ m \in overflow' => m \notin forfeit'
    BY DEF PlaceInv
  <2>1. Has(Inbox(Addressee[m])', m) <=> (Has(Inbox(Addressee[m]), m) /\ m \notin out) \/ m = n
    <3>1. Addressee[m] \in Recipients
      BY CommAssumption
    <3>2. CASE Addressee[m] = home
      BY <1>0, <1>7, <1>8, <1>9, <3>2
    <3>3. CASE Addressee[m] # home
      BY <1>0, <1>1, <1>4, <1>9, <3>1, <3>3
    <3>. QED  BY <3>2, <3>3
  <2>2. m \in out => Has(Inbox(Addressee[m]), m)
    BY <1>0, <1>1, <1>4
  <2>3. n \notin out
    BY <1>2, <1>4
  <2>4. CASE m = n
    BY <1>2, <1>6, <1>10, <1>11, <2>1, <2>3, <2>4
  <2>5. CASE m # n
    BY <1>6, <1>10, <1>11, <2>1, <2>2, <2>5 DEF CommInv, PlaceInv
  <2>. QED  BY <2>4, <2>5
<1>. QED  BY <1>12, <1>13, <1>14, <1>15 DEF CommInv

LEMMA AddresseeTyped ==
    \A n \in Notes : Addressee[n] \in Recipients
BY CommAssumption

\* The inboxes, and whether a message was sent, as they were.
LEMMA StillThere ==
    ASSUME CommInv, UNCHANGED <<received, drained, overflow, forfeit>>,
           \A a \in Recipients : Inbox(a)' = Inbox(a),
           \A m \in Notes : (courier'[m] = "sent") <=> (courier[m] = "sent")
    PROVE  OnceInv' /\ PlaceInv'
<1>1. OnceInv'
  BY DEF CommInv, OnceInv
<1>2. PlaceInv'
  BY AddresseeTyped DEF CommInv, PlaceInv
<1>. QED  BY <1>1, <1>2

LEMMA CommStart ==
    CommInit => CommInv
<1>. SUFFICES ASSUME CommInit PROVE CommInv
  OBVIOUS
<1>1. <<>> \in Seq(Notes) /\ <<>> \in Seq(Seq(Notes)) /\ Len(<<>>) = 0 /\ DOMAIN <<>> = {}
  OBVIOUS
<1>2. \A a \in Recipients : Inbox(a) = <<>>
  BY DEF CommInit, Inbox, Box
<1>3. CommTypeOK
  BY <1>1, FS_EmptySet DEF CommInit, CommTypeOK, Layout, Courier
<1>4. FoundInv
  BY DEF CommInit, FoundInv
<1>5. \A n \in Notes : ~Has(<<>>, n)
  BY <1>1 DEF Has
<1>6. Once(<<>>)
  BY <1>1 DEF Once
<1>7. OnceInv
  BY <1>2, <1>5, <1>6 DEF CommInit, OnceInv
<1>8. PlaceInv
  <2>1. \A n \in Notes : Addressee[n] \in Recipients
    BY CommAssumption
  <2>. QED  BY <1>2, <1>5, <2>1 DEF CommInit, PlaceInv
<1>. QED  BY <1>3, <1>4, <1>7, <1>8 DEF CommInv

\* The sieve, and a Send that finds its inbox.
LEMMA SendKeeps ==
    ASSUME CommInv, NEW n \in Notes, Sift(n) \/ FindInbox(n)
    PROVE  CommInv'
<1>0. /\ courier \in [Notes -> Courier] /\ courier[n] \in {"new", "sifted"}
      /\ UNCHANGED <<reader, overflow, drained, received, forfeit>>
  BY DEF CommInv, CommTypeOK, Sift, FindInbox
<1>1. PICK x \in {"sifted", "refused", "routed"} : courier' = [courier EXCEPT ![n] = x]
  BY DEF Sift, FindInbox
<1>2. courier' \in [Notes -> Courier] /\ courier'[n] = x
      /\ \A m \in Notes \ {n} : courier'[m] = courier[m]
  BY <1>0, <1>1 DEF Courier
<1>s. ASSUME NEW m \in Notes
      PROVE  (courier'[m] = "sent") <=> (courier[m] = "sent")
  BY <1>0, <1>2
<1>3. CASE Sift(n)
  <2>1. x # "routed" /\ UNCHANGED <<inboxes, boxes, target>>
    BY <1>0, <1>1, <1>2, <1>3 DEF Sift
  <2>2. CommTypeOK' /\ FoundInv'
    <3>1. CommTypeOK'
      BY <1>0, <1>2, <2>1 DEF CommInv, CommTypeOK
    <3>2. \A m \in Notes : courier'[m] = "routed" => courier[m] = "routed"
      <4>. SUFFICES ASSUME NEW m \in Notes, courier'[m] = "routed"
                    PROVE  courier[m] = "routed"
        OBVIOUS
      <4>1. m # n
        BY <1>2, <2>1
      <4>. QED  BY <1>2, <4>1
    <3>3. FoundInv'
      BY <1>0, <2>1, <3>2 DEF CommInv, FoundInv
    <3>. QED  BY <3>1, <3>3
  <2>3. \A a \in Recipients : Inbox(a)' = Inbox(a)
    BY <2>1 DEF Inbox
  <2>4. OnceInv' /\ PlaceInv'
    BY <1>0, <1>s, <2>3, StillThere
  <2>. QED  BY <2>2, <2>4 DEF CommInv
<1>4. CASE FindInbox(n)
  <2>0. PICK a \in Recipients : a = Addressee[n]
    BY CommAssumption
  <2>1. /\ inboxes' = Opened(a).inboxes /\ boxes' = Opened(a).boxes
        /\ target' = [target EXCEPT ![n] = Opened(a).box]
    BY <1>4, <2>0 DEF FindInbox
  <2>2. /\ Layout(Opened(a).inboxes, Opened(a).boxes)
        /\ Opened(a).box = Opened(a).inboxes[a] /\ Opened(a).box \in Nat \ {0}
        /\ \A c \in Recipients :
              /\ Box(Opened(a).inboxes, Opened(a).boxes, c) = Inbox(c)
              /\ inboxes[c] # 0 => Opened(a).inboxes[c] = inboxes[c]
    BY OpenedKeeps DEF CommInv, CommTypeOK
  <2>3. Layout(inboxes', boxes') /\ \A c \in Recipients : inboxes[c] # 0 => inboxes'[c] = inboxes[c]
    BY <2>1, <2>2
  <2>4. \A c \in Recipients : Inbox(c)' = Inbox(c)
    <3>1. \A c \in Recipients : Box(inboxes', boxes', c) = Inbox(c)
      BY <2>1, <2>2
    <3>. QED  BY <3>1 DEF Inbox
  <2>5. /\ target' \in [Notes -> Nat] /\ target'[n] = inboxes'[a] /\ target'[n] # 0
        /\ \A m \in Notes \ {n} : target'[m] = target[m]
    BY <2>1, <2>2 DEF CommInv, CommTypeOK
  <2>6. CommTypeOK'
    BY <1>0, <1>2, <2>3, <2>5 DEF CommInv, CommTypeOK
  <2>7. FoundInv'
    <3>1. ASSUME NEW m \in Notes, courier'[m] = "routed"
          PROVE  target'[m] # 0 /\ target'[m] = inboxes'[Addressee[m]]
      <4>1. CASE m = n
        BY <2>0, <2>5, <4>1
      <4>2. CASE m # n
        <5>1. courier[m] = "routed" /\ target'[m] = target[m]
          <6>1. courier'[m] = courier[m] /\ target'[m] = target[m]
            BY <1>2, <2>5, <4>2
          <6>. QED  BY <3>1, <6>1
        <5>2. target[m] # 0 /\ target[m] = inboxes[Addressee[m]]
          BY <5>1 DEF CommInv, FoundInv
        <5>. QED  BY <2>3, <5>1, <5>2, AddresseeTyped
      <4>. QED  BY <4>1, <4>2
    <3>2. ASSUME NEW r \in Readers, reader[r] # 0
          PROVE  \E c \in Recipients : reader[r] = inboxes'[c]
      <4>1. PICK c \in Recipients : reader[r] = inboxes[c]
        BY <3>2 DEF CommInv, FoundInv
      <4>. QED  BY <2>3, <3>2, <4>1
    <3>. QED  BY <1>0, <3>1, <3>2 DEF FoundInv
  <2>8. OnceInv' /\ PlaceInv'
    BY <1>0, <1>s, <2>4, StillThere
  <2>. QED  BY <2>6, <2>7, <2>8 DEF CommInv
<1>. QED  BY <1>3, <1>4

LEMMA DeliverKeeps ==
    ASSUME CommInv, NEW n \in Notes, DeliverNote(n)
    PROVE  CommInv'
<1>1. /\ courier[n] = "routed" /\ courier' = [courier EXCEPT ![n] = "sent"]
      /\ target[n] # 0 /\ target[n] = inboxes[Addressee[n]]
      /\ Deposit(boxes, inboxes[Addressee[n]], n)
      /\ UNCHANGED <<inboxes, target, reader, drained, received>>
  BY DEF DeliverNote, CommInv, FoundInv
<1>2. Layout(inboxes, boxes) /\ \A c \in Recipients : Box(inboxes, boxes, c) = Inbox(c)
  BY DEF CommInv, CommTypeOK, Inbox
<1>. QED  BY <1>1, <1>2, DepositKeeps

LEMMA RedeliverKeeps ==
    ASSUME CommInv, Redeliver
    PROVE  CommInv'
<1>1. drained # <<>> /\ drained \in Seq(Notes) /\ Once(drained)
  BY DEF Redeliver, CommInv, CommTypeOK, OnceInv
<1>2. PICK n \in Notes : n = Head(drained)
  BY <1>1, Shortened
<1>3. PICK a \in Recipients : a = Addressee[n]
  BY CommAssumption
<1>4. PICK ib, bx : ib = Opened(a).inboxes /\ bx = Opened(a).boxes
  OBVIOUS
<1>5. /\ Layout(ib, bx) /\ Opened(a).box = ib[a] /\ ib[a] # 0
      /\ \A c \in Recipients : Box(ib, bx, c) = Inbox(c)
      /\ \A c \in Recipients : inboxes[c] # 0 => ib[c] = inboxes[c]
  <2>1. /\ Layout(Opened(a).inboxes, Opened(a).boxes)
        /\ Opened(a).box = Opened(a).inboxes[a] /\ Opened(a).box \in Nat \ {0}
        /\ \A c \in Recipients :
              /\ Box(Opened(a).inboxes, Opened(a).boxes, c) = Inbox(c)
              /\ inboxes[c] # 0 => Opened(a).inboxes[c] = inboxes[c]
    BY OpenedKeeps DEF CommInv, CommTypeOK
  <2>. QED  BY <1>4, <2>1
<1>6. /\ inboxes' = ib /\ Deposit(bx, ib[a], n) /\ drained' = Tail(drained)
      /\ UNCHANGED <<courier, target, reader, received>>
  BY <1>2, <1>3, <1>4, <1>5 DEF Redeliver
<1>. QED  BY <1>1, <1>2, <1>3, <1>5, <1>6, DepositKeeps

LEMMA LookupKeeps ==
    ASSUME CommInv, NEW r \in Readers, NEW a \in Recipients, Lookup(r, a)
    PROVE  CommInv'
<1>1. reader' = [reader EXCEPT ![r] = inboxes[a]] /\ inboxes[a] \in Nat
      /\ UNCHANGED <<inboxes, boxes, courier, target, overflow, drained, received, forfeit>>
  BY DEF Lookup, CommInv, CommTypeOK, Layout
<1>2. CommTypeOK' /\ FoundInv'
  BY <1>1 DEF CommInv, CommTypeOK, FoundInv
<1>3. OnceInv' /\ PlaceInv'
  BY <1>1 DEF CommInv, OnceInv, PlaceInv, Inbox
<1>. QED  BY <1>2, <1>3 DEF CommInv

LEMMA TakeOutKeeps ==
    ASSUME CommInv, NEW r \in Readers, NEW limit \in 0 .. InboxSize, TakeOut(r, limit)
    PROVE  CommInv'
<1>1. PICK a \in Recipients : reader[r] = inboxes[a] /\ inboxes[a] # 0
  BY DEF TakeOut, CommInv, FoundInv
<1>2. PICK s \in Seq(Notes) : s = Inbox(a) /\ s = boxes[inboxes[a]]
  BY <1>1, InboxTyped DEF Inbox, Box
<1>3. limit \in 0 .. Len(s) /\ Once(s) /\ \A n \in Notes : Has(s, n) => Addressee[n] = a
  <2>1. limit \in IF s = <<>> THEN {0} ELSE 1 .. Len(s)
    BY <1>1, <1>2 DEF TakeOut
  <2>2. Len(s) \in Nat
    BY <1>2
  <2>3. limit \in 0 .. Len(s)
    <3>1. CASE s = <<>>
      BY <2>1, <2>2, <3>1
    <3>2. CASE s # <<>>
      BY <2>1, <2>2, <3>2
    <3>. QED  BY <3>1, <3>2
  <2>. QED  BY <1>2, <2>3 DEF CommInv, OnceInv
<1>. DEFINE u == SubSeq(s, 1, limit)
            v == SubSeq(s, limit + 1, Len(s))
<1>4. /\ u \in Seq(Notes) /\ v \in Seq(Notes) /\ Once(u) /\ Once(v)
      /\ \A n \in Notes : /\ Has(s, n) <=> Has(u, n) \/ Has(v, n)
                          /\ ~(Has(u, n) /\ Has(v, n))
  BY <1>3, Divided
<1>5. received' = received \o u /\ boxes' = Put(boxes, inboxes[a], v)
      /\ reader' = [reader EXCEPT ![r] = 0]
      /\ UNCHANGED <<inboxes, courier, target, overflow, drained, forfeit>>
  BY <1>1, <1>2 DEF TakeOut, Put
<1>. HIDE DEF u, v
<1>6. \A n \in Notes : Has(u, n) => ~Has(received, n)
  BY <1>2, <1>3, <1>4 DEF CommInv, PlaceInv
<1>7. /\ received' \in Seq(Notes) /\ Once(received')
      /\ \A n \in Notes : Has(received', n) <=> Has(received, n) \/ Has(u, n)
  BY <1>4, <1>5, <1>6, Joined DEF CommInv, CommTypeOK, OnceInv
<1>8. Layout(inboxes', boxes') /\ Inbox(a)' = v /\ \A c \in Recipients \ {a} : Inbox(c)' = Inbox(c)
  <2>1. /\ Layout(inboxes, Put(boxes, inboxes[a], v))
        /\ Box(inboxes, Put(boxes, inboxes[a], v), a) = v
        /\ \A c \in Recipients \ {a} :
              Box(inboxes, Put(boxes, inboxes[a], v), c) = Box(inboxes, boxes, c)
    BY <1>1, <1>4, PutInBox DEF CommInv, CommTypeOK
  <2>. QED  BY <1>5, <2>1 DEF Inbox
<1>9. CommTypeOK'
  BY <1>5, <1>7, <1>8 DEF CommInv, CommTypeOK
<1>10. FoundInv'
  BY <1>5 DEF CommInv, CommTypeOK, FoundInv
<1>11. OnceInv'
  BY <1>2, <1>3, <1>4, <1>5, <1>7, <1>8 DEF CommInv, OnceInv
<1>12. PlaceInv'
  <2>1. ASSUME NEW n \in Notes
        PROVE  Has(Inbox(Addressee[n])', n) <=> Has(Inbox(Addressee[n]), n) /\ ~Has(u, n)
    <3>1. CASE Addressee[n] = a
      BY <1>2, <1>4, <1>8, <3>1
    <3>2. CASE Addressee[n] # a
      BY <1>3, <1>4, <1>8, <3>2, CommAssumption
    <3>. QED  BY <3>1, <3>2
  <2>2. \A n \in Notes : Has(u, n) => Has(Inbox(Addressee[n]), n)
    BY <1>2, <1>3, <1>4
  <2>. QED  BY <1>5, <1>7, <2>1, <2>2 DEF CommInv, PlaceInv
<1>. QED  BY <1>9, <1>10, <1>11, <1>12 DEF CommInv

LEMMA DrainKeeps ==
    ASSUME CommInv, NEW a \in Recipients, Drain(a)
    PROVE  CommInv'
<1>. DEFINE held == {n \in overflow : Addressee[n] = a}
<1>0. drained = <<>> /\ overflow \subseteq Notes /\ forfeit \subseteq Notes
      /\ UNCHANGED <<inboxes, boxes, courier, target, reader, received>>
  BY DEF Drain, CommInv, CommTypeOK
<1>1. \A n \in Notes : ~Has(<<>>, n)
  <2>1. DOMAIN <<>> = {}
    OBVIOUS
  <2>. QED  BY <2>1 DEF Has
<1>2. \A c \in Recipients : Inbox(c)' = Inbox(c)
  BY <1>0 DEF Inbox
<1>3. FoundInv'
  BY <1>0 DEF CommInv, FoundInv
<1>4. ASSUME NEW order \in SetToSeqs(held), drained' = order, overflow' = overflow \ held,
             UNCHANGED forfeit
      PROVE  CommInv'
  <2>0. held \subseteq Notes /\ IsFiniteSet(held)
    BY <1>0, FS_Subset DEF CommInv, CommTypeOK
  <2>1. PICK k \in Nat : k = Cardinality(held)
    BY <2>0, FS_CardinalityType
  <2>2. order \in [1 .. k -> held] /\ Once(order)
    BY <2>1 DEF SetToSeqs, Once
  <2>3. order \in Seq(Notes)
    BY <2>0, <2>2
  <2>4. \A n \in Notes : Has(order, n) <=> n \in held
    <3>1. order \in Injection(1 .. k, held)
      BY <2>2 DEF Injection, IsInjective, Once
    <3>2. IsFiniteSet(1 .. k) /\ Cardinality(1 .. k) = k
      BY <2>1, FS_Interval
    <3>3. order \in Surjection(1 .. k, held)
      BY <2>0, <2>1, <3>1, <3>2, FS_Injection
    <3>. QED  BY <2>2, <3>3 DEF Surjection, Has
  <2>. HIDE DEF held
  <2>5. IsFiniteSet(overflow')
    BY <1>4, FS_Subset DEF CommInv, CommTypeOK
  <2>6. CommTypeOK'
    BY <1>0, <1>4, <2>3, <2>5 DEF CommInv, CommTypeOK
  <2>7. OnceInv'
    BY <1>0, <1>2, <1>4, <2>2 DEF CommInv, OnceInv
  <2>8. held \subseteq overflow
    BY DEF held
  <2>9. PlaceInv'
    BY <1>0, <1>1, <1>2, <1>4, <2>4, <2>8, AddresseeTyped DEF CommInv, PlaceInv
  <2>. QED  BY <1>3, <2>6, <2>7, <2>9 DEF CommInv
<1>5. ASSUME NEW marked \in SUBSET held, overflow' = overflow \ marked,
             forfeit' = forfeit \cup marked, drained' = <<>>
      PROVE  CommInv'
  <2>1. marked \subseteq overflow
    OBVIOUS
  <2>2. IsFiniteSet(overflow')
    BY <1>5, FS_Subset DEF CommInv, CommTypeOK
  <2>3. CommTypeOK'
    BY <1>0, <1>5, <2>1, <2>2 DEF CommInv, CommTypeOK
  <2>4. OnceInv'
    BY <1>0, <1>2, <1>5 DEF CommInv, OnceInv
  <2>5. PlaceInv'
    BY <1>0, <1>2, <1>5, <2>1, AddresseeTyped DEF CommInv, PlaceInv
  <2>. QED  BY <1>3, <2>3, <2>4, <2>5 DEF CommInv
<1>. QED  BY <1>4, <1>5 DEF Drain

\* A restart forfeits what the inboxes hold, and what was being drained.
LEMMA RestartKeeps ==
    ASSUME CommInv, HubRestarts
    PROVE  CommInv'
<1>1. /\ inboxes' = [a \in Recipients |-> 0] /\ boxes' = <<>> /\ drained' = <<>>
      /\ target' = [n \in Notes |-> 0] /\ reader' = [r \in Readers |-> 0]
      /\ UNCHANGED <<overflow, received>>
      /\ forfeit' = forfeit \cup ToSet(drained) \cup UNION {ToSet(boxes[i]) : i \in DOMAIN boxes}
      /\ courier' = [n \in Notes |-> IF courier[n] \in {"sifted", "routed"} THEN "cut"
                                     ELSE courier[n]]
  BY DEF HubRestarts
<1>2. <<>> \in Seq(Notes) /\ <<>> \in Seq(Seq(Notes)) /\ Len(<<>>) = 0 /\ DOMAIN <<>> = {}
  OBVIOUS
<1>3. (\A n \in Notes : ~Has(<<>>, n)) /\ Once(<<>>)
  BY <1>2 DEF Has, Once
<1>4. \A a \in Recipients : Inbox(a)' = <<>>
  BY <1>1 DEF Inbox, Box
<1>5. /\ courier' \in [Notes -> Courier]
      /\ \A n \in Notes : courier'[n] # "routed" /\ ((courier'[n] = "sent") <=> (courier[n] = "sent"))
  BY <1>1 DEF CommInv, CommTypeOK, Courier
<1>6. /\ drained \in Seq(Notes) /\ boxes \in Seq(Seq(Notes)) /\ DOMAIN boxes = 1 .. Len(boxes)
      /\ Layout(inboxes, boxes)
  BY DEF CommInv, CommTypeOK, Layout
<1>7. \A n \in Notes : n \in ToSet(drained) <=> Has(drained, n)
  BY DEF ToSet, Has
<1>8. ASSUME NEW i \in DOMAIN boxes
      PROVE  \E a \in Recipients : inboxes[a] = i /\ boxes[i] = Inbox(a)
  <2>1. PICK a \in Recipients : inboxes[a] = i
    BY <1>6 DEF Layout
  <2>. QED  BY <1>6, <2>1 DEF Inbox, Box
<1>9. \A n \in Notes : (\E i \in DOMAIN boxes : n \in ToSet(boxes[i])) <=> Has(Inbox(Addressee[n]), n)
  <2>1. ASSUME NEW n \in Notes, NEW i \in DOMAIN boxes, n \in ToSet(boxes[i])
        PROVE  Has(Inbox(Addressee[n]), n)
    <3>1. PICK a \in Recipients : boxes[i] = Inbox(a)
      BY <1>8
    <3>2. Has(Inbox(a), n)
      BY <2>1, <3>1 DEF ToSet, Has
    <3>. QED  BY <3>2 DEF CommInv, OnceInv
  <2>2. ASSUME NEW n \in Notes, Has(Inbox(Addressee[n]), n)
        PROVE  \E i \in DOMAIN boxes : n \in ToSet(boxes[i])
    <3>1. PICK a \in Recipients : a = Addressee[n]
      BY AddresseeTyped
    <3>2. inboxes[a] # 0
      BY <1>3, <2>2, <3>1 DEF Inbox, Box
    <3>3. inboxes[a] \in DOMAIN boxes
      BY <1>6, <3>2 DEF Layout
    <3>4. Has(boxes[inboxes[a]], n)
      BY <2>2, <3>1, <3>2 DEF Inbox, Box
    <3>. QED  BY <3>3, <3>4 DEF ToSet, Has
  <2>. QED  BY <2>1, <2>2
<1>10. forfeit' \subseteq Notes
  <2>1. ToSet(drained) \subseteq Notes
    BY <1>6 DEF ToSet
  <2>2. \A i \in DOMAIN boxes : ToSet(boxes[i]) \subseteq Notes
    <3>1. \A i \in DOMAIN boxes : boxes[i] \in Seq(Notes)
      BY <1>6
    <3>. QED  BY <3>1 DEF ToSet
  <2>. QED  BY <1>1, <2>1, <2>2 DEF CommInv, CommTypeOK
<1>11. \A n \in Notes : n \in forfeit' <=> \/ n \in forfeit \/ Has(drained, n)
                                          \/ Has(Inbox(Addressee[n]), n)
  BY <1>1, <1>7, <1>9
<1>12. CommTypeOK'
  <2>1. Layout(inboxes', boxes')
    BY <1>1, <1>2 DEF Layout
  <2>. QED  BY <1>1, <1>2, <1>5, <1>10, <2>1 DEF CommInv, CommTypeOK
<1>13. FoundInv'
  BY <1>1, <1>5 DEF FoundInv
<1>14. OnceInv'
  BY <1>1, <1>3, <1>4 DEF CommInv, OnceInv
<1>15. PlaceInv'
  BY <1>1, <1>3, <1>4, <1>5, <1>11, AddresseeTyped DEF CommInv, PlaceInv
<1>. QED  BY <1>12, <1>13, <1>14, <1>15 DEF CommInv

LEMMA CommStep ==
    CommInv /\ [CommNext]_commVars => CommInv'
<1>1. ASSUME CommInv, UNCHANGED commVars
      PROVE  CommInv'
  <2>1. CommTypeOK' /\ FoundInv'
    BY <1>1 DEF commVars, CommInv, CommTypeOK, FoundInv
  <2>2. OnceInv' /\ PlaceInv'
    BY <1>1, StillThere DEF commVars, Inbox
  <2>. QED  BY <2>1, <2>2 DEF CommInv
<1>. QED  BY <1>1, SendKeeps, DeliverKeeps, LookupKeeps, TakeOutKeeps, DrainKeeps, RedeliverKeeps,
             RestartKeeps DEF CommNext

\* The number of times a message is in a sequence without repetitions.
LEMMA CountOnce ==
    ASSUME NEW s, Once(s), NEW n
    PROVE  Cardinality({i \in DOMAIN s : s[i] = n}) = IF Has(s, n) THEN 1 ELSE 0
<1>1. CASE Has(s, n)
  <2>1. PICK i \in DOMAIN s : s[i] = n
    BY <1>1 DEF Has
  <2>2. {j \in DOMAIN s : s[j] = n} = {i}
    BY <2>1 DEF Once
  <2>. QED  BY <1>1, <2>2, FS_Singleton
<1>2. CASE ~Has(s, n)
  <2>1. {j \in DOMAIN s : s[j] = n} = {}
    BY <1>2 DEF Has
  <2>. QED  BY <1>2, <2>1, FS_EmptySet
<1>. QED  BY <1>1, <1>2

(* A message that was sent is received once or waits where its agent can    *)
(* receive it, unless a failure or a restart has lost it, for any numbers   *)
(* of messages, agents and readers and any size of the inboxes (hub.go:     *)
(* Send, deliver, Receive, DrainOverflow).  Two facts carry it: an inbox    *)
(* that was found stays that of its agent, and no sequence has a message    *)
(* twice.                                                                   *)
THEOREM HubKeepsMessages == CommSpec => []HubKeepsAll
<1>1. ASSUME CommInv, NEW n \in Notes
      PROVE  Places(n) = IF courier[n] = "sent" THEN 1 ELSE 0
  <2>. DEFINE a == Addressee[n]
              count(s) == Cardinality({i \in DOMAIN s : s[i] = n})
              sets == Cardinality({s \in {overflow, forfeit} : n \in s})
              here == IF inboxes[a] = 0 THEN 0 ELSE count(boxes[inboxes[a]])
  <2>1. Places(n) = count(received) + count(drained) + here + sets
    BY DEF Places
  <2>2. /\ count(received) = IF Has(received, n) THEN 1 ELSE 0
        /\ count(drained) = IF Has(drained, n) THEN 1 ELSE 0
    BY <1>1, CountOnce DEF CommInv, OnceInv
  <2>3. here = IF Has(Inbox(a), n) THEN 1 ELSE 0
    <3>1. CASE inboxes[a] = 0
      <4>1. Inbox(a) = <<>> /\ DOMAIN <<>> = {}
        BY <3>1 DEF Inbox, Box
      <4>. QED  BY <3>1, <4>1 DEF Has
    <3>2. CASE inboxes[a] # 0
      <4>1. Inbox(a) = boxes[inboxes[a]] /\ Once(Inbox(a))
        BY <1>1, <3>2, AddresseeTyped DEF Inbox, Box, CommInv, OnceInv
      <4>. QED  BY <3>2, <4>1, CountOnce
    <3>. QED  BY <3>1, <3>2
  <2>4. sets = IF n \in overflow \/ n \in forfeit THEN 1 ELSE 0
    <3>0. ~(n \in overflow /\ n \in forfeit)
      BY <1>1 DEF CommInv, PlaceInv
    <3>1. CASE n \in overflow
      <4>1. {s \in {overflow, forfeit} : n \in s} = {overflow}
        BY <3>0, <3>1
      <4>. QED  BY <3>1, <4>1, FS_Singleton
    <3>2. CASE n \in forfeit
      <4>1. {s \in {overflow, forfeit} : n \in s} = {forfeit}
        BY <3>0, <3>2
      <4>. QED  BY <3>2, <4>1, FS_Singleton
    <3>3. CASE n \notin overflow /\ n \notin forfeit
      <4>1. {s \in {overflow, forfeit} : n \in s} = {}
        BY <3>3
      <4>. QED  BY <3>3, <4>1, FS_EmptySet
    <3>. QED  BY <3>1, <3>2, <3>3
  <2>. HIDE DEF count, here, sets
  <2>. QED  BY <1>1, <2>1, <2>2, <2>3, <2>4 DEF CommInv, PlaceInv
<1>2. CommInv => HubKeepsAll
  BY <1>1 DEF HubKeepsAll
<1>. QED  BY <1>2, CommStart, CommStep, PTL DEF CommSpec
=============================================================================
