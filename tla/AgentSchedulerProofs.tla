----------------------- MODULE AgentSchedulerProofs -----------------------
(***************************************************************************)
(* Proofs about AgentScheduler for any number of agents, messages, calls,  *)
(* restarts and failures of the store, and whatever update_agent is asked  *)
(* to write: an agent whose status no such call has misplaced never has    *)
(* two drain loops and is not left active silently.  AgentSchedulerOverlap *)
(* shows the first fail of the others.                                     *)
(***************************************************************************)
EXTENDS AgentScheduler, SequenceTheorems, TLAPS

Looking == {"peek", "get", "put", "reset", "prompt", "getPrompted", "putPrompted"}

Placed == Agents \ misplaced

\* The parts of the inductive invariant.  The agents a tick has still to look
\* at, or looks at, have no drain loop: the list was true when it was read and
\* only this goroutine starts loops.
LookedAtIsFree ==
    \A a \in Placed : Draining(a) => a \notin todo /\ ~(at \in Looking /\ cur = a)

LookedAtOnce == at \in Looking => cur \notin todo

\* The row of an agent with a drain loop keeps the scheduler away from it.
LiveIsBusy == \A a \in Placed : Draining(a) => row[a] \in {"active", "suspended"}

DownIsQuiet ==
    /\ phase # "up" => at = "wait" /\ todo = {}
    /\ phase = "down" => \A a \in Agents : ~Draining(a)

SchedulerInv ==
    /\ SchedulerTypeOK
    /\ DrainsAlone
    /\ ActiveIsServed
    /\ LookedAtIsFree
    /\ LookedAtOnce
    /\ LiveIsBusy
    /\ DownIsQuiet
-----------------------------------------------------------------------------
LEMMA RemoveAtType ==
    ASSUME NEW S, NEW q \in Seq(S), NEW i \in 1 .. Len(q)
    PROVE  Sq!RemoveAt(q, i) \in Seq(S)
<1>1. SubSeq(q, 1, i - 1) \in Seq(S)
  BY SubSeqProperties, i - 1 \in Int
<1>2. SubSeq(q, i + 1, Len(q)) \in Seq(S)
  BY SubSeqProperties, i + 1 \in Int
<1> QED
  BY <1>1, <1>2, ConcatProperties DEF Sq!RemoveAt

LEMMA AttemptType ==
    ASSUME NEW op, NEW ok \in BOOLEAN, faults \in 0 .. MaxFaults, Attempt(op, ok)
    PROVE  faults' \in 0 .. MaxFaults
BY SchedulerAssumption DEF Attempt

LEMMA LoopType ==
    ASSUME loop \in [Agents -> [Loops -> LoopSteps]],
           NEW a \in Agents, NEW k \in Loops, NEW step \in LoopSteps
    PROVE  [loop EXCEPT ![a][k] = step] \in [Agents -> [Loops -> LoopSteps]]
OBVIOUS

LEMMA AppendItem ==
    ASSUME queue \in [Agents -> Seq(Item)], prompts \in 0 .. MaxPrompts,
           prompts < MaxPrompts, NEW p \in {1, 2}, NEW a \in Agents
    PROVE  /\ [queue EXCEPT ![a] = Append(@, Prompt(p))] \in [Agents -> Seq(Item)]
           /\ prompts + 1 \in 0 .. MaxPrompts
<1>1. Prompt(p) \in Item
  BY SchedulerAssumption DEF Prompt, Item
<1> QED
  BY <1>1, SchedulerAssumption

\* The types of every variable are kept by every step, whatever the calls
\* of update_agent ask for.
LEMMA TypeStep ==
    ASSUME SchedulerTypeOK, [SchedulerNext]_schedulerVars
    PROVE  SchedulerTypeOK'
<1> USE SchedulerAssumption DEF SchedulerTypeOK, tickVars, Statuses, TickSteps, LoopSteps
<1>1. CASE Start
  BY <1>1, AttemptType DEF Start, Recovered
<1>2. CASE Stop
  BY <1>2 DEF Stop
<1>3. CASE Crash
  <2>1. crashes' \in 0 .. MaxCrashes
    BY <1>3 DEF Crash
  <2>2. draft' \in [Editors -> Draft]
    BY <1>3 DEF Crash, NoDraft, Draft
  <2>3. loop' \in [Agents -> [Loops -> LoopSteps]]
    BY <1>3 DEF Crash
  <2> QED
    BY <1>3, <2>1, <2>2, <2>3 DEF Crash
<1>4. CASE DebounceEnds
  BY <1>4 DEF DebounceEnds
<1>5. CASE Tick
  BY <1>5, AttemptType DEF Tick
<1>6. CASE NextAgent
  BY <1>6 DEF NextAgent
<1>7. CASE Peek
  BY <1>7, AttemptType DEF Peek, NotDispatched
<1>8. CASE GetForActivation
  BY <1>8, AttemptType DEF GetForActivation, NotDispatched
<1>9. CASE Activate
  <2>1. PICK ok \in BOOLEAN : Activate!2!(ok)
    BY <1>9 DEF Activate
  <2>2. faults' \in 0 .. MaxFaults
    BY <2>1, AttemptType
  <2>3. cur \in Agents
    BY <1>9 DEF Activate
  <2>4. loop' \in [Agents -> [Loops -> LoopSteps]]
    <3>1. CASE UNCHANGED loop
      BY <3>1
    <3>2. CASE Spawn(cur)
      BY <2>3, <3>2, LoopType DEF Spawn
    <3> QED
      BY <2>1, <3>1, <3>2
  <2> QED
    BY <1>9, <2>1, <2>2, <2>3, <2>4 DEF Activate, NotDispatched
<1>10. CASE Reset
  BY <1>10, AttemptType DEF Reset
<1>11. CASE PromptTasks
  <2>1. faults' \in 0 .. MaxFaults
    BY <1>11, AttemptType DEF PromptTasks
  <2>2. prompts' \in 0 .. MaxPrompts /\ queue' \in [Agents -> Seq(Item)]
    <3>1. CASE UNCHANGED <<queue, prompts>>
      BY <3>1
    <3>2. CASE /\ prompts < MaxPrompts
               /\ prompts' = prompts + 1
               /\ queue' = [queue EXCEPT ![cur] = Append(@, Prompt(1))]
      <4>1. cur \in Agents
        BY <1>11 DEF PromptTasks
      <4> QED
        BY <3>2, <4>1, AppendItem
    <3> QED
      BY <1>11, <3>1, <3>2 DEF PromptTasks
  <2> QED
    BY <1>11, <2>1, <2>2 DEF PromptTasks
<1>12. CASE RouteTasks
  <2>1. faults' \in 0 .. MaxFaults
    BY <1>12, AttemptType DEF RouteTasks
  <2>2. prompts' \in 0 .. MaxPrompts /\ queue' \in [Agents -> Seq(Item)]
    <3>1. CASE UNCHANGED <<queue, prompts>>
      BY <3>1
    <3>2. CASE /\ Chief \in Agents /\ prompts < MaxPrompts
               /\ prompts' = prompts + 1
               /\ queue' = [queue EXCEPT ![Chief] = Append(@, Prompt(2))]
      BY <3>2, AppendItem
    <3> QED
      BY <1>12, <3>1, <3>2 DEF RouteTasks
  <2> QED
    BY <1>12, <2>1, <2>2 DEF RouteTasks
<1>13. ASSUME NEW a \in Agents, NEW k \in Loops, DrainLoop(a, k)
       PROVE  SchedulerTypeOK'
  <2>1. CASE Take(a, k)
    <3>1. \A i \in First(queue[a]) : Sq!RemoveAt(queue[a], i) \in Seq(Item)
      BY RemoveAtType DEF First
    <3>2. faults' \in 0 .. MaxFaults
      BY <2>1, AttemptType DEF Take
    <3>3. queue' \in [Agents -> Seq(Item)]
      <4>1. CASE UNCHANGED queue
        BY <4>1
      <4>2. CASE \E i \in First(queue[a]) :
                    queue' = [queue EXCEPT ![a] = Sq!RemoveAt(@, i)]
        BY <3>1, <4>2
      <4> QED
        BY <2>1, <4>1, <4>2 DEF Take
    <3>4. loop' \in [Agents -> [Loops -> LoopSteps]]
      <4>1. loop' = [loop EXCEPT ![a][k] = "run"] \/ loop' = [loop EXCEPT ![a][k] = "finish"]
        BY <2>1 DEF Take, Goto
      <4>2. CASE loop' = [loop EXCEPT ![a][k] = "run"]
        BY <4>2, LoopType
      <4>3. CASE loop' = [loop EXCEPT ![a][k] = "finish"]
        BY <4>3, LoopType
      <4> QED
        BY <4>1, <4>2, <4>3
    <3> QED
      BY <2>1, <3>2, <3>3, <3>4 DEF Take
  <2>2. CASE Complete(a, k)
    <3>1. loop' \in [Agents -> [Loops -> LoopSteps]]
      <4>1. CASE Goto(a, k, "take")
        BY <4>1, LoopType DEF Goto
      <4>2. CASE Goto(a, k, "mark")
        BY <4>2, LoopType DEF Goto
      <4> QED
        BY <2>2, <4>1, <4>2 DEF Complete
    <3> QED
      BY <2>2, <3>1 DEF Complete
  <2>3. CASE CompleteDisabled(a, k)
    BY <2>3, AttemptType DEF CompleteDisabled, Goto
  <2>4. CASE MarkError(a, k)
    <3>1. faults' \in 0 .. MaxFaults
      BY <2>4, AttemptType DEF MarkError
    <3>2. loop' \in [Agents -> [Loops -> LoopSteps]]
      BY <2>4, LoopType DEF MarkError, AfterError, Goto
    <3>3. row' \in [Agents -> Statuses] /\ reported' \subseteq Agents
      BY <2>4 DEF MarkError
    <3> QED
      BY <2>4, <3>1, <3>2, <3>3 DEF MarkError
  <2>5. CASE Finish(a, k)
    BY <2>5, AttemptType DEF Finish, Goto
  <2>6. CASE PutIdle(a, k)
    BY <2>6, AttemptType DEF PutIdle, Goto
  <2> QED
    BY <1>13, <2>1, <2>2, <2>3, <2>4, <2>5, <2>6 DEF DrainLoop
<1>14. ASSUME NEW m \in Msgs, Send(m)
       PROVE  SchedulerTypeOK'
  <2>1. [id |-> m, priority |-> 0] \in Item
    BY DEF Item
  <2>2. queue' \in [Agents -> Seq(Item)]
    BY <1>14, <2>1 DEF Send
  <2> QED
    BY <1>14, <2>2 DEF Send
<1>15. ASSUME NEW e \in Editors, NEW a \in Agents, EditRead(e, a)
       PROVE  SchedulerTypeOK'
  BY <1>15 DEF EditRead, Draft
<1>16. ASSUME NEW e \in Editors, EditWrite(e)
       PROVE  SchedulerTypeOK'
  <2>1. draft[e] \in Draft /\ draft[e].agent # NoAgent
    BY <1>16 DEF EditWrite
  <2>2. draft[e].agent \in Agents /\ draft[e].status \in Statuses
    BY <2>1 DEF Draft
  <2>3. row' \in [Agents -> Statuses]
    BY <1>16, <2>2 DEF EditWrite, Written
  <2>4. draft' = [draft EXCEPT ![e] = [agent |-> NoAgent, status |-> draft[e].status]]
    BY <1>16, <2>1 DEF EditWrite, Draft
  <2>5. draft' \in [Editors -> Draft]
    BY <2>2, <2>4 DEF Draft
  <2> QED
    BY <1>16, <2>3, <2>5 DEF EditWrite
<1>17. CASE UNCHANGED schedulerVars
  BY <1>17 DEF schedulerVars
<1> QED
  BY <1>1, <1>2, <1>3, <1>4, <1>5, <1>6, <1>7, <1>8, <1>9, <1>10, <1>11, <1>12,
     <1>13, <1>14, <1>15, <1>16, <1>17 DEF SchedulerNext, Scheduler

LEMMA TypeStart == SchedulerInit => SchedulerTypeOK
<1> SUFFICES ASSUME SchedulerInit PROVE SchedulerTypeOK
  OBVIOUS
<1>1. queue \in [Agents -> Seq(Item)]
  BY DEF SchedulerInit
<1>2. draft \in [Editors -> Draft]
  BY DEF SchedulerInit, NoDraft, Draft
<1>3. loop \in [Agents -> [Loops -> LoopSteps]]
  BY DEF SchedulerInit, LoopSteps
<1>4. /\ prompts \in 0 .. MaxPrompts
      /\ faults \in 0 .. MaxFaults
      /\ crashes \in 0 .. MaxCrashes
  BY SchedulerAssumption DEF SchedulerInit
<1>5. row \in [Agents -> Statuses] /\ snap \in [Agents -> Statuses]
  BY DEF SchedulerInit, Statuses
<1> QED
  BY <1>1, <1>2, <1>3, <1>4, <1>5
     DEF SchedulerInit, SchedulerTypeOK, TickSteps

\* Every variable of the scheduler has its type in every reachable state.
THEOREM SchedulerTypeCorrect == SchedulerSpec => []SchedulerTypeOK
BY TypeStart, TypeStep, PTL DEF SchedulerSpec
-----------------------------------------------------------------------------
\* SchedulerInv without the types, which TypeStep has shown.
SafeParts ==
    /\ DrainsAlone
    /\ ActiveIsServed
    /\ LookedAtIsFree
    /\ LookedAtOnce
    /\ LiveIsBusy
    /\ DownIsQuiet

\* A loop that goes on changes nobody's loops.
LEMMA StaysLive ==
    ASSUME loop \in [Agents -> [Loops -> LoopSteps]],
           NEW a \in Agents, NEW k \in Loops, loop[a][k] # "none",
           NEW step \in LoopSteps \ {"none"}, Goto(a, k, step)
    PROVE  \A b \in Agents, j \in Loops : loop'[b][j] = "none" <=> loop[b][j] = "none"
BY DEF Goto

LEMMA SafeStep ==
    ASSUME SchedulerInv, [SchedulerNext]_schedulerVars
    PROVE  SafeParts'
<1> USE DEF SchedulerInv, SafeParts, DrainsAlone, ActiveIsServed, LookedAtIsFree,
            LookedAtOnce, LiveIsBusy, DownIsQuiet, Placed, Draining, Looking, tickVars
<1> DEFINE Typed == /\ row \in [Agents -> Statuses]
                    /\ loop \in [Agents -> [Loops -> LoopSteps]]
                    /\ phase \in {"down", "up", "stopping"}
                    /\ todo \subseteq Agents
<1>0. Typed
  BY DEF SchedulerTypeOK
<1>1. CASE Start
  BY <1>0, <1>1 DEF Start, Recovered, Statuses
<1>2. CASE Stop
  BY <1>0, <1>2 DEF Stop
<1>3. CASE Crash
  BY <1>0, <1>3 DEF Crash
<1>4. CASE DebounceEnds
  BY <1>0, <1>4 DEF DebounceEnds
<1>5. CASE Tick
  BY <1>0, <1>5 DEF Tick, Serviced
<1>6. CASE NextAgent
  BY <1>0, <1>6 DEF NextAgent
<1>7. CASE Peek
  BY <1>0, <1>7 DEF Peek, NotDispatched
<1>8. CASE GetForActivation
  BY <1>0, <1>8 DEF GetForActivation, NotDispatched
<1>9. CASE Activate
  <2>1. /\ cur \in Agents /\ cur \notin todo /\ misplaced' = misplaced
        /\ cur \in Placed => ~Draining(cur)
    BY <1>9 DEF Activate, SchedulerTypeOK, TickSteps
  <2>2. phase' = phase /\ todo' = todo /\ cur' = cur /\ phase = "up"
    BY <1>0, <1>9 DEF Activate
  <2>3. CASE /\ row' = [row EXCEPT ![cur] = "active"]
             /\ reported' = reported \ {cur}
             /\ Spawn(cur) /\ at' = "agent"
    <3>1. PICK k \in Loops : loop' = [loop EXCEPT ![cur][k] = "take"]
      BY <2>3 DEF Spawn
    <3>2. \A b \in Agents \ {cur} : loop'[b] = loop[b] /\ row'[b] = row[b]
      BY <1>0, <2>3, <3>1
    <3>3. cur \in Placed => \A j \in Loops : loop'[cur][j] # "none" <=> j = k
      BY <1>0, <2>1, <3>1
    <3>4. row'[cur] = "active"
      BY <1>0, <2>1, <2>3
    <3>6. DrainsAlone'
      <4>. SUFFICES ASSUME NEW b \in Placed, NEW i \in Loops, NEW j \in Loops,
                           loop'[b][i] # "none", loop'[b][j] # "none"
                    PROVE  i = j
        BY <2>1
      <4>1. CASE b = cur
        BY <3>3, <4>1
      <4>2. CASE b # cur
        BY <3>2, <4>2
      <4>. QED  BY <4>1, <4>2
    <3>7. cur \in Placed => loop'[cur][k] # "none"
      BY <3>3
    <3>8. ActiveIsServed' /\ LiveIsBusy'
      <4>. SUFFICES ASSUME NEW b \in Placed
                    PROVE  /\ b \notin reported' /\ row'[b] = "active" => Draining(b)'
                           /\ Draining(b)' => row'[b] \in {"active", "suspended"}
        BY <2>1, <2>2
      <4>1. CASE b = cur
        BY <3>4, <3>7, <4>1
      <4>2. CASE b # cur
        BY <2>2, <2>3, <3>2, <4>2
      <4>. QED  BY <4>1, <4>2
    <3>5. DrainsAlone' /\ ActiveIsServed' /\ LiveIsBusy'
      BY <3>6, <3>8
    <3> QED
      BY <2>1, <2>2, <2>3, <3>2, <3>5
  <2>4. CASE UNCHANGED <<row, loop, reported>> /\ at' \in {"reset", "prompt", "agent"}
    BY <1>9, <2>1, <2>2, <2>4 DEF Activate
  <2> QED
    BY <1>9, <2>3, <2>4 DEF Activate, NotDispatched
<1>10. CASE Reset
  BY <1>0, <1>10 DEF Reset
<1>11. CASE PromptTasks
  BY <1>0, <1>11 DEF PromptTasks
<1>12. CASE RouteTasks
  BY <1>0, <1>12 DEF RouteTasks
<1>13. ASSUME NEW a \in Agents, NEW k \in Loops, DrainLoop(a, k)
       PROVE  SafeParts'
  <2>1. CASE Take(a, k)
    <3>1. Goto(a, k, "run") \/ Goto(a, k, "finish")
      BY <2>1 DEF Take
    <3>2. \A b \in Agents, j \in Loops : loop'[b][j] = "none" <=> loop[b][j] = "none"
      <4>1. loop[a][k] # "none" /\ {"run", "finish"} \subseteq LoopSteps \ {"none"}
        BY <2>1 DEF Take, LoopSteps
      <4> QED
        BY <1>0, <3>1, <4>1, StaysLive
    <3> QED
      BY <2>1, <3>2 DEF Take
  <2>2. CASE Complete(a, k)
    <3>1. \A b \in Agents, j \in Loops : loop'[b][j] = "none" <=> loop[b][j] = "none"
      <4>1. loop[a][k] # "none" /\ {"take", "mark"} \subseteq LoopSteps \ {"none"}
        BY <2>2 DEF Complete, LoopSteps
      <4> QED
        BY <1>0, <2>2, <4>1, StaysLive DEF Complete
    <3> QED
      BY <2>2, <3>1 DEF Complete
  <2>3. CASE CompleteDisabled(a, k)
    BY <1>0, <2>3 DEF CompleteDisabled, Goto
  <2>4. CASE MarkError(a, k)
    BY <1>0, <2>4 DEF MarkError, AfterError, Goto
  <2>5. CASE Finish(a, k)
    BY <1>0, <2>5 DEF Finish, Goto
  <2>6. CASE PutIdle(a, k)
    BY <1>0, <2>6 DEF PutIdle, Goto
  <2> QED
    BY <1>13, <2>1, <2>2, <2>3, <2>4, <2>5, <2>6 DEF DrainLoop
<1>14. ASSUME NEW m \in Msgs, Send(m)
       PROVE  SafeParts'
  BY <1>0, <1>14 DEF Send
<1>15. ASSUME NEW e \in Editors, NEW a \in Agents, EditRead(e, a)
       PROVE  SafeParts'
  BY <1>0, <1>15 DEF EditRead
<1>16. ASSUME NEW e \in Editors, EditWrite(e)
       PROVE  SafeParts'
  <2>. DEFINE a == draft[e].agent
  <2>1. PICK s : /\ row' = [row EXCEPT ![a] = s]
                 /\ misplaced' = IF Misplaces(a, s) THEN misplaced \cup {a} ELSE misplaced
    BY <1>16 DEF EditWrite
  <2>2. UNCHANGED <<loop, phase, at, cur, todo, reported>> /\ Placed' \subseteq Placed
    BY <1>16, <2>1 DEF EditWrite
  <2>3. ASSUME NEW b \in Placed'
        PROVE  /\ Draining(b) => row'[b] \in {"active", "suspended"}
               /\ phase # "down" /\ b \notin reported /\ row'[b] = "active" => Draining(b)
    <3>1. CASE b # a
      BY <1>0, <2>1, <2>2, <2>3, <3>1
    <3>2. CASE b = a
      <4>1. ~Misplaces(a, s) /\ row'[a] = s
        BY <1>0, <2>1, <2>3, <3>2
      <4>2. s \in Statuses
        BY <1>16, <2>1, <4>1, TypeStep, <3>2 DEF SchedulerTypeOK
      <4>. QED  BY <3>2, <4>1, <4>2 DEF Misplaces, Statuses
    <3>. QED  BY <3>1, <3>2
  <2>. QED  BY <2>2, <2>3
<1>17. CASE UNCHANGED schedulerVars
  BY <1>0, <1>17 DEF schedulerVars
<1> QED
  BY <1>1, <1>2, <1>3, <1>4, <1>5, <1>6, <1>7, <1>8, <1>9, <1>10, <1>11, <1>12,
     <1>13, <1>14, <1>15, <1>16, <1>17 DEF SchedulerNext, Scheduler

LEMMA InvStart == SchedulerInit => SchedulerInv
BY TypeStart DEF SchedulerInit, SchedulerInv, DrainsAlone, ActiveIsServed, LookedAtIsFree,
   LookedAtOnce, LiveIsBusy, DownIsQuiet, Placed, Draining, Looking

\* The inductive invariant holds throughout, whatever update_agent is asked
\* to write.
THEOREM SchedulerInvariant == SchedulerSpec => []SchedulerInv
<1>1. SchedulerInv /\ [SchedulerNext]_schedulerVars => SchedulerInv'
  BY TypeStep, SafeStep DEF SchedulerInv, SafeParts
<1> QED
  BY InvStart, <1>1, PTL DEF SchedulerSpec

\* An agent whose status update_agent has not misplaced since the process
\* started never has two drain loops: its messages are worked on one after the
\* other, across restarts and whatever operations of the store fail.
THEOREM AgentsDrainAlone == SchedulerSpec => []DrainsAlone
BY SchedulerInvariant, PTL DEF SchedulerInv

\* No agent is left active without a drain loop unless the log warns of it or
\* a call of update_agent has made it so.
THEOREM ActiveAreServed == SchedulerSpec => []ActiveIsServed
BY SchedulerInvariant, PTL DEF SchedulerInv
-----------------------------------------------------------------------------
\* Who may make an agent in error idle, as in ErrorKept.
MayClear(a) == (at = "reset" /\ cur = a) \/ phase = "down" \/ draft' # draft

LEMMA ClearStep ==
    ASSUME SchedulerInv, [SchedulerNext]_schedulerVars,
           NEW a \in Agents \ misplaced, row[a] = "error", row'[a] = "idle"
    PROVE  MayClear(a)
<1>0. /\ row \in [Agents -> Statuses]
      /\ draft \in [Editors -> Draft]
  BY DEF SchedulerInv, SchedulerTypeOK
<1>1. row' # row
  OBVIOUS
<1>2. CASE Start
  BY <1>2 DEF Start, MayClear
<1>3. CASE Activate
  BY <1>0, <1>3 DEF Activate
<1>4. CASE Reset
  BY <1>0, <1>4 DEF Reset, MayClear
<1>5. ASSUME NEW b \in Agents, NEW k \in Loops, DrainLoop(b, k)
      PROVE  MayClear(a)
  <2>1. CASE CompleteDisabled(b, k)
    BY <1>0, <2>1 DEF CompleteDisabled
  <2>2. CASE MarkError(b, k)
    BY <1>0, <2>2 DEF MarkError
  <2>3. CASE PutIdle(b, k)
    <3>1. b \in Placed => row[b] # "error"
      BY <2>3 DEF PutIdle, SchedulerInv, LiveIsBusy, Draining
    <3> QED
      BY <1>0, <2>3, <3>1 DEF PutIdle, Placed
  <2>4. CASE Take(b, k) \/ Complete(b, k) \/ Finish(b, k)
    BY <1>1, <2>4 DEF Take, Complete, Finish
  <2> QED
    BY <1>5, <2>1, <2>2, <2>3, <2>4 DEF DrainLoop
<1>6. ASSUME NEW e \in Editors, EditWrite(e)
      PROVE  MayClear(a)
  <2>1. draft[e].agent # NoAgent /\ draft'[e].agent = NoAgent
    BY <1>0, <1>6 DEF EditWrite
  <2> QED
    BY <2>1 DEF MayClear
<1>7. CASE Stop \/ Crash \/ DebounceEnds
  BY <1>1, <1>7 DEF Stop, Crash, DebounceEnds
<1>8. CASE Tick \/ NextAgent \/ Peek \/ GetForActivation \/ PromptTasks \/ RouteTasks
  BY <1>1, <1>8 DEF Tick, NextAgent, Peek, GetForActivation, PromptTasks, RouteTasks
<1>9. CASE \/ \E m \in Msgs : Send(m)
           \/ \E e \in Editors, b \in Agents : EditRead(e, b)
  BY <1>1, <1>9 DEF Send, EditRead
<1>10. CASE UNCHANGED schedulerVars
  BY <1>1, <1>10 DEF schedulerVars
<1> QED
  BY <1>2, <1>3, <1>4, <1>5, <1>6, <1>7, <1>8, <1>9, <1>10 DEF SchedulerNext, Scheduler

\* The idle reset of a drain loop never clobbers an error, but that of an agent
\* whose status update_agent has misplaced.
THEOREM ErrorIsKept == SchedulerSpec => ErrorKept
<1>1. SchedulerInv /\ [SchedulerNext]_schedulerVars =>
        [\A a \in Agents \ misplaced : row[a] = "error" /\ row'[a] = "idle" =>
            (at = "reset" /\ cur = a) \/ phase = "down" \/ draft' # draft]_schedulerVars
  BY ClearStep DEF MayClear
<1> QED
  BY SchedulerInvariant, <1>1, PTL DEF SchedulerSpec, ErrorKept
=============================================================================
