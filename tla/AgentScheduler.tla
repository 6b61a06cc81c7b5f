-------------------------- MODULE AgentScheduler --------------------------
(***************************************************************************)
(* The agent scheduler (internal/scheduler): one goroutine that looks at   *)
(* every agent once per tick, one drain loop per agent it has activated,   *)
(* and the callers of send_message and update_agent, all of which meet in  *)
(* the agents table and in the durable work queue.  The status of an agent *)
(* is read and written in two statements, never in a transaction.          *)
(***************************************************************************)
EXTENDS Integers, Sequences, FiniteSets

CONSTANTS
    Agents,      \* the agents with a provider that are not internal
    Chief,       \* the chief of staff, an agent, or NoAgent
    NoAgent,
    Msgs,        \* the messages sent to agents
    To,          \* To[m]: whom a message is for
    Editors,     \* concurrent calls of update_agent
    Given,       \* the statuses these calls ask for; "keep": none is given
    CanFail,     \* the store operations that may fail
    MaxFaults,   \* bound: failures of the store
    MaxPrompts,  \* bound: prompts and triage requests the scheduler writes
    MaxCrashes,  \* bound: restarts
    MaxLoops     \* bound: drain loops of one agent at a time

Statuses == {"idle", "active", "error", "suspended"}

Operations == {"list", "peek", "get", "update", "enqueue", "dequeue", "error"}

ASSUME SchedulerAssumption ==
    /\ NoAgent \notin Agents
    /\ Chief \in Agents \cup {NoAgent}
    /\ To \in [Msgs -> Agents]
    /\ Given \subseteq Statuses \cup {"keep"}
    /\ CanFail \subseteq Operations
    /\ MaxFaults \in Nat /\ MaxPrompts \in Nat /\ MaxCrashes \in Nat
    /\ MaxLoops \in Nat \ {0}

VARIABLES
    row,        \* agents.status
    queue,      \* agent_work_queue: the items not consumed, oldest first
    sent,       \* the messages sent so far
    phase,      \* the process is down, up, or up with its context cancelled
    at,         \* where the scheduler's goroutine is
    cur,        \* the agent it looks at
    snap,       \* the statuses its List returned
    todo,       \* the agents of that list it has not looked at yet
    loop,       \* loop[a][k]: where the k-th drain loop of a is
    prompted,   \* agents prompted less than taskPromptInterval ago
    swept,      \* the last sweep is less than unassignedSweepInterval ago
    prompts,    \* how many prompts and triage requests were written
    reported,   \* agents a log line says may be left as they were
    draft,      \* per update_agent call: the agent and the status it read
    misplaced,  \* agents whose status update_agent has written against the
                \* scheduler since the process started
    faults,     \* how many operations of the store failed
    crashes     \* how many times the process ended

tickVars == <<at, cur, snap, todo>>
schedulerVars == <<row, queue, sent, phase, at, cur, snap, todo, loop, prompted,
                   swept, prompts, reported, draft, misplaced, faults, crashes>>

Loops == 1 .. MaxLoops
TickSteps == {"wait", "agent", "peek", "get", "put", "reset", "prompt",
              "getPrompted", "putPrompted", "route"}
LoopSteps == {"none", "take", "run", "mark", "finish", "put"}

NoDraft == [agent |-> NoAgent, status |-> "keep"]

\* An operation of the store succeeds (ok) or is one of those that may fail.
Attempt(op, ok) ==
    /\ ok \/ (op \in CanFail /\ faults < MaxFaults)
    /\ faults' = IF ok THEN faults ELSE faults + 1

\* Of what the bounds allow, some may be spent: the counters do nothing else.
SchedulerInit ==
    /\ row = [a \in Agents |-> "idle"]
    /\ queue = [a \in Agents |-> <<>>]
    /\ sent = {}
    /\ phase = "down"
    /\ at = "wait" /\ cur = NoAgent /\ todo = {}
    /\ snap = [a \in Agents |-> "idle"]
    /\ loop = [a \in Agents |-> [k \in Loops |-> "none"]]
    /\ prompted = {}
    /\ swept = FALSE
    /\ prompts \in 0 .. MaxPrompts
    /\ reported = {}
    /\ draft = [e \in Editors |-> NoDraft]
    /\ misplaced = {}
    /\ faults \in 0 .. MaxFaults
    /\ crashes \in 0 .. MaxCrashes
-----------------------------------------------------------------------------
(* Start and end of the process *)

\* Mutant of Recovered: only agents in error are recovered.
RecoveredErrors(s) == IF s = "error" THEN "idle" ELSE s

\* RecoverOnStartup makes an agent of this status idle.
Recovered(s) == IF s \in {"active", "error", "suspended"} THEN "idle" ELSE s

\* RecoverOnStartup runs before anybody else: its List fails for all agents
\* or its Update for some of them, which stay as they were.
Start ==
    /\ phase = "down"
    /\ \E failed \in SUBSET Agents :
        /\ Attempt("update", failed = {})
        /\ row' = [a \in Agents |-> IF a \in failed THEN row[a] ELSE Recovered(row[a])]
        /\ reported' = failed
    /\ misplaced' = {}
    /\ phase' = "up"
    /\ UNCHANGED <<queue, sent, at, cur, snap, todo, loop, prompted, swept,
                   prompts, draft, crashes>>

\* The context is cancelled: every statement the scheduler has left fails.
Stop ==
    /\ phase = "up"
    /\ crashes < MaxCrashes
    /\ phase' = "stopping"
    /\ at' = "wait" /\ cur' = NoAgent /\ todo' = {}
    /\ UNCHANGED <<row, queue, sent, snap, loop, prompted, swept, prompts,
                   reported, draft, misplaced, faults, crashes>>

\* The process ends, whatever it was doing: nobody waits for drain loops.
\* What a loop has dequeued is consumed, its completion is gone.
Crash ==
    /\ phase # "down"
    /\ crashes < MaxCrashes
    /\ phase' = "down"
    /\ at' = "wait" /\ cur' = NoAgent /\ todo' = {}
    /\ loop' = [a \in Agents |-> [k \in Loops |-> "none"]]
    /\ prompted' = {} /\ swept' = FALSE
    /\ draft' = [e \in Editors |-> NoDraft]
    /\ crashes' = crashes + 1
    /\ UNCHANGED <<row, queue, sent, snap, prompts, reported, misplaced,
                   faults>>
-----------------------------------------------------------------------------
(* checkAgents *)

\* Mutant of Serviced: agents in error are left alone.
ServicedIdle == {"idle"}

\* The statuses the scheduler looks at.
Serviced == {"idle", "error"}

\* The ticker fires and the agents are listed.
Tick ==
    /\ phase = "up" /\ at = "wait"
    /\ \E ok \in BOOLEAN :
        /\ Attempt("list", ok)
        /\ at' = IF ok THEN "agent" ELSE "wait"
        /\ snap' = IF ok THEN row ELSE snap
        /\ todo' = IF ok THEN {a \in Agents : row[a] \in Serviced} ELSE {}
    /\ UNCHANGED <<row, queue, sent, phase, cur, loop, prompted, swept, prompts,
                   reported, draft, misplaced, crashes>>

\* The next agent of the list, or the sweep when there is none left.
NextAgent ==
    /\ at = "agent"
    /\ \/ \E a \in todo : cur' = a /\ todo' = todo \ {a} /\ at' = "peek"
       \/ todo = {} /\ at' = "route" /\ UNCHANGED <<cur, todo>>
    /\ UNCHANGED <<row, queue, sent, phase, snap, loop, prompted, swept,
                   prompts, reported, draft, misplaced, faults, crashes>>

\* Nothing was dispatched: an agent in error is reset, another is prompted.
NotDispatched == IF snap[cur] = "error" THEN "reset" ELSE "prompt"

\* tryDispatchMessages counts the items; an error counts as none.
Peek ==
    /\ at = "peek"
    /\ \E ok \in BOOLEAN :
        /\ Attempt("peek", ok)
        /\ at' = IF ok /\ queue[cur] # <<>> THEN "get" ELSE NotDispatched
    /\ UNCHANGED <<row, queue, sent, phase, cur, snap, todo, loop, prompted,
                   swept, prompts, reported, draft, misplaced, crashes>>

\* setAgentActive takes an agent of this status.
MayActivate(s) == s \in {"idle", "error"}

\* setAgentActive reads the row: for the queue (get), or after a prompt.
GetForActivation ==
    /\ at \in {"get", "getPrompted"}
    /\ \E ok \in BOOLEAN :
        /\ Attempt("get", ok)
        /\ at' = IF ok /\ MayActivate(row[cur])
                   THEN IF at = "get" THEN "put" ELSE "putPrompted"
                   ELSE IF at = "get" THEN NotDispatched ELSE "agent"
    /\ UNCHANGED <<row, queue, sent, phase, cur, snap, todo, loop, prompted,
                   swept, prompts, reported, draft, misplaced, crashes>>

\* A drain loop of agent a starts.
Spawn(a) ==
    \E k \in Loops :
        /\ loop[a][k] = "none"
        /\ \A j \in Loops : j < k => loop[a][j] # "none"
        /\ loop' = [loop EXCEPT ![a][k] = "take"]

\* ... and writes it back as active; then the drain loop is started and a
\* prompt is remembered.
Activate ==
    /\ at \in {"put", "putPrompted"}
    /\ \E ok \in BOOLEAN :
        /\ Attempt("update", ok)
        /\ IF ok
             THEN /\ row' = [row EXCEPT ![cur] = "active"]
                  /\ reported' = reported \ {cur}
                  /\ Spawn(cur)
                  /\ at' = "agent"
                  /\ prompted' = IF at = "putPrompted" THEN prompted \cup {cur} ELSE prompted
             ELSE /\ at' = IF at = "put" THEN NotDispatched ELSE "agent"
                  /\ UNCHANGED <<row, loop, prompted, reported>>
    /\ UNCHANGED <<queue, sent, phase, cur, snap, todo, swept, prompts, draft,
                   misplaced, crashes>>

\* The agent the list showed in error is written back as idle.
Reset ==
    /\ at = "reset"
    /\ \E ok \in BOOLEAN :
        /\ Attempt("update", ok)
        /\ row' = IF ok THEN [row EXCEPT ![cur] = "idle"] ELSE row
        /\ at' = IF ok THEN "prompt" ELSE "agent"
    /\ UNCHANGED <<queue, sent, phase, cur, snap, todo, loop, prompted, swept,
                   prompts, reported, draft, misplaced, crashes>>

\* A work item of the scheduler.
Prompt(priority) == [id |-> prompts + 1, priority |-> priority]

\* tryPromptAssignedTasks: an agent with tasks, not prompted lately, gets a
\* prompt.  Whether it has tasks is not modelled: either may be the case.
PromptTasks ==
    /\ at = "prompt"
    /\ \/ /\ at' = "agent"
          /\ UNCHANGED <<queue, prompts, faults>>
       \/ /\ cur \notin prompted
          /\ prompts < MaxPrompts
          /\ \E ok \in BOOLEAN :
              /\ Attempt("enqueue", ok)
              /\ queue' = IF ok THEN [queue EXCEPT ![cur] = Append(@, Prompt(1))] ELSE queue
              /\ prompts' = IF ok THEN prompts + 1 ELSE prompts
              /\ at' = IF ok THEN "getPrompted" ELSE "agent"
    /\ UNCHANGED <<row, sent, phase, cur, snap, todo, loop, prompted, swept,
                   reported, draft, misplaced, crashes>>

\* routeUnassignedTasks: the chief of staff, whatever its status, is asked
\* to assign the tasks nobody has.
RouteTasks ==
    /\ at = "route"
    /\ at' = "wait" /\ cur' = NoAgent
    /\ \/ UNCHANGED <<queue, prompts, swept, faults>>
       \/ /\ ~swept /\ Chief # NoAgent
          /\ prompts < MaxPrompts
          /\ \E ok \in BOOLEAN :
              /\ Attempt("enqueue", ok)
              /\ queue' = IF ok THEN [queue EXCEPT ![Chief] = Append(@, Prompt(2))] ELSE queue
              /\ prompts' = IF ok THEN prompts + 1 ELSE prompts
              /\ swept' = ok
    /\ UNCHANGED <<row, sent, phase, snap, todo, loop, prompted, reported,
                   draft, misplaced, crashes>>

\* Time passes: the debounces are over.
DebounceEnds ==
    /\ \/ prompted # {} /\ prompted' = {} /\ UNCHANGED swept
       \/ swept /\ swept' = FALSE /\ UNCHANGED prompted
    /\ UNCHANGED <<row, queue, sent, phase, at, cur, snap, todo, loop, prompts,
                   reported, draft, misplaced, faults, crashes>>
-----------------------------------------------------------------------------
(* drainLoop *)

Sq == INSTANCE SequencesExt

\* The places of q that Dequeue takes from: of the highest priority, the oldest.
First(q) ==
    {i \in DOMAIN q :
        \A j \in DOMAIN q :
            \/ q[i].priority > q[j].priority
            \/ q[i].priority = q[j].priority /\ i <= j}

Goto(a, k, step) == loop' = [loop EXCEPT ![a][k] = step]

\* The loop stops when the context is cancelled, Dequeue fails or finds
\* nothing; else the item is consumed before it is worked on.
Take(a, k) ==
    /\ loop[a][k] = "take"
    /\ \E ok \in BOOLEAN :
        /\ Attempt("dequeue", ok)
        /\ IF ok /\ phase = "up" /\ queue[a] # <<>>
             THEN /\ \E i \in First(queue[a]) :
                        queue' = [queue EXCEPT ![a] = Sq!RemoveAt(@, i)]
                  /\ Goto(a, k, "run")
             ELSE UNCHANGED queue /\ Goto(a, k, "finish")
    /\ UNCHANGED <<row, sent, phase, tickVars, prompted, swept, prompts,
                   reported, draft, misplaced, crashes>>

\* The completion answers, or fails.
Complete(a, k) ==
    /\ loop[a][k] = "run"
    /\ Goto(a, k, "take") \/ Goto(a, k, "mark")
    /\ UNCHANGED <<row, queue, sent, phase, tickVars, prompted, swept, prompts,
                   reported, draft, misplaced, faults, crashes>>

\* The completion finds the provider disabled: it suspends the agent and
\* returns without an error.
CompleteDisabled(a, k) ==
    /\ loop[a][k] = "run"
    /\ \E ok \in BOOLEAN :
        /\ Attempt("update", ok)
        /\ row' = IF ok THEN [row EXCEPT ![a] = "suspended"] ELSE row
    /\ Goto(a, k, "take")
    /\ UNCHANGED <<queue, sent, phase, tickVars, prompted, swept, prompts,
                   reported, draft, misplaced, crashes>>

\* Mutant of AfterError: the deferred function resets the agent as well.
AfterErrorReset == "finish"

\* A loop that saw an error skips the idle reset.
AfterError == "none"

\* SetAgentError, with the scheduler's context: it fails once cancelled.
MarkError(a, k) ==
    /\ loop[a][k] = "mark"
    /\ \E ok \in BOOLEAN :
        /\ Attempt("error", ok)
        /\ IF ok /\ phase = "up"
             THEN row' = [row EXCEPT ![a] = "error"] /\ UNCHANGED reported
             ELSE reported' = reported \cup {a} /\ UNCHANGED row
    /\ Goto(a, k, AfterError)
    /\ UNCHANGED <<queue, sent, phase, tickVars, prompted, swept, prompts,
                   draft, misplaced, crashes>>

\* After minStateDuration setAgentIdle reads the row, with a context of its own ...
Finish(a, k) ==
    /\ loop[a][k] = "finish"
    /\ \E ok \in BOOLEAN :
        /\ Attempt("get", ok)
        /\ Goto(a, k, IF ok /\ row[a] # "idle" THEN "put" ELSE "none")
        /\ reported' = IF ok THEN reported ELSE reported \cup {a}
    /\ UNCHANGED <<row, queue, sent, phase, tickVars, prompted, swept, prompts,
                   draft, misplaced, crashes>>

\* Mutant of PutIdle: the loop looks at the queue once more.
PutIdleEarly(a, k) ==
    /\ loop[a][k] = "put"
    /\ row' = [row EXCEPT ![a] = "idle"]
    /\ Goto(a, k, "take")
    /\ UNCHANGED <<queue, sent, phase, tickVars, prompted, swept, prompts,
                   reported, draft, misplaced, faults, crashes>>

\* ... and writes it back as idle.
PutIdle(a, k) ==
    /\ loop[a][k] = "put"
    /\ \E ok \in BOOLEAN :
        /\ Attempt("update", ok)
        /\ row' = IF ok THEN [row EXCEPT ![a] = "idle"] ELSE row
        /\ reported' = IF ok THEN reported ELSE reported \cup {a}
    /\ Goto(a, k, "none")
    /\ UNCHANGED <<queue, sent, phase, tickVars, prompted, swept, prompts,
                   draft, misplaced, crashes>>
-----------------------------------------------------------------------------
(* The callers *)

\* send_message writes the message to the work queue.
Send(m) ==
    /\ phase # "down"
    /\ m \notin sent
    /\ sent' = sent \cup {m}
    /\ queue' = [queue EXCEPT ![To[m]] = Append(@, [id |-> m, priority |-> 0])]
    /\ UNCHANGED <<row, phase, tickVars, loop, prompted, swept, prompts,
                   reported, draft, misplaced, faults, crashes>>

\* update_agent reads the agent ...
EditRead(e, a) ==
    /\ phase # "down"
    /\ draft[e] = NoDraft
    /\ draft' = [draft EXCEPT ![e] = [agent |-> a, status |-> row[a]]]
    /\ UNCHANGED <<row, queue, sent, phase, tickVars, loop, prompted, swept,
                   prompts, reported, misplaced, faults, crashes>>

\* The statuses a call that asks for g may write after it has read s: when
\* none is given it keeps s, but a new provider ends an error.
Written(g, s) == IF g # "keep" THEN {g} ELSE IF s = "error" THEN {"error", "idle"} ELSE {s}

Draining(a) == \E k \in Loops : loop[a][k] # "none"

\* Status s tells the scheduler that agent a is free although it has a drain
\* loop, or at work although it has none.
Misplaces(a, s) == IF Draining(a) THEN s \in {"idle", "error"} ELSE s = "active"

\* ... and writes the whole row back, whatever has become of the agent.
EditWrite(e) ==
    /\ draft[e].agent # NoAgent
    /\ \E g \in Given : \E s \in Written(g, draft[e].status) :
        /\ row' = [row EXCEPT ![draft[e].agent] = s]
        /\ misplaced' = IF Misplaces(draft[e].agent, s)
                          THEN misplaced \cup {draft[e].agent} ELSE misplaced
    /\ draft' = [draft EXCEPT ![e] = [agent |-> NoAgent, status |-> @.status]]
    /\ UNCHANGED <<queue, sent, phase, tickVars, loop, prompted, swept, prompts,
                   reported, faults, crashes>>
-----------------------------------------------------------------------------
Scheduler ==
    \/ Tick \/ NextAgent \/ Peek \/ GetForActivation \/ Activate \/ Reset
    \/ PromptTasks \/ RouteTasks

DrainLoop(a, k) ==
    \/ Take(a, k) \/ Complete(a, k) \/ CompleteDisabled(a, k)
    \/ MarkError(a, k) \/ Finish(a, k) \/ PutIdle(a, k)

SchedulerNext ==
    \/ Start \/ Stop \/ Crash \/ DebounceEnds
    \/ Scheduler
    \/ \E a \in Agents, k \in Loops : DrainLoop(a, k)
    \/ \E m \in Msgs : Send(m)
    \/ \E e \in Editors : EditWrite(e) \/ \E a \in Agents : EditRead(e, a)

SchedulerSpec == SchedulerInit /\ [][SchedulerNext]_schedulerVars

\* The process is restarted by its operator, its goroutines are scheduled
\* and every completion ends: it runs under a timeout.
SchedulerFairSpec ==
    /\ SchedulerSpec
    /\ WF_schedulerVars(Start)
    /\ WF_schedulerVars(Scheduler)
    /\ WF_schedulerVars(phase = "stopping" /\ Crash)
    /\ \A a \in Agents, k \in Loops : WF_schedulerVars(DrainLoop(a, k))
-----------------------------------------------------------------------------
(* Properties *)

Item == [id : Msgs \cup 1 .. MaxPrompts, priority : 0 .. 2]

\* What a call of update_agent holds, or held.
Draft == [agent : Agents, status : Statuses]
             \cup [agent : {NoAgent}, status : Statuses \cup {"keep"}]

\* Every variable has its type; an idle scheduler looks at nobody.
SchedulerTypeOK ==
    /\ row \in [Agents -> Statuses]
    /\ queue \in [Agents -> Seq(Item)]
    /\ sent \subseteq Msgs
    /\ phase \in {"down", "up", "stopping"}
    /\ at \in TickSteps
    /\ cur \in Agents \cup {NoAgent}
    /\ at \in TickSteps \ {"wait", "agent", "route"} => cur \in Agents
    /\ snap \in [Agents -> Statuses]
    /\ todo \subseteq Agents
    /\ loop \in [Agents -> [Loops -> LoopSteps]]
    /\ prompted \subseteq Agents
    /\ swept \in BOOLEAN
    /\ prompts \in 0 .. MaxPrompts
    /\ reported \subseteq Agents
    /\ draft \in [Editors -> Draft]
    /\ misplaced \subseteq Agents
    /\ faults \in 0 .. MaxFaults
    /\ crashes \in 0 .. MaxCrashes

\* The messages of an agent are worked on one after the other ("drainLoop
\* processes all queued items for an agent sequentially"): it never has two
\* drain loops, although activation reads and writes its row in two steps.
OneDrain ==
    \A a \in Agents, j, k \in Loops :
        loop[a][j] # "none" /\ loop[a][k] # "none" => j = k

\* OneDrain of every agent whose status no call of update_agent has misplaced.
DrainsAlone ==
    \A a \in Agents \ misplaced, j, k \in Loops :
        loop[a][j] # "none" /\ loop[a][k] # "none" => j = k

\* An agent shown as active has a drain loop, which will end that: while the
\* process is up none is left active, because the scheduler never looks at
\* active agents again.  Excepted are the agents the log warns of (a final
\* write failed, or the one at startup), and those update_agent has made
\* active without a drain loop, be it asked to, be it that it writes back an
\* "active" it read before the loop ended: of these no log line warns.
ActiveIsServed ==
    phase # "down" =>
        \A a \in Agents \ (reported \cup misplaced) :
            row[a] = "active" => Draining(a)

\* The error a failed completion leaves is not clobbered by the idle reset
\* of its own drain loop: only the scheduler's reset, a restart or a call
\* of update_agent makes an agent in error idle.  An agent whose status
\* update_agent has misplaced is excepted: its loop resets it in any case.
ErrorKept ==
    [][\A a \in Agents \ misplaced :
          row[a] = "error" /\ row'[a] = "idle" =>
              (at = "reset" /\ cur = a) \/ phase = "down" \/ draft' # draft]_schedulerVars

Queued(m) == \E i \in DOMAIN queue[To[m]] : queue[To[m]][i].id = m

\* A message in the queue is taken out in the end, across restarts, failures
\* of the completion and of the store, unless its agent is suspended, the log
\* warns that it may be stuck, or update_agent has misplaced its status.
Served ==
    \A m \in Msgs :
        Queued(m) ~> (\/ ~Queued(m)
                      \/ row[To[m]] = "suspended"
                      \/ To[m] \in reported \cup misplaced)
=============================================================================
