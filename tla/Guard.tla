------------------------------ MODULE Guard -------------------------------
(***************************************************************************)
(* The approval gate (internal/guard): the middleware that wraps the tool  *)
(* dispatch, and the ActionManager that holds the calls a guard denied     *)
(* until somebody decides or the time is up.  Decisions are themselves     *)
(* tool calls: the "governance" tool calls Approve and Reject.             *)
(* Every call has an action id of its own: the id is the call.             *)
(***************************************************************************)
EXTENDS Integers, Sequences, FiniteSets

CONSTANTS
    Calls,        \* the tool calls dispatched
    Tool,         \* Tool[c]: the name of the tool
    Action,       \* Action[c]: its RequiredAction
    Autonomous,   \* calls of the executor loop (WithAutonomousContext)
    Trusted,      \* calls whose identity has GuardBypass
    GuardsOn,     \* config guard.enabled
    AutoReads,    \* config guard.auto_approve_reads
    AllowBypass,  \* config guard.allow_bypass
    PluginGuards, \* guards of plugins are registered: they may deny anything
    EarlyTimer,   \* timeouts so short that the timer beats the insertion
    MaxHistory,   \* history is trimmed when longer than this, 1000
    Keep,         \* ... to this many entries, 500
    Timer         \* who decides when the time is up

ASSUME GuardAssumption ==
    /\ Autonomous \subseteq Calls
    /\ Trusted \subseteq Calls
    /\ Timer \notin Calls
    /\ Keep \in Nat /\ MaxHistory \in Nat /\ Keep <= MaxHistory
    /\ {GuardsOn, AutoReads, AllowBypass, PluginGuards, EarlyTimer} \subseteq BOOLEAN

VARIABLES
    pc,        \* where each call is in WrapDispatch and, for governance, decide
    target,    \* per governance call: the action it decides
    verdict,   \* ... and how
    timer,     \* per action: its AfterFunc timer
    pending,   \* ActionManager.pending
    answer,    \* per action: what its channel holds
    closed,    \* actions whose channel is closed
    history,   \* ActionManager.history, oldest first
    decisions  \* every decision ever taken, oldest first

guardVars == <<pc, target, verdict, timer, pending, answer, closed, history, decisions>>

Steps == {"idle", "denied", "armed", "waiting", "told", "run", "signal",
          "closing", "done", "refused", "cancelled"}

\* The timer's goroutine: it holds a decision to signal, or it is over.
TimerSteps == {"off", "set", "signal", "closing", "over"}

GuardInit ==
    /\ pc = [c \in Calls |-> "idle"]
    /\ target = [c \in Calls |-> c]
    /\ verdict = [c \in Calls |-> FALSE]
    /\ timer = [c \in Calls |-> "off"]
    /\ pending = {}
    /\ answer = [c \in Calls |-> <<>>]
    /\ closed = {}
    /\ history = <<>>
    /\ decisions = <<>>
-----------------------------------------------------------------------------
(* WrapDispatch *)

\* The names the middleware lets through unseen.
SkipList == {"get_pending_actions", "approve_action", "reject_action",
             "get_action_detail", "get_action_history"}

\* The call is not shown to the guards.
Exempt(c) ==
    \/ ~GuardsOn
    \/ Tool[c] \in SkipList
    \/ AutoReads /\ Action[c] \in {"view", "read"}
    \/ AllowBypass /\ c \in Trusted

\* The built-in guard approves everything that does not change state.
WritesDenied(c) == Action[c] \in {"write", "delete", "admin", "execute"}

\* The call is exempt, or every guard approves it.
Pass(c) ==
    /\ pc[c] = "idle"
    /\ Exempt(c) \/ ~WritesDenied(c)
    /\ pc' = [pc EXCEPT ![c] = "run"]
    /\ UNCHANGED <<target, verdict, timer, pending, answer, closed, history, decisions>>

\* A guard denies the call or fails to evaluate it.
Deny(c) ==
    /\ pc[c] = "idle"
    /\ ~Exempt(c)
    /\ WritesDenied(c) \/ PluginGuards
    /\ pc' = [pc EXCEPT ![c] = "denied"]
    /\ UNCHANGED <<target, verdict, timer, pending, answer, closed, history, decisions>>

\* CreatePending starts the timer ...
StartTimer(c) ==
    /\ pc[c] = "denied"
    /\ pc' = [pc EXCEPT ![c] = "armed"]
    /\ timer' = [timer EXCEPT ![c] = "set"]
    /\ UNCHANGED <<target, verdict, pending, answer, closed, history, decisions>>

\* ... and puts the action into pending under the lock.  A caller of the
\* executor loop then waits; a direct caller is told the action's id.
Insert(c) ==
    /\ pc[c] = "armed"
    /\ pending' = pending \cup {c}
    /\ pc' = [pc EXCEPT ![c] = IF c \in Autonomous THEN "waiting" ELSE "told"]
    /\ UNCHANGED <<target, verdict, timer, answer, closed, history, decisions>>

\* Mutant of Receive: the decision is taken for an approval.
ReceiveAny(c) ==
    /\ pc[c] = "waiting"
    /\ answer[c] # <<>>
    /\ pc' = [pc EXCEPT ![c] = "run"]
    /\ answer' = [answer EXCEPT ![c] = Tail(@)]
    /\ UNCHANGED <<target, verdict, timer, pending, closed, history, decisions>>

\* The waiting caller takes the decision from its channel.
Receive(c) ==
    /\ pc[c] = "waiting"
    /\ answer[c] # <<>>
    /\ pc' = [pc EXCEPT ![c] = IF Head(answer[c]) THEN "run" ELSE "refused"]
    /\ answer' = [answer EXCEPT ![c] = Tail(@)]
    /\ UNCHANGED <<target, verdict, timer, pending, closed, history, decisions>>

\* The context of the waiting caller is done; its action stays pending.
Cancel(c) ==
    /\ pc[c] = "waiting"
    /\ pc' = [pc EXCEPT ![c] = "cancelled"]
    /\ UNCHANGED <<target, verdict, timer, pending, answer, closed, history, decisions>>

\* A tool that decides nothing runs.
Run(c) ==
    /\ pc[c] = "run"
    /\ Tool[c] # "governance"
    /\ pc' = [pc EXCEPT ![c] = "done"]
    /\ UNCHANGED <<target, verdict, timer, pending, answer, closed, history, decisions>>
-----------------------------------------------------------------------------
(* ActionManager.decide and timeoutAction *)

\* The last n elements of s, or all of them.
Newest(s, n) == SubSeq(s, (IF Len(s) > n THEN Len(s) - n ELSE 0) + 1, Len(s))

\* A history that has grown too long keeps its newest entries.
Trim(h) == IF Len(h) > MaxHistory THEN Newest(h, Keep) ELSE h

\* Under the lock: the action leaves pending and enters history.
Settle(c, approved, by) ==
    LET d == [id |-> c, approved |-> approved, by |-> by]
    IN  /\ pending' = pending \ {c}
        /\ history' = Trim(Append(history, d))
        /\ decisions' = Append(decisions, d)

\* The governance call g approves or rejects a pending action and stops its
\* timer.  A timer that has fired but not yet taken the lock will find nothing.
Decide(g, c, approved) ==
    /\ pc[g] = "run"
    /\ Tool[g] = "governance"
    /\ c \in pending
    /\ Settle(c, approved, g)
    /\ timer' = [timer EXCEPT ![c] = "over"]
    /\ target' = [target EXCEPT ![g] = c]
    /\ verdict' = [verdict EXCEPT ![g] = approved]
    /\ pc' = [pc EXCEPT ![g] = "signal"]
    /\ UNCHANGED <<answer, closed>>

\* The action is not pending (any more), or g asked for something else: no
\* state changes.
DecideNothing(g) ==
    /\ pc[g] = "run"
    /\ Tool[g] = "governance"
    /\ pc' = [pc EXCEPT ![g] = "done"]
    /\ UNCHANGED <<target, verdict, timer, pending, answer, closed, history, decisions>>

\* The lock is released; the decision is sent on the buffered channel ...
Signal(g) ==
    /\ pc[g] = "signal"
    /\ answer[target[g]] = <<>>
    /\ answer' = [answer EXCEPT ![target[g]] = <<verdict[g]>>]
    /\ pc' = [pc EXCEPT ![g] = "closing"]
    /\ UNCHANGED <<target, verdict, timer, pending, closed, history, decisions>>

\* ... and the channel is closed.
CloseChannel(g) ==
    /\ pc[g] = "closing"
    /\ closed' = closed \cup {target[g]}
    /\ pc' = [pc EXCEPT ![g] = "done"]
    /\ UNCHANGED <<target, verdict, timer, pending, answer, history, decisions>>

\* The time is up and the timer's goroutine takes the lock: a rejection.  The
\* timer fires once; an action that is not in pending yet is left there.
Timeout(c) ==
    /\ timer[c] = "set"
    /\ EarlyTimer \/ pc[c] # "armed"
    /\ IF c \in pending
       THEN /\ Settle(c, FALSE, Timer)
            /\ timer' = [timer EXCEPT ![c] = "signal"]
       ELSE /\ timer' = [timer EXCEPT ![c] = "over"]
            /\ UNCHANGED <<pending, history, decisions>>
    /\ UNCHANGED <<pc, target, verdict, answer, closed>>

\* Mutant of TimeoutSignal: the channel has no buffer.
TimeoutSignalUnbuffered(c) ==
    /\ timer[c] = "signal"
    /\ pc[c] = "waiting"
    /\ answer' = [answer EXCEPT ![c] = <<FALSE>>]
    /\ timer' = [timer EXCEPT ![c] = "closing"]
    /\ UNCHANGED <<pc, target, verdict, pending, closed, history, decisions>>

TimeoutSignal(c) ==
    /\ timer[c] = "signal"
    /\ answer[c] = <<>>
    /\ answer' = [answer EXCEPT ![c] = <<FALSE>>]
    /\ timer' = [timer EXCEPT ![c] = "closing"]
    /\ UNCHANGED <<pc, target, verdict, pending, closed, history, decisions>>

TimeoutClose(c) ==
    /\ timer[c] = "closing"
    /\ closed' = closed \cup {c}
    /\ timer' = [timer EXCEPT ![c] = "over"]
    /\ UNCHANGED <<pc, target, verdict, pending, answer, history, decisions>>
-----------------------------------------------------------------------------
\* What a call's goroutine does by itself.
Proceed(c) ==
    \/ Pass(c)
    \/ Deny(c)
    \/ StartTimer(c)
    \/ Insert(c)
    \/ Receive(c)
    \/ Run(c)
    \/ \E a \in Calls, approved \in BOOLEAN : Decide(c, a, approved)
    \/ DecideNothing(c)
    \/ Signal(c)
    \/ CloseChannel(c)

\* What the timer of an action and its goroutine do.
Expire(c) ==
    \/ Timeout(c)
    \/ TimeoutSignal(c)
    \/ TimeoutClose(c)

GuardNext ==
    \/ \E c \in Calls : Proceed(c)
    \/ \E c \in Calls : Cancel(c)
    \/ \E c \in Calls : Expire(c)

GuardSpec == GuardInit /\ [][GuardNext]_guardVars

\* Goroutines are scheduled and timers fire; nobody has to decide.
GuardFairness ==
    /\ \A c \in Calls : WF_guardVars(pc[c] # "idle" /\ Proceed(c))
    /\ \A c \in Calls : WF_guardVars(Expire(c))

GuardFairSpec == GuardSpec /\ GuardFairness
-----------------------------------------------------------------------------
(* Properties *)

\* A decision, by a governance call or by the timer.
Decision == [id: Calls, approved: BOOLEAN, by: Calls \cup {Timer}]

\* Every variable keeps its shape, no channel holds more than its buffer of one,
\* and history never outgrows its limit.
GuardTypeOK ==
    /\ pc \in [Calls -> Steps]
    /\ target \in [Calls -> Calls]
    /\ verdict \in [Calls -> BOOLEAN]
    /\ timer \in [Calls -> TimerSteps]
    /\ pending \subseteq Calls
    /\ answer \in [Calls -> Seq(BOOLEAN)]
    /\ closed \subseteq Calls
    /\ \A c \in Calls : Len(answer[c]) <= 1
    /\ history \in Seq(Decision)
    /\ Len(history) <= MaxHistory
    /\ decisions \in Seq(Decision)

\* Approvals, rejections and the timeout of one action race for it, and exactly
\* one of them gets it: an action is decided at most once, and what is decided
\* is not pending (decide, timeoutAction).
DecidedOnce ==
    /\ \A i, j \in DOMAIN decisions : decisions[i].id = decisions[j].id => i = j
    /\ \A i \in DOMAIN decisions : decisions[i].id \notin pending

\* A call that a guard denied runs only on an approval of that very call by a
\* governance call, whatever else was decided and timed out meanwhile.
RunsOnlyApproved ==
    \A c \in Calls :
        timer[c] # "off" /\ pc[c] \in {"run", "signal", "closing", "done"} =>
            \E i \in DOMAIN decisions :
                decisions[i].id = c /\ decisions[i].approved /\ decisions[i].by # Timer

\* Whoever took the action out of pending finds its channel open and empty: no
\* send blocks, none is made on a closed channel, and none is closed twice.
ChannelUsedOnce ==
    /\ \A g \in Calls : pc[g] = "signal" =>
          answer[target[g]] = <<>> /\ target[g] \notin closed
    /\ \A g \in Calls : pc[g] = "closing" => target[g] \notin closed
    /\ \A c \in Calls : timer[c] = "signal" => answer[c] = <<>> /\ c \notin closed
    /\ \A c \in Calls : timer[c] = "closing" => c \notin closed

\* History holds the newest decisions in order, at least the last Keep
\* of them (the trimming of decide and timeoutAction).
HistoryIsRecent ==
    /\ history = Newest(decisions, Len(history))
    /\ Len(history) >= IF Len(decisions) < Keep THEN Len(decisions) ELSE Keep

\* Held up by the gate: the caller waits for a decision, or the timer for room
\* in the channel.
Held(c) == pc[c] = "waiting" \/ timer[c] = "signal"

\* Of the calls there are, none is held up for ever, although nobody has to
\* decide, and no decider whose caller is gone.
WaitersReturn == <>[](\A c \in Calls : ~Held(c))
=============================================================================
