----------------------------- MODULE Watchdog -----------------------------
(***************************************************************************)
(* The fail-closed watchdog (internal/pulse/watchdog.go) over the Andon    *)
(* Cord: a goroutine that reads the Pulse Engine's heartbeat and, through  *)
(* the Interjection Manager, halts the global scope while the heartbeat is *)
(* stale and resolves its own halts when the heartbeat is back.  The       *)
(* Manager's calls are the steps of Interject, taken by the watchdog's     *)
(* goroutine and interleaved with everybody else's.                        *)
(***************************************************************************)
EXTENDS Interject

CONSTANTS
    W,             \* the watchdog's goroutine
    WatchdogLevel, \* watchdogClearance
    MaxStalls      \* bound: times the heartbeat goes stale

ASSUME WatchdogAssumption ==
    /\ W \in Internal \ (Haltors \cup Resolvers \cup Maint)
    /\ WatchdogLevel \in Levels
    /\ MaxStalls \in Nat

VARIABLES
    beat,       \* the age of engine.lastHeartbeat against the threshold
    triggered,  \* Watchdog.triggered
    healed,     \* Watchdog.startupHeal
    wpc,        \* what the watchdog's goroutine is doing
    wlist,      \* the interjections it has still to resolve
    stalls      \* how often the heartbeat went stale

wvars == <<beat, triggered, healed, wpc, wlist, stalls>>
allVars == <<vars, wvars>>

WSteps == {"idle", "halt", "halting", "recover", "heal"}

WInit ==
    /\ Init
    /\ beat = "none"
    /\ triggered = FALSE
    /\ healed = FALSE
    /\ wpc = "idle"
    /\ wlist = {}
    /\ stalls = 0

\* Active interjections of the global scope that name the watchdog as source.
WatchdogHalts ==
    {id \in Active : ij[id].scope = Global /\ ij[id].source = "watchdog"}

\* The goroutine is between two ticks, or between two calls of the Manager.
Waiting == up /\ pc[W] = "idle"

Check(b) == Waiting /\ wpc = "idle" /\ beat = b
-----------------------------------------------------------------------------
\* Mutant of TriggerHalt: no deduplication.
TriggerHaltAgain ==
    /\ Check("stale")
    /\ ~triggered
    /\ triggered' = TRUE
    /\ wpc' = "halt"
    /\ UNCHANGED <<vars, beat, healed, wlist, stalls>>

\* Mutant of TriggerHalt: the watchdog is armed only after its startup heal.
TriggerHaltSpent ==
    /\ Check("stale")
    /\ ~triggered /\ healed
    /\ WatchdogHalts = {} \/ CanFail
    /\ triggered' = TRUE
    /\ wpc' = "halt"
    /\ UNCHANGED <<vars, beat, healed, wlist, stalls>>

\* check finds the heartbeat stale and calls trigger, which notes that it fired
\* and looks for a halt of an earlier run.  A failing query counts as none.
TriggerHalt ==
    /\ Check("stale")
    /\ ~triggered
    /\ WatchdogHalts = {} \/ CanFail
    /\ triggered' = TRUE
    /\ wpc' = "halt"
    /\ UNCHANGED <<vars, beat, healed, wlist, stalls>>

TriggerDuplicate ==
    /\ Check("stale")
    /\ ~triggered
    /\ WatchdogHalts # {}
    /\ triggered' = TRUE
    /\ UNCHANGED <<vars, beat, healed, wpc, wlist, stalls>>

\* The global halt with the watchdog's own clearance.
WatchdogHalt(id) ==
    /\ wpc = "halt"
    /\ HaltCreate(W, id, Global, TRUE, "watchdog", WatchdogLevel, FALSE)
    /\ wpc' = "halting"
    /\ UNCHANGED <<beat, triggered, healed, wlist, stalls>>

\* Halt returned an error, or returned after engaging Safe Mode: trigger
\* returns.  It does not take the note back.
TriggerReturns ==
    /\ Waiting
    /\ wpc = "halting" \/ (wpc = "halt" /\ CanFail)
    /\ wpc' = "idle"
    /\ UNCHANGED <<vars, beat, triggered, healed, wlist, stalls>>

\* Mutant of Recover: every active interjection of the global scope is resolved.
RecoverAll ==
    /\ Check("fresh")
    /\ triggered
    /\ wlist' = {id \in Active : ij[id].scope = Global}
    /\ wpc' = "recover"
    /\ UNCHANGED <<vars, beat, triggered, healed, stalls>>

\* Mutant of Recover: an engine that was healthy at startup is not watched for recovery.
RecoverUnhealed ==
    /\ Check("fresh")
    /\ triggered /\ ~healed
    /\ wlist' = WatchdogHalts
    /\ wpc' = "recover"
    /\ UNCHANGED <<vars, beat, triggered, healed, stalls>>

\* check finds the heartbeat fresh after a trigger: recover reads the halts of
\* the watchdog.  When the query fails, recover is tried again at the next tick.
Recover ==
    /\ Check("fresh")
    /\ triggered
    /\ wlist' = WatchdogHalts
    /\ wpc' = "recover"
    /\ UNCHANGED <<vars, beat, triggered, healed, stalls>>

\* The first fresh heartbeat after a start: halts of an earlier run are healed,
\* once, whether or not the query succeeds.
HealStale ==
    /\ Check("fresh")
    /\ ~triggered
    /\ ~healed
    /\ healed' = TRUE
    /\ wlist' \in {WatchdogHalts} \cup (IF CanFail THEN {{}} ELSE {})
    /\ wpc' = "heal"
    /\ UNCHANGED <<vars, beat, triggered, stalls>>

\* Resolve is called for the next halt, by "watchdog": no agent has that id, so
\* the clearance is not compared.
ResolveNext(id) ==
    /\ Waiting
    /\ wpc \in {"recover", "heal"}
    /\ id \in wlist
    /\ ResolveRead(W, id, Unchecked)
    /\ wlist' = wlist \ {id}
    /\ UNCHANGED <<beat, triggered, healed, wpc, stalls>>

\* Resolve failed before it stored anything: the loop goes on.
ResolveFails(id) ==
    /\ CanFail
    /\ Waiting
    /\ wpc \in {"recover", "heal"}
    /\ id \in wlist
    /\ wlist' = wlist \ {id}
    /\ UNCHANGED <<vars, beat, triggered, healed, wpc, stalls>>

\* The loop is over.  recover takes the note back even if a Resolve failed.
RecoverReturns ==
    /\ Waiting
    /\ wpc \in {"recover", "heal"}
    /\ wlist = {}
    /\ triggered' = IF wpc = "recover" THEN FALSE ELSE triggered
    /\ wpc' = "idle"
    /\ UNCHANGED <<vars, beat, healed, wlist, stalls>>
-----------------------------------------------------------------------------
\* The engine ticks, or has not ticked for longer than the threshold.
Beat == up /\ beat' = "fresh" /\ UNCHANGED <<vars, triggered, healed, wpc, wlist, stalls>>

Stall ==
    /\ beat = "fresh"
    /\ stalls < MaxStalls
    /\ beat' = "stale"
    /\ stalls' = stalls + 1
    /\ UNCHANGED <<vars, triggered, healed, wpc, wlist>>

\* The goroutines die together; the notes are in memory.
Stop ==
    /\ Crash
    /\ beat' = "none"
    /\ triggered' = FALSE
    /\ healed' = FALSE
    /\ wpc' = "idle"
    /\ wlist' = {}
    /\ UNCHANGED stalls

Watch ==
    \/ TriggerHalt
    \/ TriggerDuplicate
    \/ \E id \in Ids : WatchdogHalt(id)
    \/ TriggerReturns
    \/ Recover
    \/ HealStale
    \/ \E id \in Ids : ResolveNext(id)
    \/ \E id \in Ids : ResolveFails(id)
    \/ RecoverReturns

WNext ==
    \/ Serve /\ UNCHANGED wvars
    \/ Watch
    \/ Beat
    \/ Stall
    \/ Stop

WSpec == WInit /\ [][WNext]_allVars

\* The goroutines are scheduled, the watchdog's ticker fires, a stopped server
\* is started again and its engine ticks at least once.
WFairness ==
    /\ WF_allVars(Watch)
    /\ \A p \in Procs : WF_allVars(Continue(p) /\ UNCHANGED wvars)
    /\ WF_allVars(Restart /\ UNCHANGED wvars)

WFairSpec == WSpec /\ WFairness
-----------------------------------------------------------------------------
(* Properties *)

\* Every variable keeps its shape, and interjections are left to resolve only
\* inside the loops of recover and healStaleInterjections.
WTypeOK ==
    /\ beat \in {"none", "fresh", "stale"}
    /\ triggered \in BOOLEAN
    /\ healed \in BOOLEAN
    /\ wpc \in WSteps
    /\ wlist \subseteq Ids
    /\ wlist # {} => wpc \in {"recover", "heal"}
    /\ stalls \in 0..MaxStalls

\* Engine crash and restart cycles do not flood the interjections: at most one
\* halt of the watchdog is active at a time (trigger's deduplication against
\* the halts of earlier runs).
OneWatchdogHalt == Cardinality(WatchdogHalts) <= 1

\* Fail closed: a heartbeat that is stale while the watchdog has not fired leads
\* to an active global halt of the watchdog, unless the engine or the server is
\* back or gone first (Watchdog.check, Watchdog.trigger).
FailClosed ==
    (up /\ beat = "stale" /\ ~triggered) ~>
        (WatchdogHalts # {} \/ beat # "stale" \/ ~up)

\* The watchdog owns the whole life of its halts: once the engine ticks for good
\* no halt of the watchdog stays active, of this run or of an earlier one
\* (recover, healStaleInterjections).
WatchdogHeals ==
    <>[](up /\ beat = "fresh") => <>[](WatchdogHalts = {})

\* Auto-healing never ends somebody else's interjection (the source filter of
\* recover and healStaleInterjections, against rows that change in between).
LeavesOthersAlone ==
    [][\A id \in Ids :
          pc[W] = "store" /\ ij[id].status = "active" /\ ij[id].source # "watchdog" =>
              ij'[id].status = "active" \/ pc'[W] = "store"]_allVars
=============================================================================
