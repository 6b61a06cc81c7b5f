----------------------------- MODULE Interject -----------------------------
(***************************************************************************)
(* The Andon Cord (internal/interject): Manager.Halt, Manager.Resolve,     *)
(* Manager.ExpireTTL and Manager.RecoverOnStartup over the interjections   *)
(* table, with the in-memory SafeModeController they drive.                *)
(*                                                                         *)
(* Requests run on goroutines of their own and the Manager holds no lock   *)
(* across a request: every statement on the database and every locked      *)
(* section of the controller is one step here, and steps of different      *)
(* goroutines interleave.  The two critical and fatal severities are       *)
(* treated alike by the code ("halting"); every other severity is not.     *)
(***************************************************************************)
EXTENDS Naturals, Sequences, FiniteSets

CONSTANTS
    Ids,         \* interjection ids (uuids)
    NoId,        \* "no interjection"
    Scopes,      \* scopes; the agents of the hierarchy are scopes too
    Global,      \* types.ScopeGlobal
    Levels,      \* clearance levels
    Unchecked,   \* a resolver whose clearance was not looked up or not found
    Haltors,     \* goroutines that may call Halt
    Resolvers,   \* goroutines that may call Resolve
    Maint,       \* goroutines that run ExpireTTL (app.runInterjectionMaintenance)
    Internal,    \* goroutines of other components that call Halt and Resolve
    Children,    \* Children[a]: what the ChildResolver returns for agent a
    MaxDepth,    \* maxCascadeDepth
    CanFail,     \* whether a database statement may fail
    MaxHalts,    \* bound: calls of Halt that store a row
    MaxCrashes   \* bound: times the server stops

Procs == Haltors \cup Resolvers \cup Maint \cup Internal

ASSUME InterjectAssumption ==
    /\ NoId \notin Ids
    /\ Global \in Scopes
    /\ Levels \subseteq Nat /\ 0 \in Levels
    /\ Unchecked \notin Levels
    /\ Children \in [Scopes -> Seq(Scopes)]
    /\ MaxDepth \in Nat
    /\ CanFail \in BOOLEAN
    /\ MaxHalts \in Nat
    /\ MaxCrashes \in Nat

VARIABLES
    ij,       \* the interjections table: one row per id
    lapsed,   \* the ids whose expires_at has passed
    safe,     \* SafeModeController.states: per scope, its InterjectionIDs
    up,       \* whether the server runs
    pc,       \* per goroutine: the next step of its request
    call,     \* per goroutine: the local variables of its request
    todo,     \* per goroutine: the agents cascadeWalk has still to halt
    snap,     \* per goroutine: the rows ExpireTTL has still to look at
    crashes   \* how often the server stopped

vars == <<ij, lapsed, safe, up, pc, call, todo, snap, crashes>>

Status == {"none", "active", "resolved", "expired"}
Sources == {"user", "watchdog", "cascade"}

\* A row of the table; "root" is the interjection a cascaded row names in its
\* reason, "resolver" the clearance the accepted resolution was checked with.
Row == [status: Status, scope: Scopes, halting: BOOLEAN, source: Sources,
        clearance: Levels, expires: BOOLEAN, root: Ids \cup {NoId},
        resolver: Levels \cup {Unchecked}]

Unused == [status |-> "none", scope |-> Global, halting |-> FALSE,
           source |-> "user", clearance |-> 0, expires |-> FALSE,
           root |-> NoId, resolver |-> Unchecked]

NewRow(s, halting, source, level, expires, root) ==
    [status |-> "active", scope |-> s, halting |-> halting,
     source |-> source, clearance |-> level, expires |-> expires,
     root |-> root, resolver |-> Unchecked]

Locals == [id: Ids \cup {NoId}, kid: Ids \cup {NoId},
           resolver: Levels \cup {Unchecked}, depth: 0..MaxDepth]
Call(id, level) == [id |-> id, kid |-> NoId, resolver |-> level, depth |-> 0]
NoCall == Call(NoId, Unchecked)

Frame == [agent: Scopes, depth: 0..MaxDepth]
Steps == {"idle", "engage", "cascade", "engageKid", "store",
          "check", "disengage", "expire", "expireCheck", "expireDisengage"}

Fresh == {id \in Ids : ij[id].status = "none"}
Active == {id \in Ids : ij[id].status = "active"}
Halting == {id \in Active : ij[id].halting}
HaltingIn(s) == {id \in Halting : ij[id].scope = s}
HaltsMade == {id \in Ids : ij[id].status # "none" /\ ij[id].root = NoId}

\* Mutant of Frames: the limit one level too early.
FramesShort(a, d) ==
    IF d + 1 >= MaxDepth THEN <<>>
    ELSE [k \in DOMAIN Children[a] |-> [agent |-> Children[a][k], depth |-> d]]

\* Mutant of Frames: the walk has no limit.
FramesEndless(a, d) ==
    [k \in DOMAIN Children[a] |-> [agent |-> Children[a][k], depth |-> d]]

\* The agents below a at walk depth d, as cascadeWalk visits them: none at the
\* depth limit.
Frames(a, d) ==
    IF d >= MaxDepth THEN <<>>
    ELSE [k \in DOMAIN Children[a] |-> [agent |-> Children[a][k], depth |-> d]]

Init ==
    /\ ij = [id \in Ids |-> Unused]
    /\ lapsed = {}
    /\ safe = [s \in Scopes |-> {}]
    /\ up = TRUE
    /\ pc = [p \in Procs |-> "idle"]
    /\ call = [p \in Procs |-> NoCall]
    /\ todo = [p \in Procs |-> <<>>]
    /\ snap = [p \in Procs |-> {}]
    /\ crashes = 0
-----------------------------------------------------------------------------
Goto(p, step) == pc' = [pc EXCEPT ![p] = step]

\* A request returns: its locals are gone.
Return(p) ==
    /\ Goto(p, "idle")
    /\ call' = [call EXCEPT ![p] = NoCall]

Engage(s, id) == safe' = [safe EXCEPT ![s] = @ \cup {id}]

(* Manager.Halt *)

\* Bound: MaxHalts calls, and ids left for the cascade of a single line of
\* agents.
MayHalt(s, halting) ==
    /\ Cardinality(HaltsMade) < MaxHalts
    /\ halting /\ s # Global => Cardinality(Fresh) > MaxDepth

\* The row is stored.  A failing Create returns an error and changes nothing.
\* "level" is the creator's clearance, or the level the request came with when
\* there is no creator or its lookup failed.
HaltCreate(p, id, s, halting, source, level, expires) ==
    /\ up
    /\ pc[p] = "idle"
    /\ id \in Fresh
    /\ MayHalt(s, halting)
    /\ ij' = [ij EXCEPT ![id] = NewRow(s, halting, source, level, expires, NoId)]
    /\ IF halting
       THEN /\ Goto(p, "engage")
            /\ call' = [call EXCEPT ![p] = Call(id, Unchecked)]
       ELSE UNCHANGED <<pc, call>>
    /\ UNCHANGED <<lapsed, safe, up, todo, snap, crashes>>

\* What the walk has to do after the agent of scope s was halted at depth d;
\* a failing ChildResolver is the same as an agent without children.
Descend(s, d) == {Frames(s, d)} \cup (IF CanFail THEN {<<>>} ELSE {})

\* SafeModeController.Engage, then the start of cascadeHalt.
HaltEngage(p) ==
    /\ pc[p] = "engage"
    /\ LET id == call[p].id
           s  == ij[id].scope
       IN  /\ Engage(s, id)
           /\ IF s = Global
              THEN Return(p) /\ UNCHANGED todo
              ELSE /\ Goto(p, "cascade")
                   /\ \E f \in Descend(s, 0) : todo' = [todo EXCEPT ![p] = f]
                   /\ UNCHANGED call
    /\ UNCHANGED <<ij, lapsed, up, snap, crashes>>

\* The child interjection of the next agent is stored: the parent's severity
\* and TTL, a source clearance of 0.
CascadeCreate(p, id) ==
    /\ pc[p] = "cascade"
    /\ todo[p] # <<>>
    /\ id \in Fresh
    /\ LET f      == Head(todo[p])
           parent == ij[call[p].id]
       IN  /\ ij' = [ij EXCEPT ![id] = NewRow(f.agent, parent.halting, "cascade",
                                              0, parent.expires, call[p].id)]
           /\ call' = [call EXCEPT ![p].kid = id, ![p].depth = f.depth]
    /\ todo' = [todo EXCEPT ![p] = Tail(@)]
    /\ Goto(p, "engageKid")
    /\ UNCHANGED <<lapsed, safe, up, snap, crashes>>

\* Create failed for a new id: the agent is skipped, and with it everything
\* below it.
CascadeSkip(p) ==
    /\ CanFail
    /\ pc[p] = "cascade"
    /\ todo[p] # <<>>
    /\ Fresh # {}
    /\ todo' = [todo EXCEPT ![p] = Tail(@)]
    /\ UNCHANGED <<ij, lapsed, safe, up, pc, call, snap, crashes>>

\* Mutant of CascadeEngage: the child has its row, and Safe Mode is forgotten.
CascadeEngageNot(p) ==
    /\ pc[p] = "engageKid"
    /\ \E f \in Descend(ij[call[p].kid].scope, call[p].depth + 1) :
          todo' = [todo EXCEPT ![p] = f \o @]
    /\ call' = [call EXCEPT ![p] = Call(@.id, Unchecked)]
    /\ Goto(p, "cascade")
    /\ UNCHANGED <<ij, lapsed, safe, up, snap, crashes>>

\* The child's scope enters Safe Mode, then the walk goes below the child.
CascadeEngage(p) ==
    /\ pc[p] = "engageKid"
    /\ LET kid == call[p].kid
           s   == ij[kid].scope
       IN  /\ Engage(s, kid)
           /\ \E f \in Descend(s, call[p].depth + 1) :
                 todo' = [todo EXCEPT ![p] = f \o @]
    /\ call' = [call EXCEPT ![p] = Call(@.id, Unchecked)]
    /\ Goto(p, "cascade")
    /\ UNCHANGED <<ij, lapsed, up, snap, crashes>>

\* The walk is over and Halt returns.
CascadeDone(p) ==
    /\ pc[p] = "cascade"
    /\ todo[p] = <<>>
    /\ Return(p)
    /\ UNCHANGED <<ij, lapsed, safe, up, todo, snap, crashes>>

(* Manager.Resolve *)

\* Mutant of MayResolve: the check is the wrong way round.
MayResolveBelow(id, level) == level \in Levels => level <= ij[id].clearance

\* The row is read and the clearance compared with the one it was created with.
\* A resolver that is not named, or not found, is not compared.
MayResolve(id, level) == level \in Levels => level >= ij[id].clearance

ResolveRead(p, id, level) ==
    /\ up
    /\ pc[p] = "idle"
    /\ ij[id].status # "none"
    /\ MayResolve(id, level)
    /\ Goto(p, "store")
    /\ call' = [call EXCEPT ![p] = Call(id, level)]
    /\ UNCHANGED <<ij, lapsed, safe, up, todo, snap, crashes>>

\* UPDATE ... WHERE id = ? AND status = 'active'.
ResolveStore(p) ==
    /\ pc[p] = "store"
    /\ LET id == call[p].id
       IN  /\ ij[id].status = "active"
           /\ ij' = [ij EXCEPT ![id].status = "resolved",
                               ![id].resolver = call[p].resolver]
    /\ Goto(p, "check")
    /\ UNCHANGED <<lapsed, safe, up, call, todo, snap, crashes>>

\* No row was active any more, or the statement failed: Resolve returns an error.
ResolveRejected(p) ==
    /\ pc[p] = "store"
    /\ ij[call[p].id].status # "active" \/ CanFail
    /\ Return(p)
    /\ UNCHANGED <<ij, lapsed, safe, up, todo, snap, crashes>>

(* Manager.disengageSafeModeIfClear, called by Resolve and by ExpireTTL *)

\* Where disengageSafeModeIfClear gives control back: Resolve returns, the loop
\* of ExpireTTL goes on.
Resume(p) ==
    IF pc[p] \in {"check", "disengage"}
    THEN Return(p)
    ELSE /\ Goto(p, "expire")
         /\ call' = [call EXCEPT ![p] = NoCall]

\* The scope still has a halt, or reading it failed: Safe Mode stays.
KeepSafeMode(p) ==
    /\ pc[p] \in {"check", "expireCheck"}
    /\ HaltingIn(ij[call[p].id].scope) # {} \/ CanFail
    /\ Resume(p)
    /\ UNCHANGED <<ij, lapsed, safe, up, todo, snap, crashes>>

\* Mutant of ScopeIsClear: Safe Mode is left without looking for other halts.
ScopeIsClearUnseen(p) ==
    /\ pc[p] \in {"check", "expireCheck"}
    /\ Goto(p, IF pc[p] = "check" THEN "disengage" ELSE "expireDisengage")
    /\ UNCHANGED <<ij, lapsed, safe, up, call, todo, snap, crashes>>

ScopeIsClear(p) ==
    /\ pc[p] \in {"check", "expireCheck"}
    /\ HaltingIn(ij[call[p].id].scope) = {}
    /\ Goto(p, IF pc[p] = "check" THEN "disengage" ELSE "expireDisengage")
    /\ UNCHANGED <<ij, lapsed, safe, up, call, todo, snap, crashes>>

\* SafeModeController.Disengage drops the scope whatever ids it holds by now.
Disengage(p) ==
    /\ pc[p] \in {"disengage", "expireDisengage"}
    /\ safe' = [safe EXCEPT ![ij[call[p].id].scope] = {}]
    /\ Resume(p)
    /\ UNCHANGED <<ij, lapsed, up, todo, snap, crashes>>

(* Manager.ExpireTTL *)

\* Mutant of ExpireBegin: only halting rows are looked at.
ExpireBeginHalting(p) ==
    /\ up
    /\ pc[p] = "idle"
    /\ Active # {}
    /\ snap' = [snap EXCEPT ![p] = Halting]
    /\ Goto(p, "expire")
    /\ UNCHANGED <<ij, lapsed, safe, up, call, todo, crashes>>

\* A tick of the maintenance loop reads the active rows.
ExpireBegin(p) ==
    /\ up
    /\ pc[p] = "idle"
    /\ Active # {}
    /\ snap' = [snap EXCEPT ![p] = Active]
    /\ Goto(p, "expire")
    /\ UNCHANGED <<ij, lapsed, safe, up, call, todo, crashes>>

\* Mutant of ExpireRow: UPDATE without "AND status = 'active'".
ExpireRowAnyStatus(p, id) ==
    /\ pc[p] = "expire"
    /\ id \in snap[p] \cap lapsed
    /\ ij' = [ij EXCEPT ![id].status = "expired"]
    /\ snap' = [snap EXCEPT ![p] = @ \ {id}]
    /\ call' = [call EXCEPT ![p] = Call(id, Unchecked)]
    /\ Goto(p, "expireCheck")
    /\ UNCHANGED <<lapsed, safe, up, todo, crashes>>

\* Mutant of ExpireRow: Safe Mode is not looked at after an expiry.
ExpireRowOnly(p, id) ==
    /\ pc[p] = "expire"
    /\ id \in snap[p] \cap lapsed
    /\ ij' = IF ij[id].status = "active"
             THEN [ij EXCEPT ![id].status = "expired"] ELSE ij
    /\ snap' = [snap EXCEPT ![p] = @ \ {id}]
    /\ UNCHANGED <<lapsed, safe, up, pc, call, todo, crashes>>

\* A row past its TTL is expired if it is still active; ExpireTTL does not
\* look at the number of updated rows and goes on to disengage in any case.
ExpireRow(p, id) ==
    /\ pc[p] = "expire"
    /\ id \in snap[p] \cap lapsed
    /\ ij' = IF ij[id].status = "active"
             THEN [ij EXCEPT ![id].status = "expired"] ELSE ij
    /\ snap' = [snap EXCEPT ![p] = @ \ {id}]
    /\ call' = [call EXCEPT ![p] = Call(id, Unchecked)]
    /\ Goto(p, "expireCheck")
    /\ UNCHANGED <<lapsed, safe, up, todo, crashes>>

\* Mutant of ExpireSkip: the loop waits for the row's TTL.
ExpireSkipWaits(p, id) ==
    /\ pc[p] = "expire"
    /\ id \in snap[p]
    /\ id \in lapsed /\ CanFail
    /\ snap' = [snap EXCEPT ![p] = @ \ {id}]
    /\ UNCHANGED <<ij, lapsed, safe, up, pc, call, todo, crashes>>

\* The row's TTL has not passed when the loop comes to it, or Expire failed.
ExpireSkip(p, id) ==
    /\ pc[p] = "expire"
    /\ id \in snap[p]
    /\ id \notin lapsed \/ CanFail
    /\ snap' = [snap EXCEPT ![p] = @ \ {id}]
    /\ UNCHANGED <<ij, lapsed, safe, up, pc, call, todo, crashes>>

ExpireDone(p) ==
    /\ pc[p] = "expire"
    /\ snap[p] = {}
    /\ Return(p)
    /\ UNCHANGED <<ij, lapsed, safe, up, todo, snap, crashes>>

(* The clock, and the server stopping and starting *)

TTLPasses(id) ==
    /\ ij[id].status # "none"
    /\ ij[id].expires
    /\ id \notin lapsed
    /\ lapsed' = lapsed \cup {id}
    /\ UNCHANGED <<ij, safe, up, pc, call, todo, snap, crashes>>

Crash ==
    /\ up
    /\ crashes < MaxCrashes
    /\ up' = FALSE
    /\ crashes' = crashes + 1
    /\ safe' = [s \in Scopes |-> {}]
    /\ pc' = [p \in Procs |-> "idle"]
    /\ call' = [p \in Procs |-> NoCall]
    /\ todo' = [p \in Procs |-> <<>>]
    /\ snap' = [p \in Procs |-> {}]
    /\ UNCHANGED <<ij, lapsed>>

\* App.Start runs RecoverOnStartup before it serves any request; when that
\* fails, App.Start logs a warning and goes on.
Restart ==
    /\ ~up
    /\ up' = TRUE
    /\ \/ safe' = [s \in Scopes |-> HaltingIn(s)]
       \/ CanFail /\ UNCHANGED safe
    /\ UNCHANGED <<ij, lapsed, pc, call, todo, snap, crashes>>
-----------------------------------------------------------------------------
Halt(p) ==
    \E id \in Ids, s \in Scopes, halting, expires \in BOOLEAN, level \in Levels :
        HaltCreate(p, id, s, halting, "user", level, expires)

Resolve(p) ==
    \E id \in Ids, level \in Levels \cup {Unchecked} : ResolveRead(p, id, level)

\* The next step of a request that is under way.
Continue(p) ==
    \/ HaltEngage(p)
    \/ \E id \in Ids : CascadeCreate(p, id)
    \/ CascadeSkip(p)
    \/ CascadeEngage(p)
    \/ CascadeDone(p)
    \/ ResolveStore(p)
    \/ ResolveRejected(p)
    \/ KeepSafeMode(p)
    \/ ScopeIsClear(p)
    \/ Disengage(p)
    \/ \E id \in Ids : ExpireRow(p, id)
    \/ \E id \in Ids : ExpireSkip(p, id)
    \/ ExpireDone(p)

\* Everything but the server stopping.
Serve ==
    \/ \E p \in Haltors : Halt(p)
    \/ \E p \in Resolvers : Resolve(p)
    \/ \E p \in Maint : ExpireBegin(p)
    \/ \E p \in Procs : Continue(p)
    \/ \E id \in Ids : TTLPasses(id)
    \/ Restart

Next == Serve \/ Crash

Spec == Init /\ [][Next]_vars

\* Goroutines are scheduled, the maintenance ticker fires, an Expire that is
\* tried at every tick does not fail for ever, a stopped server is started
\* again; callers and the clock owe nothing.
Fairness ==
    /\ \A p \in Procs : WF_vars(Continue(p))
    /\ \A p \in Maint, id \in Ids : SF_vars(ExpireRow(p, id))
    /\ \A p \in Maint : WF_vars(ExpireBegin(p))
    /\ WF_vars(Restart)

FairSpec == Spec /\ Fairness
-----------------------------------------------------------------------------
(* Properties *)

\* Every variable keeps its shape.
TypeOK ==
    /\ ij \in [Ids -> Row]
    /\ lapsed \subseteq Ids
    /\ safe \in [Scopes -> SUBSET Ids]
    /\ up \in BOOLEAN
    /\ pc \in [Procs -> Steps]
    /\ call \in [Procs -> Locals]
    /\ todo \in [Procs -> Seq(Frame)]
    /\ snap \in [Procs -> SUBSET Ids]
    /\ crashes \in 0..MaxCrashes

\* Safe Mode is only ever blamed on interjections that were stored, that halt,
\* and that were issued for that very scope: a warning never engages it, and a
\* cascade never engages the parent's scope in the name of a child.
EngagedAreHalts ==
    \A s \in Scopes : \A id \in safe[s] :
        /\ ij[id].status # "none"
        /\ ij[id].halting
        /\ ij[id].scope = s

\* No request is under way and the server serves.
Quiet == up /\ \A p \in Procs : pc[p] = "idle"

\* At rest, every active halt is among the reasons for its scope's Safe Mode:
\* neither a finished Resolve, ExpireTTL or cascade nor a restart leaves an
\* active halt that Safe Mode has forgotten (manager.go Halt, Resolve,
\* RecoverOnStartup).
HaltsAreEngaged ==
    Quiet => \A id \in Halting : id \in safe[ij[id].scope]

\* Disengage of a scope that has an active halt again since it was looked at.
StaleDisengage(p) == Disengage(p) /\ HaltingIn(ij[call[p].id].scope) # {}

\* RecoverOnStartup could not read the active halts, and there are some.
FailedRecovery == Restart /\ safe' # [s \in Scopes |-> HaltingIn(s)]

\* Engage for a halt that was resolved or expired since it was stored.
LateEngage(p) ==
    \/ HaltEngage(p) /\ ij[call[p].id].status # "active"
    \/ CascadeEngage(p) /\ ij[call[p].kid].status # "active"

\* disengageSafeModeIfClear could not read the halts of its scope, and there
\* are none.
BlindKeep(p) == KeepSafeMode(p) /\ HaltingIn(ij[call[p].id].scope) = {}

\* At rest, a scope in Safe Mode still has an active halt: the last Resolve or
\* expiry of a scope takes it out of Safe Mode (disengageSafeModeIfClear).
SafeModeHasHalt ==
    Quiet => \A s \in Scopes : safe[s] # {} => HaltingIn(s) # {}

\* The agents at most n levels below s in the hierarchy, s left out unless it
\* is below itself.
Below(s) ==
    LET level[n \in 0..MaxDepth] ==
            IF n = 0 THEN {s}
            ELSE UNION {{Children[a][k] : k \in DOMAIN Children[a]} : a \in level[n - 1]}
    IN  UNION {level[n] : n \in 1..MaxDepth}

\* When a walk is over, every agent below the halted one, down to the depth
\* limit, has an interjection of its own that names this halt, and as long as
\* that interjection is active it is among the reasons for the Safe Mode of the
\* agent's scope (cascadeWalk).
CascadeCovers ==
    \A p \in Procs :
        pc[p] = "cascade" /\ todo[p] = <<>> =>
            \A a \in Below(ij[call[p].id].scope) :
                \E kid \in Ids :
                    /\ ij[kid].root = call[p].id /\ ij[kid].scope = a
                    /\ ij[kid].status = "active" => kid \in safe[a]

\* Every request that began returns: the walk of a cyclic hierarchy is cut at
\* maxCascadeDepth, and Halt, Resolve and ExpireTTL cannot block each other.
CallsReturn == \A p \in Procs : (pc[p] # "idle") ~> (pc[p] = "idle")

\* An interjection whose TTL has passed does not stay active, whatever requests
\* and restarts come in between (runInterjectionMaintenance, ExpireTTL).
LapsedEnds == \A id \in Ids :
    (ij[id].status = "active" /\ id \in lapsed) ~> (ij[id].status # "active")

\* The interjections table as the abstract ledger: a halt is issued once, and
\* ends once, by an authorised resolution or by its TTL.
Ledger == INSTANCE InterjectionLedger WITH
    row <- [id \in Ids |-> [status    |-> ij[id].status,
                            clearance |-> ij[id].clearance,
                            resolver  |-> ij[id].resolver]]

\* Interleaved requests on stale reads, failing statements and restarts never
\* take a row anywhere but where the ledger allows.
ImplementsLedger == Ledger!Spec
=============================================================================
