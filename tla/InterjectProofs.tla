-------------------------- MODULE InterjectProofs --------------------------
(***************************************************************************)
(* Proofs about the Andon Cord and the watchdog over it, for every number  *)
(* of requests, rows and scopes and every hierarchy.                       *)
(***************************************************************************)
EXTENDS Watchdog, SequenceTheorems, FiniteSetTheorems, NaturalsInduction,
        WellFoundedInduction, TLAPS

-----------------------------------------------------------------------------
(* Type correctness *)

\* A new row is a row: what Manager.Halt and cascadeWalk store has the shape
\* of the table.
LEMMA NewRowType ==
    ASSUME NEW s \in Scopes, NEW halting \in BOOLEAN, NEW source \in Sources,
           NEW level \in Levels, NEW expires \in BOOLEAN, NEW root \in Ids \cup {NoId}
    PROVE  NewRow(s, halting, source, level, expires, root) \in Row
BY DEF NewRow, Row, Status

\* Ending a row, by Resolve or by Expire, leaves it a row.
LEMMA EndRowType ==
    ASSUME NEW r \in Row, NEW status \in Status, NEW level \in Levels \cup {Unchecked}
    PROVE  /\ [r EXCEPT !.status = status] \in Row
           /\ [r EXCEPT !.status = status, !.resolver = level] \in Row
BY DEF Row

\* What cascadeWalk has to do below an agent is a list of agents at a depth
\* within the limit.
LEMMA DescendType ==
    ASSUME NEW s \in Scopes, NEW d \in Nat, NEW f \in Descend(s, d)
    PROVE  f \in Seq(Frame)
<1>1. Frames(s, d) \in Seq(Frame)
  <2>1. CASE d >= MaxDepth
    BY <2>1 DEF Frames
  <2>2. CASE ~(d >= MaxDepth)
    <3>1. Children[s] \in Seq(Scopes) /\ d \in 0..MaxDepth
      BY <2>2, InterjectAssumption
    <3>. DEFINE n == Len(Children[s])
    <3>2. n \in Nat /\ DOMAIN Children[s] = 1..n
      BY <3>1, LenProperties
    <3>3. \A k \in 1..n : [agent |-> Children[s][k], depth |-> d] \in Frame
      BY <3>1, ElementOfSeq DEF Frame
    <3>. HIDE DEF n
    <3>4. [k \in 1..n |-> [agent |-> Children[s][k], depth |-> d]] \in [1..n -> Frame]
      BY <3>3
    <3>5. [k \in 1..n |-> [agent |-> Children[s][k], depth |-> d]] \in Seq(Frame)
      BY <3>2, <3>4
    <3>. QED  BY <3>2, <3>5, <2>2 DEF Frames
  <2>. QED  BY <2>1, <2>2
<1>2. <<>> \in Seq(Frame)
  OBVIOUS
<1>. QED  BY <1>1, <1>2 DEF Descend

\* The steps whose local variables name a stored interjection.
Busy == {"engage", "cascade", "engageKid", "store", "check", "disengage",
         "expireCheck", "expireDisengage"}

\* The local variables of a request refer to stored rows, a cascade is for a
\* halt, and a resolver about to store a resolution had the authority.
RequestInv(p) ==
    /\ pc[p] \in Busy => call[p].id \in Ids /\ ij[call[p].id].status # "none"
    /\ pc[p] \in {"engage", "cascade", "engageKid"} => ij[call[p].id].halting
    /\ pc[p] = "engageKid" => /\ call[p].kid \in Ids
                             /\ ij[call[p].kid].status # "none"
                             /\ ij[call[p].kid].halting
    /\ pc[p] = "store" => MayResolve(call[p].id, call[p].resolver)
    /\ \A id \in snap[p] : ij[id].status # "none"

CallInv == \A p \in Procs : RequestInv(p)

IInv == TypeOK /\ CallInv /\ EngagedAreHalts

\* Halt as any component may call it, the watchdog included.
Store(p) ==
    \E id \in Ids, s \in Scopes, halting, expires \in BOOLEAN, level \in Levels,
       source \in Sources :
        HaltCreate(p, id, s, halting, source, level, expires)

\* The steps of the Andon Cord, whichever goroutine takes them.  The proofs that
\* follow are about these, so that they hold with and without the watchdog.
Move ==
    \/ \E p \in Procs : Store(p) \/ Resolve(p) \/ ExpireBegin(p) \/ Continue(p)
    \/ \E id \in Ids : TTLPasses(id)
    \/ Restart
    \/ Crash

USE InterjectAssumption DEF Procs

\* A step of the Andon Cord on its own is such a step.
LEMMA NextMoves == [Next]_vars => [Move]_vars
<1>1. ASSUME NEW p \in Haltors, Halt(p) PROVE Store(p)
  <2>1. "user" \in Sources
    BY DEF Sources
  <2>. QED  BY <1>1, <2>1 DEF Halt, Store
<1>. QED  BY <1>1 DEF Next, Serve, Move

\* The server starts in the inductive invariant.
LEMMA IInvInit == Init => IInv
<1>. SUFFICES ASSUME Init PROVE IInv
  OBVIOUS
<1>1. Unused \in Row
  BY DEF Unused, Row, Status, Sources
<1>2. NoCall \in Locals
  BY DEF NoCall, Call, Locals
<1>3. TypeOK
  BY <1>1, <1>2 DEF Init, TypeOK, Steps
<1>4. CallInv /\ EngagedAreHalts
  BY DEF Init, CallInv, RequestInv, EngagedAreHalts, Busy
<1>. QED  BY <1>3, <1>4 DEF IInv

\* Every step of every goroutine keeps the type invariant.
LEMMA TypeStep == IInv /\ [Move]_vars => TypeOK'
<1>. SUFFICES ASSUME IInv, [Move]_vars PROVE TypeOK'
  OBVIOUS
<1>. USE DEF IInv, TypeOK
<1>0. NoCall \in Locals
  BY DEF NoCall, Call, Locals
<1>00. \A id \in Ids \cup {NoId}, l \in Levels \cup {Unchecked} : Call(id, l) \in Locals
  BY DEF Call, Locals
<1>1. ASSUME NEW p \in Procs, Store(p) PROVE TypeOK'
  <2>1. PICK id \in Ids, s \in Scopes, halting \in BOOLEAN, expires \in BOOLEAN,
              level \in Levels, source \in Sources :
            HaltCreate(p, id, s, halting, source, level, expires)
    BY <1>1 DEF Store
  <2>2. NewRow(s, halting, source, level, expires, NoId) \in Row
    BY NewRowType DEF Sources
  <2>3. ij' \in [Ids -> Row]
    BY <2>1, <2>2 DEF HaltCreate
  <2>4. CASE halting
    <3>1. call' = [call EXCEPT ![p] = Call(id, Unchecked)] /\ pc' = [pc EXCEPT ![p] = "engage"]
      BY <2>1, <2>4 DEF HaltCreate, Goto
    <3>2. call' \in [Procs -> Locals] /\ pc' \in [Procs -> Steps]
      BY <3>1, <1>00 DEF Steps
    <3>. QED  BY <2>1, <2>3, <3>2 DEF HaltCreate
  <2>5. CASE ~halting
    BY <2>1, <2>3, <2>5 DEF HaltCreate
  <2>. QED  BY <2>4, <2>5
<1>2. ASSUME NEW p \in Procs, Resolve(p) PROVE TypeOK'
  BY <1>2, <1>00 DEF Resolve, ResolveRead, Goto, Steps
<1>3. ASSUME NEW p \in Procs, ExpireBegin(p) PROVE TypeOK'
  BY <1>3 DEF ExpireBegin, Goto, Steps, Active
<1>4. ASSUME NEW p \in Procs, Continue(p) PROVE TypeOK'
  <2>1. CASE HaltEngage(p)
    <3>1. call[p].id \in Ids /\ ij[call[p].id].scope \in Scopes
      BY <2>1 DEF HaltEngage, CallInv, RequestInv, Busy, Row
    <3>2. safe' \in [Scopes -> SUBSET Ids]
      BY <2>1, <3>1 DEF HaltEngage, Engage
    <3>3. todo' \in [Procs -> Seq(Frame)]
      BY <2>1, <3>1, DescendType DEF HaltEngage
    <3>. QED  BY ZenonT(60), <2>1, <3>2, <3>3, <1>0 DEF HaltEngage, Return, Goto, Steps
  <2>2. CASE \E id \in Ids : CascadeCreate(p, id)
    <3>1. PICK id \in Ids : CascadeCreate(p, id)
      BY <2>2
    <3>2. todo[p] \in Seq(Frame) /\ todo[p] # <<>>
      BY <3>1 DEF CascadeCreate
    <3>3. Head(todo[p]) \in Frame /\ Tail(todo[p]) \in Seq(Frame)
      BY <3>2, HeadTailProperties
    <3>4. call[p].id \in Ids /\ ij[call[p].id] \in Row /\ 0 \in Levels
      BY <3>1 DEF CascadeCreate, CallInv, RequestInv, Busy
    <3>. DEFINE parent == ij[call[p].id]
    <3>5. NewRow(Head(todo[p]).agent, parent.halting, "cascade", 0,
                 parent.expires, call[p].id) \in Row
      BY <3>3, <3>4, NewRowType DEF Frame, Row, Sources
    <3>6. ij' \in [Ids -> Row]
      BY <3>1, <3>5 DEF CascadeCreate
    <3>7. call' \in [Procs -> Locals]
      <4>1. call[p] \in Locals /\ Head(todo[p]).depth \in 0..MaxDepth
        BY <3>3 DEF Frame
      <4>2. [call[p] EXCEPT !.kid = id, !.depth = Head(todo[p]).depth] \in Locals
        BY <4>1 DEF Locals
      <4>3. call' = [call EXCEPT ![p] =
                        [call[p] EXCEPT !.kid = id, !.depth = Head(todo[p]).depth]]
        BY <3>1 DEF CascadeCreate
      <4>. QED  BY <4>2, <4>3
    <3>. QED  BY <3>1, <3>3, <3>6, <3>7 DEF CascadeCreate, Goto, Steps
  <2>3. CASE CascadeSkip(p)
    <3>1. Tail(todo[p]) \in Seq(Frame)
      BY <2>3, HeadTailProperties DEF CascadeSkip
    <3>. QED  BY <2>3, <3>1 DEF CascadeSkip
  <2>4. CASE CascadeEngage(p)
    <3>1. call[p].kid \in Ids /\ ij[call[p].kid].scope \in Scopes
      BY <2>4 DEF CascadeEngage, CallInv, RequestInv, Row
    <3>2. call[p].depth + 1 \in Nat
      BY DEF Locals
    <3>3. \A f \in Descend(ij[call[p].kid].scope, call[p].depth + 1) :
             f \o todo[p] \in Seq(Frame)
      BY <3>1, <3>2, DescendType, ConcatProperties
    <3>4. todo' \in [Procs -> Seq(Frame)]
      BY <2>4, <3>3 DEF CascadeEngage
    <3>5. call' \in [Procs -> Locals]
      BY <2>4, <1>00 DEF CascadeEngage, CallInv, RequestInv, Busy
    <3>6. safe' \in [Scopes -> SUBSET Ids]
      BY <2>4, <3>1 DEF CascadeEngage, Engage
    <3>. QED  BY <2>4, <3>4, <3>5, <3>6 DEF CascadeEngage, Goto, Steps
  <2>5. CASE CascadeDone(p)
    BY <2>5, <1>0 DEF CascadeDone, Return, Goto, Steps
  <2>6. CASE ResolveStore(p)
    <3>1. call[p].id \in Ids /\ call[p].resolver \in Levels \cup {Unchecked}
      BY <2>6 DEF ResolveStore, CallInv, RequestInv, Busy, Locals
    <3>2. ij' \in [Ids -> Row]
      BY <2>6, <3>1, EndRowType DEF ResolveStore, Status
    <3>. QED  BY <2>6, <3>2 DEF ResolveStore, Goto, Steps
  <2>7. CASE ResolveRejected(p)
    BY <2>7, <1>0 DEF ResolveRejected, Return, Goto, Steps
  <2>8. CASE KeepSafeMode(p)
    BY ZenonT(60), <2>8, <1>0 DEF KeepSafeMode, Resume, Return, Goto, Steps
  <2>9. CASE ScopeIsClear(p)
    BY <2>9 DEF ScopeIsClear, Goto, Steps
  <2>10. CASE Disengage(p)
    BY ZenonT(60), <2>10, <1>0 DEF Disengage, Resume, Return, Goto, Steps
  <2>11. CASE \E id \in Ids : ExpireRow(p, id)
    <3>1. PICK id \in Ids : ExpireRow(p, id)
      BY <2>11
    <3>2. ij' \in [Ids -> Row]
      BY <3>1, EndRowType DEF ExpireRow, Status
    <3>. QED  BY <3>1, <3>2, <1>00 DEF ExpireRow, Goto, Steps
  <2>12. CASE \E id \in Ids : ExpireSkip(p, id)
    BY <2>12 DEF ExpireSkip
  <2>13. CASE ExpireDone(p)
    BY <2>13, <1>0 DEF ExpireDone, Return, Goto, Steps
  <2>. QED
    BY <1>4, <2>1, <2>2, <2>3, <2>4, <2>5, <2>6, <2>7, <2>8, <2>9, <2>10, <2>11,
       <2>12, <2>13 DEF Continue
<1>5. ASSUME NEW id \in Ids, TTLPasses(id) PROVE TypeOK'
  BY <1>5 DEF TTLPasses
<1>6. CASE Crash
  <2>1. crashes' \in 0..MaxCrashes
    BY <1>6 DEF Crash
  <2>2. /\ pc' \in [Procs -> Steps] /\ call' \in [Procs -> Locals]
        /\ todo' \in [Procs -> Seq(Frame)] /\ snap' \in [Procs -> SUBSET Ids]
    BY <1>6, <1>0, EmptySeq DEF Crash, Steps
  <2>. QED  BY <1>6, <2>1, <2>2 DEF Crash
<1>7. CASE Restart
  <2>1. \A s \in Scopes : HaltingIn(s) \subseteq Ids
    BY DEF HaltingIn, Halting, Active
  <2>. QED  BY <1>7, <2>1 DEF Restart
<1>8. CASE UNCHANGED vars
  BY <1>8 DEF vars
<1>. QED  BY <1>1, <1>2, <1>3, <1>4, <1>5, <1>6, <1>7, <1>8 DEF Move

\* What a stored row is it never loses: its scope, whether it halts, its source
\* and the clearance it was issued with (no UPDATE of the table touches them).
LEMMA RowsStable ==
    ASSUME IInv, [Move]_vars, NEW id \in Ids, ij[id].status # "none"
    PROVE  /\ ij'[id].status # "none"
           /\ ij'[id].scope = ij[id].scope
           /\ ij'[id].halting = ij[id].halting
           /\ ij'[id].clearance = ij[id].clearance
           /\ ij'[id].source = ij[id].source
<1>. USE DEF IInv, TypeOK, Row
<1>1. ASSUME NEW p \in Procs, Store(p) PROVE ij'[id] = ij[id]
  BY <1>1 DEF Store, HaltCreate, Fresh
<1>2. ASSUME NEW p \in Procs, Continue(p) PROVE
           /\ ij'[id].status # "none"
           /\ ij'[id].scope = ij[id].scope
           /\ ij'[id].halting = ij[id].halting
           /\ ij'[id].clearance = ij[id].clearance
           /\ ij'[id].source = ij[id].source
  <2>1. CASE \E k \in Ids : CascadeCreate(p, k)
    BY <2>1 DEF CascadeCreate, Fresh
  <2>2. CASE ResolveStore(p)
    BY <2>2 DEF ResolveStore, CallInv, RequestInv, Busy
  <2>3. CASE \E k \in Ids : ExpireRow(p, k)
    <3>1. PICK k \in Ids : ExpireRow(p, k)
      BY <2>3
    <3>. QED  BY <3>1 DEF ExpireRow
  <2>4. CASE UNCHANGED ij
    BY <2>4
  <2>. QED
    BY <1>2, <2>1, <2>2, <2>3, <2>4 DEF Continue, HaltEngage, CascadeSkip, CascadeEngage,
       CascadeDone, ResolveRejected, KeepSafeMode, ScopeIsClear, Disengage, ExpireSkip,
       ExpireDone
<1>3. CASE UNCHANGED ij
  BY <1>3
<1>. QED
  BY <1>1, <1>2, <1>3 DEF Move, Resolve, ResolveRead, ExpireBegin, TTLPasses, Crash,
     Restart, vars

\* A step leaves every request's local variables referring to stored rows.
LEMMA CallStep == IInv /\ [Move]_vars => CallInv'
<1>. SUFFICES ASSUME IInv, [Move]_vars PROVE CallInv'
  OBVIOUS
<1>1. ASSUME NEW q \in Procs, pc'[q] = pc[q], call'[q] = call[q], snap'[q] = snap[q]
      PROVE  RequestInv(q)'
  <2>1. RequestInv(q) /\ snap[q] \subseteq Ids /\ call[q] \in Locals
    BY DEF IInv, CallInv, TypeOK
  <2>. QED  BY <1>1, <2>1, RowsStable DEF RequestInv, MayResolve, Busy
<1>2. ASSUME NEW q \in Procs, pc'[q] \notin Busy, snap'[q] \subseteq snap[q]
      PROVE  RequestInv(q)'
  <2>1. RequestInv(q) /\ snap[q] \subseteq Ids
    BY DEF IInv, CallInv, TypeOK
  <2>. QED  BY <1>2, <2>1, RowsStable DEF RequestInv, Busy
<1>. USE DEF IInv, TypeOK, Goto, Return
<1>3. ASSUME NEW p \in Procs, Store(p) PROVE CallInv'
  <2>1. PICK id \in Ids, s \in Scopes, halting \in BOOLEAN, expires \in BOOLEAN,
              level \in Levels, source \in Sources :
            HaltCreate(p, id, s, halting, source, level, expires)
    BY <1>3 DEF Store
  <2>2. ASSUME NEW q \in Procs, q # p PROVE RequestInv(q)'
    BY <2>1, <2>2, <1>1 DEF HaltCreate
  <2>3. CASE ~halting
    BY <2>1, <2>2, <2>3, <1>1 DEF HaltCreate, CallInv
  <2>4. CASE halting
    <3>1. /\ pc'[p] = "engage" /\ call'[p] = Call(id, Unchecked) /\ snap'[p] = snap[p]
          /\ ij'[id].status = "active" /\ ij'[id].halting
      BY <2>1, <2>4 DEF HaltCreate, NewRow
    <3>2. \A k \in snap'[p] : ij'[k].status # "none"
      BY <3>1, RowsStable DEF CallInv, RequestInv
    <3>3. RequestInv(p)'
      BY <3>1, <3>2 DEF RequestInv, Call, Busy
    <3>. QED  BY <2>2, <3>3 DEF CallInv
  <2>. QED  BY <2>3, <2>4
<1>4. ASSUME NEW p \in Procs, Resolve(p) PROVE CallInv'
  <2>1. PICK id \in Ids, level \in Levels \cup {Unchecked} : ResolveRead(p, id, level)
    BY <1>4 DEF Resolve
  <2>2. /\ pc'[p] = "store" /\ call'[p] = Call(id, level) /\ snap'[p] = snap[p]
        /\ ij' = ij /\ ij[id].status # "none" /\ MayResolve(id, level)
    BY <2>1 DEF ResolveRead
  <2>3. RequestInv(p)'
    BY <2>2 DEF CallInv, RequestInv, Call, Busy, MayResolve
  <2>4. ASSUME NEW q \in Procs, q # p PROVE RequestInv(q)'
    BY <2>1, <2>4, <1>1 DEF ResolveRead
  <2>. QED  BY <2>3, <2>4 DEF CallInv
<1>5. ASSUME NEW p \in Procs, ExpireBegin(p) PROVE CallInv'
  <2>1. pc'[p] = "expire" /\ snap'[p] = Active /\ ij' = ij
    BY <1>5 DEF ExpireBegin
  <2>2. RequestInv(p)'
    BY <2>1 DEF RequestInv, Busy, Active
  <2>3. ASSUME NEW q \in Procs, q # p PROVE RequestInv(q)'
    BY <1>5, <2>3, <1>1 DEF ExpireBegin
  <2>. QED  BY <2>2, <2>3 DEF CallInv
<1>6. ASSUME NEW p \in Procs, Continue(p) PROVE CallInv'
  <2>0. ASSUME NEW q \in Procs, q # p PROVE RequestInv(q)'
    <3>1. pc'[q] = pc[q] /\ call'[q] = call[q] /\ snap'[q] = snap[q]
      BY <1>6, <2>0 DEF Continue, HaltEngage, CascadeCreate, CascadeSkip, CascadeEngage,
         CascadeDone, ResolveStore, ResolveRejected, KeepSafeMode, ScopeIsClear,
         Disengage, ExpireRow, ExpireSkip, ExpireDone, Resume
    <3>. QED  BY <3>1, <1>1
  <2>00. RequestInv(p) /\ snap[p] \subseteq Ids /\ call[p] \in Locals
    BY DEF CallInv
  <2>1. CASE HaltEngage(p)
    <3>1. pc'[p] \in {"idle", "cascade"} /\ snap' = snap /\ ij' = ij
      BY <2>1 DEF HaltEngage
    <3>2. pc'[p] = "cascade" => call' = call
      BY <2>1 DEF HaltEngage
    <3>3. RequestInv(p)'
      BY <2>1, <3>1, <3>2, <2>00 DEF HaltEngage, RequestInv, Busy
    <3>. QED  BY <2>0, <3>3 DEF CallInv
  <2>2. CASE \E id \in Ids : CascadeCreate(p, id)
    <3>1. PICK id \in Ids : CascadeCreate(p, id)
      BY <2>2
    <3>2. /\ pc[p] = "cascade" /\ pc'[p] = "engageKid" /\ snap' = snap
          /\ call'[p].id = call[p].id /\ call'[p].kid = id
      BY <3>1 DEF CascadeCreate, Locals
    <3>3. call[p].id \in Ids /\ ij[call[p].id].status # "none" /\ ij[call[p].id].halting
      BY <3>2, <2>00 DEF RequestInv, Busy
    <3>4. ij'[id].status # "none" /\ ij'[id].halting
      BY <3>1, <3>3 DEF CascadeCreate, NewRow
    <3>5. RequestInv(p)'
      BY <3>2, <3>3, <3>4, <2>00, RowsStable DEF RequestInv, Busy
    <3>. QED  BY <2>0, <3>5 DEF CallInv
  <2>3. CASE CascadeSkip(p)
    BY <2>3, <1>1 DEF CascadeSkip, CallInv
  <2>4. CASE CascadeEngage(p)
    <3>1. /\ pc[p] = "engageKid" /\ pc'[p] = "cascade" /\ snap' = snap /\ ij' = ij
          /\ call'[p].id = call[p].id
      BY <2>4 DEF CascadeEngage, Call
    <3>2. RequestInv(p)'
      BY <3>1, <2>00 DEF RequestInv, Busy
    <3>. QED  BY <2>0, <3>2 DEF CallInv
  <2>5. CASE CascadeDone(p) \/ ResolveRejected(p) \/ ExpireDone(p)
    <3>1. pc'[p] = "idle" /\ snap' = snap
      BY <2>5 DEF CascadeDone, ResolveRejected, ExpireDone
    <3>2. RequestInv(p)'
      BY <3>1, <1>2 DEF Busy
    <3>. QED  BY <2>0, <3>2 DEF CallInv
  <2>6. CASE ResolveStore(p)
    <3>1. /\ pc[p] = "store" /\ pc'[p] = "check" /\ snap' = snap /\ call' = call
      BY <2>6 DEF ResolveStore
    <3>2. RequestInv(p)'
      BY <3>1, <2>00, RowsStable DEF RequestInv, Busy
    <3>. QED  BY <2>0, <3>2 DEF CallInv
  <2>7. CASE KeepSafeMode(p) \/ Disengage(p)
    <3>1. pc'[p] \in {"idle", "expire"} /\ snap' = snap
      BY <2>7 DEF KeepSafeMode, Disengage, Resume
    <3>2. RequestInv(p)'
      BY <3>1, <1>2 DEF Busy
    <3>. QED  BY <2>0, <3>2 DEF CallInv
  <2>8. CASE ScopeIsClear(p)
    <3>1. /\ pc[p] \in Busy /\ pc'[p] \in {"disengage", "expireDisengage"}
          /\ snap' = snap /\ call' = call /\ ij' = ij
      BY <2>8 DEF ScopeIsClear, Busy
    <3>2. RequestInv(p)'
      BY <3>1, <2>00 DEF RequestInv, Busy
    <3>. QED  BY <2>0, <3>2 DEF CallInv
  <2>9. CASE \E id \in Ids : ExpireRow(p, id)
    <3>1. PICK id \in Ids : ExpireRow(p, id)
      BY <2>9
    <3>2. /\ id \in snap[p] /\ pc'[p] = "expireCheck" /\ call'[p] = Call(id, Unchecked)
          /\ snap'[p] \subseteq snap[p]
      BY <3>1 DEF ExpireRow
    <3>3. RequestInv(p)'
      BY <3>2, <2>00, RowsStable DEF RequestInv, Busy, Call
    <3>. QED  BY <2>0, <3>3 DEF CallInv
  <2>10. CASE \E id \in Ids : ExpireSkip(p, id)
    <3>1. pc'[p] \notin Busy /\ snap'[p] \subseteq snap[p]
      BY <2>10 DEF ExpireSkip, Busy
    <3>. QED  BY <2>0, <3>1, <1>2 DEF CallInv
  <2>. QED
    BY <1>6, <2>1, <2>2, <2>3, <2>4, <2>5, <2>6, <2>7, <2>8, <2>9, <2>10 DEF Continue
<1>7. CASE Crash
  <2>1. \A q \in Procs : pc'[q] \notin Busy /\ snap'[q] = {}
    BY <1>7 DEF Crash, Busy
  <2>. QED  BY <2>1, <1>2 DEF CallInv
<1>8. CASE pc' = pc /\ call' = call /\ snap' = snap
  BY <1>8, <1>1 DEF CallInv
<1>. QED
  BY <1>3, <1>4, <1>5, <1>6, <1>7, <1>8 DEF Move, TTLPasses, Restart, vars

\* A step leaves Safe Mode blamed on stored halts of the right scope only.
LEMMA EngagedStep == IInv /\ [Move]_vars => EngagedAreHalts'
<1>. SUFFICES ASSUME IInv, [Move]_vars PROVE EngagedAreHalts'
  OBVIOUS
<1>. USE DEF IInv, TypeOK
<1>1. ASSUME \A s \in Scopes : \A id \in safe'[s] :
                id \in safe[s] \/ ( /\ id \in Ids /\ ij[id].status # "none"
                                   /\ ij[id].halting /\ ij[id].scope = s)
      PROVE  EngagedAreHalts'
  <2>. SUFFICES ASSUME NEW s \in Scopes, NEW id \in safe'[s]
                PROVE  ij'[id].status # "none" /\ ij'[id].halting /\ ij'[id].scope = s
    BY DEF EngagedAreHalts
  <2>1. /\ id \in Ids /\ ij[id].status # "none" /\ ij[id].halting /\ ij[id].scope = s
    BY <1>1 DEF EngagedAreHalts
  <2>. QED  BY <2>1, RowsStable
<1>2. ASSUME NEW p \in Procs, HaltEngage(p) PROVE EngagedAreHalts'
  <2>1. /\ call[p].id \in Ids /\ ij[call[p].id].status # "none" /\ ij[call[p].id].halting
    BY <1>2 DEF HaltEngage, CallInv, RequestInv, Busy
  <2>. QED  BY <1>1, <1>2, <2>1 DEF HaltEngage, Engage
<1>3. ASSUME NEW p \in Procs, CascadeEngage(p) PROVE EngagedAreHalts'
  <2>1. /\ call[p].kid \in Ids /\ ij[call[p].kid].status # "none" /\ ij[call[p].kid].halting
    BY <1>3 DEF CascadeEngage, CallInv, RequestInv, Busy
  <2>. QED  BY <1>1, <1>3, <2>1 DEF CascadeEngage, Engage
<1>4. ASSUME NEW p \in Procs, Disengage(p) PROVE EngagedAreHalts'
  BY <1>1, <1>4 DEF Disengage
<1>5. CASE Crash
  BY <1>1, <1>5 DEF Crash
<1>6. CASE Restart
  BY <1>1, <1>6 DEF Restart, HaltingIn, Halting, Active
<1>7. CASE UNCHANGED safe
  BY <1>1, <1>7
<1>8. ASSUME NEW p \in Procs, Store(p) \/ Resolve(p) \/ ExpireBegin(p) PROVE UNCHANGED safe
  BY <1>8 DEF Store, HaltCreate, Resolve, ResolveRead, ExpireBegin
<1>9. ASSUME NEW p \in Procs, Continue(p) PROVE EngagedAreHalts'
  BY <1>9, <1>2, <1>3, <1>4, <1>7 DEF Continue, CascadeCreate, CascadeSkip, CascadeDone,
     ResolveStore, ResolveRejected, KeepSafeMode, ScopeIsClear, ExpireRow, ExpireSkip,
     ExpireDone
<1>. QED
  BY <1>5, <1>6, <1>7, <1>8, <1>9 DEF Move, TTLPasses, vars

\* IInv is inductive.
LEMMA IInvStep == IInv /\ [Move]_vars => IInv'
BY TypeStep, CallStep, EngagedStep DEF IInv

\* IInv holds of the Andon Cord on its own.
LEMMA IInvariant == Spec => []IInv
<1>1. Init => IInv
  BY IInvInit
<1>2. IInv /\ [Next]_vars => IInv'
  BY NextMoves, IInvStep
<1>. QED  BY <1>1, <1>2, PTL DEF Spec

\* Every variable keeps its shape, whatever the requests, failures and restarts.
THEOREM TypeCorrect == Spec => []TypeOK
<1>1. IInv => TypeOK
  BY DEF IInv
<1>. QED  BY <1>1, IInvariant, PTL

\* Safe Mode of a scope is only ever blamed on stored halts of that very scope,
\* however Halt, Resolve, ExpireTTL, cascades and restarts interleave.
THEOREM SafeModeBlamesHalts == Spec => []EngagedAreHalts
<1>1. IInv => EngagedAreHalts
  BY DEF IInv
<1>. QED  BY <1>1, IInvariant, PTL
-----------------------------------------------------------------------------
(* The interjections table implements the ledger *)

\* The ledger the table stands for (the substitution of Ledger).
Entries == [id \in Ids |-> [status    |-> ij[id].status,
                           clearance |-> ij[id].clearance,
                           resolver  |-> ij[id].resolver]]

\* A new row is an Issue of the ledger.
LEMMA StoreIssues ==
    ASSUME IInv, NEW id \in Fresh, NEW s, NEW halting, NEW source, NEW level \in Levels,
           NEW expires, NEW root,
           ij' = [ij EXCEPT ![id] = NewRow(s, halting, source, level, expires, root)]
    PROVE  Ledger!Issue(id, level)
<1>1. id \in Ids /\ ij[id].status = "none" /\ ij \in [Ids -> Row]
  BY DEF Fresh, IInv, TypeOK
<1>2. Entries' = [Entries EXCEPT ![id] = [status |-> "active", clearance |-> level,
                                          resolver |-> Unchecked]]
  BY <1>1 DEF Entries, NewRow
<1>. QED  BY <1>1, <1>2 DEF Ledger!Issue, Entries

\* Every step of the Andon Cord is a step of the ledger or leaves it alone.
LEMMA LedgerStep == IInv /\ [Move]_vars => [Ledger!Next]_Entries
<1>. SUFFICES ASSUME IInv, [Move]_vars PROVE Ledger!Next \/ UNCHANGED Entries
  BY DEF Ledger!Next
<1>. USE DEF IInv, TypeOK
<1>1. ASSUME NEW p \in Procs, Store(p) PROVE Ledger!Next
  BY <1>1, StoreIssues DEF Store, HaltCreate, Fresh, Ledger!Next
<1>2. ASSUME NEW p \in Procs, NEW id \in Ids, CascadeCreate(p, id) PROVE Ledger!Next
  BY <1>2, StoreIssues DEF CascadeCreate, Fresh, Ledger!Next
<1>3. ASSUME NEW p \in Procs, ResolveStore(p) PROVE Ledger!Next
  <2>1. /\ call[p].id \in Ids /\ call[p].resolver \in Levels \cup {Unchecked}
        /\ MayResolve(call[p].id, call[p].resolver)
    BY <1>3 DEF ResolveStore, CallInv, RequestInv, Busy, Locals
  <2>2. PICK id \in Ids, level \in Levels \cup {Unchecked} :
            id = call[p].id /\ level = call[p].resolver
    BY <2>1
  <2>3. /\ ij[id].status = "active" /\ MayResolve(id, level)
        /\ ij' = [ij EXCEPT ![id] = [ij[id] EXCEPT !.status = "resolved", !.resolver = level]]
    BY <1>3, <2>1, <2>2 DEF ResolveStore
  <2>4. \A k \in Ids : Entries'[k] =
            IF k = id THEN [status |-> "resolved", clearance |-> ij[id].clearance,
                            resolver |-> level]
                      ELSE Entries[k]
    BY <2>3 DEF Entries, Row
  <2>5. Entries' = [Entries EXCEPT ![id] =
                       [Entries[id] EXCEPT !.status = "resolved", !.resolver = level]]
    BY <2>4 DEF Entries
  <2>6. Ledger!Clear(id, level)
    BY <2>3, <2>5 DEF Ledger!Clear, Entries, MayResolve
  <2>. QED  BY <2>6, Zenon DEF Ledger!Next
<1>4. ASSUME NEW p \in Procs, NEW id \in Ids, ExpireRow(p, id) PROVE Ledger!Next \/ UNCHANGED Entries
  <2>1. CASE ij[id].status = "active"
    <3>1. Entries' = [Entries EXCEPT ![id].status = "expired"]
      BY ZenonT(60), <1>4, <2>1 DEF ExpireRow, Entries, Row
    <3>2. Ledger!Lapse(id)
      BY <2>1, <3>1 DEF Ledger!Lapse, Entries
    <3>. QED  BY <3>2 DEF Ledger!Next
  <2>2. CASE ij[id].status # "active"
    BY <1>4, <2>2 DEF ExpireRow, Entries
  <2>. QED  BY <2>1, <2>2
<1>5. CASE UNCHANGED ij
  BY <1>5 DEF Entries
<1>. QED
  BY <1>1, <1>2, <1>3, <1>4, <1>5 DEF Move, Resolve, ResolveRead, ExpireBegin, Continue,
     HaltEngage, CascadeSkip, CascadeEngage, CascadeDone, ResolveRejected, KeepSafeMode,
     ScopeIsClear, Disengage, ExpireSkip, ExpireDone, TTLPasses, Crash, Restart, vars

\* The table keeps the promise of the ledger: a row is issued once and ends at
\* most once, by an authorised resolution or by its TTL, although Resolve and
\* ExpireTTL work on rows they read earlier.
THEOREM TableImplementsLedger == Spec => ImplementsLedger
<1>1. Init => Ledger!Init
  BY DEF Init, Unused, Ledger!Init, Ledger!Blank
<1>2. IInv /\ [Next]_vars => [Ledger!Next]_Entries
  BY NextMoves, LedgerStep
<1>. QED
  BY <1>1, <1>2, IInvariant, PTL DEF Spec, ImplementsLedger, Ledger!Spec, Entries
-----------------------------------------------------------------------------
(* Safe Mode never forgets an active halt, but by a stale Disengage        *)

\* Halt, or a cascade, has stored the row and is about to engage its scope.
Pending(p, id) ==
    \/ pc[p] = "engage" /\ call[p].id = id
    \/ pc[p] = "engageKid" /\ call[p].kid = id

\* While the server runs, an active halt is engaged or about to be.
HeldInv == up => \A id \in Halting : \/ id \in safe[ij[id].scope]
                                      \/ \E p \in Procs : Pending(p, id)

\* Requests interleaved in any way, failing statements and restarts keep
\* HeldInv: of all the steps only a Disengage on a stale check, or a recovery
\* that could not read the table, lets an active halt go.
LEMMA HeldStep ==
    ASSUME IInv, HeldInv, [Move]_vars, ~FailedRecovery,
           \A p \in Procs : ~StaleDisengage(p)
    PROVE  HeldInv'
<1>. USE DEF IInv, TypeOK, Goto, Return
<1>0. \A k \in Halting : ij[k].scope \in Scopes
  BY DEF Halting, Active, Row
<1>7. ASSUME NEW p \in Procs, safe' = safe, up' = up,
             \A q \in Procs, k \in Ids : q # p /\ Pending(q, k) => Pending(q, k)',
             \A k \in Halting' :
                 \/ k \in Halting /\ ij'[k].scope = ij[k].scope /\ ~Pending(p, k)
                 \/ Pending(p, k)'
      PROVE  HeldInv'
  <2>. SUFFICES ASSUME up, NEW k \in Halting', ~Pending(p, k)'
                PROVE  \/ k \in safe[ij'[k].scope]
                       \/ \E q \in Procs : Pending(q, k)'
    BY <1>7 DEF HeldInv
  <2>1. k \in Halting /\ ij'[k].scope = ij[k].scope /\ ~Pending(p, k) /\ k \in Ids
    BY <1>7 DEF Halting, Active
  <2>2. CASE k \in safe[ij[k].scope]
    BY <2>1, <2>2
  <2>3. CASE \E q \in Procs : Pending(q, k)
    BY <1>7, <2>1, <2>3
  <2>. QED  BY <2>1, <2>2, <2>3 DEF HeldInv
<1>1. ASSUME NEW p \in Procs, Store(p) PROVE HeldInv'
  <2>1. PICK id \in Ids, s \in Scopes, halting \in BOOLEAN, expires \in BOOLEAN,
              level \in Levels, source \in Sources :
            HaltCreate(p, id, s, halting, source, level, expires)
    BY <1>1 DEF Store
  <2>2. pc[p] = "idle" /\ up' = up /\ safe' = safe
    BY <2>1 DEF HaltCreate
  <2>3. \A k \in Ids : k # id => ij'[k] = ij[k]
    BY <2>1 DEF HaltCreate
  <2>4. ij'[id].halting = halting
    BY <2>1 DEF HaltCreate, NewRow
  <2>5. halting => pc'[p] = "engage" /\ call'[p].id = id
    BY <2>1 DEF HaltCreate, Call
  <2>6. \A q \in Procs : q # p => pc'[q] = pc[q] /\ call'[q] = call[q]
    BY <2>1 DEF HaltCreate
  <2>7. \A q \in Procs, k \in Ids : q # p /\ Pending(q, k) => Pending(q, k)'
    BY <2>6 DEF Pending
  <2>8. \A k : ~Pending(p, k)
    BY <2>2 DEF Pending
  <2>9. \A k \in Halting' : (k \in Halting /\ ij'[k].scope = ij[k].scope) \/ Pending(p, k)'
    BY <2>3, <2>4, <2>5 DEF Halting, Active, Pending
  <2>. QED  BY <1>7, <2>2, <2>7, <2>8, <2>9
<1>2. ASSUME NEW p \in Procs, Continue(p) PROVE HeldInv'
  <2>0. \A q \in Procs : q # p => pc'[q] = pc[q] /\ call'[q] = call[q]
    BY <1>2 DEF Continue, HaltEngage, CascadeCreate, CascadeSkip, CascadeEngage,
       CascadeDone, ResolveStore, ResolveRejected, KeepSafeMode, ScopeIsClear,
       Disengage, ExpireRow, ExpireSkip, ExpireDone, Resume
  <2>00. \A q \in Procs, k \in Ids : q # p => (Pending(q, k) <=> Pending(q, k)')
    BY <2>0 DEF Pending
  <2>1. CASE HaltEngage(p)
    <3>1. pc[p] = "engage" /\ ij' = ij /\ up' = up
          /\ safe' = [safe EXCEPT ![ij[call[p].id].scope] = @ \cup {call[p].id}]
      BY <2>1 DEF HaltEngage, Engage
    <3>2. call[p].id \in Ids /\ ij[call[p].id].scope \in Scopes
      BY <3>1 DEF CallInv, RequestInv, Busy, Row
    <3>3. \A k : Pending(p, k) => k = call[p].id
      BY <3>1 DEF Pending
    <3>. QED  BY <1>0, <2>00, <3>1, <3>2, <3>3 DEF HeldInv, Halting, Active
  <2>2. CASE CascadeEngage(p)
    <3>1. pc[p] = "engageKid" /\ ij' = ij /\ up' = up
          /\ safe' = [safe EXCEPT ![ij[call[p].kid].scope] = @ \cup {call[p].kid}]
      BY <2>2 DEF CascadeEngage, Engage
    <3>2. call[p].kid \in Ids /\ ij[call[p].kid].scope \in Scopes
      BY <3>1 DEF CallInv, RequestInv, Row
    <3>3. \A k : Pending(p, k) => k = call[p].kid
      BY <3>1 DEF Pending
    <3>. QED  BY <1>0, <2>00, <3>1, <3>2, <3>3 DEF HeldInv, Halting, Active
  <2>3. CASE \E id \in Ids : CascadeCreate(p, id)
    <3>1. PICK id \in Ids : CascadeCreate(p, id)
      BY <2>3
    <3>2. pc[p] = "cascade" /\ pc'[p] = "engageKid" /\ call'[p].kid = id
          /\ safe' = safe /\ up' = up
      BY <3>1 DEF CascadeCreate, Locals
    <3>3. \A k \in Ids : k # id => ij'[k] = ij[k]
      BY <3>1 DEF CascadeCreate
    <3>4. Pending(p, id)' /\ \A k : ~Pending(p, k)
      BY <3>2 DEF Pending
    <3>5. \A k \in Halting' : (k \in Halting /\ ij'[k].scope = ij[k].scope) \/ Pending(p, k)'
      BY <3>3, <3>4 DEF Halting, Active
    <3>. QED  BY <1>7, <2>00, <3>2, <3>4, <3>5
  <2>4. CASE Disengage(p)
    <3>. DEFINE s == ij[call[p].id].scope
    <3>1. /\ pc[p] \in {"disengage", "expireDisengage"} /\ ij' = ij /\ up' = up
          /\ safe' = [safe EXCEPT ![s] = {}]
      BY <2>4 DEF Disengage
    <3>2. \A k \in Halting : ij[k].scope # s
      BY <2>4 DEF StaleDisengage, HaltingIn
    <3>3. \A k : ~Pending(p, k)
      BY <3>1 DEF Pending
    <3>. HIDE DEF s
    <3>. QED  BY <1>0, <2>00, <3>1, <3>2, <3>3 DEF HeldInv, Halting, Active
  <2>5. CASE ResolveStore(p) \/ \E id \in Ids : ExpireRow(p, id)
    <3>1. /\ safe' = safe /\ up' = up /\ pc[p] \in {"store", "expire"}
          /\ \A k \in Ids : ij'[k] = ij[k] \/ ij'[k].status # "active"
      <4>1. CASE ResolveStore(p)
        BY <4>1 DEF ResolveStore, CallInv, RequestInv, Busy, Row
      <4>2. CASE \E id \in Ids : ExpireRow(p, id)
        BY <4>2 DEF ExpireRow, Row
      <4>. QED  BY <2>5, <4>1, <4>2
    <3>2. \A k : ~Pending(p, k)
      BY <3>1 DEF Pending
    <3>. QED  BY <2>00, <3>1, <3>2 DEF HeldInv, Halting, Active
  <2>6. CASE /\ ij' = ij /\ safe' = safe /\ up' = up
             /\ pc[p] \notin {"engage", "engageKid"}
    <3>1. \A k : ~Pending(p, k)
      BY <2>6 DEF Pending
    <3>. QED  BY <2>00, <2>6, <3>1 DEF HeldInv, Halting, Active
  <2>7. CASE CascadeSkip(p) \/ CascadeDone(p) \/ ResolveRejected(p) \/ ExpireDone(p)
    BY <2>6, <2>7 DEF CascadeSkip, CascadeDone, ResolveRejected, ExpireDone
  <2>8. CASE KeepSafeMode(p) \/ ScopeIsClear(p)
    BY <2>6, <2>8 DEF KeepSafeMode, ScopeIsClear
  <2>9. CASE \E id \in Ids : ExpireSkip(p, id)
    BY <2>6, <2>9 DEF ExpireSkip
  <2>. QED
    BY <1>2, <2>1, <2>2, <2>3, <2>4, <2>5, <2>7, <2>8, <2>9 DEF Continue
<1>3. ASSUME NEW p \in Procs, Resolve(p) \/ ExpireBegin(p) PROVE HeldInv'
  <2>1. /\ ij' = ij /\ safe' = safe /\ up' = up /\ pc[p] = "idle"
        /\ \A q \in Procs : q # p => pc'[q] = pc[q] /\ call'[q] = call[q]
    BY <1>3 DEF Resolve, ResolveRead, ExpireBegin
  <2>2. \A q \in Procs, k \in Ids : q # p /\ Pending(q, k) => Pending(q, k)'
    BY <2>1 DEF Pending
  <2>3. \A k : ~Pending(p, k)
    BY <2>1 DEF Pending
  <2>4. \A k \in Halting' : k \in Halting /\ ij'[k].scope = ij[k].scope
    BY <2>1 DEF Halting, Active
  <2>. QED  BY <1>7, <2>1, <2>2, <2>3, <2>4
<1>4. CASE Crash
  BY <1>4 DEF Crash, HeldInv
<1>5. CASE Restart
  <2>1. \A s \in Scopes : safe'[s] = HaltingIn(s)
    BY <1>5 DEF FailedRecovery
  <2>2. \A k \in Halting : k \in safe'[ij[k].scope]
    BY <1>0, <2>1 DEF HaltingIn
  <2>. QED  BY <1>5, <2>2 DEF Restart, HeldInv, Halting, Active
<1>6. CASE ij' = ij /\ safe' = safe /\ up' = up /\ pc' = pc /\ call' = call
  BY <1>6 DEF HeldInv, Pending, Halting, Active
<1>. QED
  BY <1>1, <1>2, <1>3, <1>4, <1>5, <1>6 DEF Move, TTLPasses, vars

LEMMA HeldInit == Init => HeldInv
BY DEF Init, HeldInv, Halting, Active, Unused

\* With any number of requests at once, failing statements and restarts: as
\* long as no Disengage acts on a stale check and no recovery fails, every
\* active halt is, whenever the server is at rest, among the reasons of its
\* scope's Safe Mode.  The two excluded steps are the only ways to lose one.
THEOREM OnlyStaleChecksForgetHalts ==
    Spec /\ [][~FailedRecovery /\ \A p \in Procs : ~StaleDisengage(p)]_vars
        => []HaltsAreEngaged
<1>. DEFINE Good == ~FailedRecovery /\ \A p \in Procs : ~StaleDisengage(p)
<1>1. Init => HeldInv
  BY HeldInit
<1>2. IInv /\ HeldInv /\ [Next]_vars /\ [Good]_vars => HeldInv'
  <2>1. CASE UNCHANGED vars
    BY <2>1 DEF vars, HeldInv, Pending, Halting, Active
  <2>2. CASE Good
    BY <2>2, NextMoves, HeldStep
  <2>. QED  BY <2>1, <2>2
<1>3. HeldInv => HaltsAreEngaged
  BY DEF HeldInv, HaltsAreEngaged, Quiet, Pending
<1>. HIDE DEF Good
<1>4. Spec /\ [][Good]_vars => []HaltsAreEngaged
  BY <1>1, <1>2, <1>3, IInvariant, PTL DEF Spec
<1>. QED  BY <1>4 DEF Good
-----------------------------------------------------------------------------
(* Safe Mode is left with the last halt, but for late and blind steps      *)

Leaving == {"check", "disengage", "expireCheck", "expireDisengage"}

\* A scope in Safe Mode has an active halt, or some request is about to look
\* at it.
ClearInv ==
    \A s \in Scopes : safe[s] # {} =>
        \/ HaltingIn(s) # {}
        \/ \E p \in Procs : pc[p] \in Leaving /\ ij[call[p].id].scope = s

\* Requests interleaved in any way, failing statements and restarts keep
\* ClearInv: whoever ends a halt goes on to look at its scope.  Only an Engage
\* for a halt that has ended, or a check that could not read the table, leaves
\* a scope in Safe Mode for nothing.
LEMMA ClearStep ==
    ASSUME IInv, ClearInv, [Move]_vars,
           \A p \in Procs : ~LateEngage(p) /\ ~BlindKeep(p)
    PROVE  ClearInv'
<1>. USE DEF IInv, TypeOK, Goto, Return
<1>1. ASSUME NEW p \in Procs, Store(p) PROVE ClearInv'
  <2>1. PICK id \in Ids, s \in Scopes, halting \in BOOLEAN, expires \in BOOLEAN,
              level \in Levels, source \in Sources :
            HaltCreate(p, id, s, halting, source, level, expires)
    BY <1>1 DEF Store
  <2>2. pc[p] = "idle" /\ safe' = safe
    BY <2>1 DEF HaltCreate
  <2>3. ij[id].status = "none" /\ \A k \in Ids : k # id => ij'[k] = ij[k]
    BY <2>1 DEF HaltCreate, Fresh
  <2>4. \A r \in Scopes : HaltingIn(r) \subseteq HaltingIn(r)'
    BY <2>3 DEF HaltingIn, Halting, Active
  <2>5. \A q \in Procs : q # p => pc'[q] = pc[q] /\ call'[q] = call[q]
    BY <2>1 DEF HaltCreate
  <2>6. \A q \in Procs : pc[q] \in Leaving => q # p /\ ij'[call[q].id].scope = ij[call[q].id].scope
    BY <2>2, <2>3 DEF CallInv, RequestInv, Leaving, Busy
  <2>. SUFFICES ASSUME NEW r \in Scopes, safe[r] # {}, HaltingIn(r)' = {}
                PROVE  \E q \in Procs : pc'[q] \in Leaving /\ ij'[call'[q].id].scope = r
    BY <2>2 DEF ClearInv
  <2>7. PICK q \in Procs : pc[q] \in Leaving /\ ij[call[q].id].scope = r
    BY <2>4 DEF ClearInv
  <2>. QED  BY <2>5, <2>6, <2>7
<1>2. ASSUME NEW p \in Procs, Continue(p) PROVE ClearInv'
  <2>0. \A q \in Procs : q # p => pc'[q] = pc[q] /\ call'[q] = call[q]
    BY <1>2 DEF Continue, HaltEngage, CascadeCreate, CascadeSkip, CascadeEngage,
       CascadeDone, ResolveStore, ResolveRejected, KeepSafeMode, ScopeIsClear,
       Disengage, ExpireRow, ExpireSkip, ExpireDone, Resume
  <2>00. \A q \in Procs : pc[q] \in Leaving => ij'[call[q].id].scope = ij[call[q].id].scope
    BY RowsStable DEF CallInv, RequestInv, Leaving, Busy
  <2>000. ASSUME NEW s \in Scopes, NEW q \in Procs, q # p, pc[q] \in Leaving,
                 ij[call[q].id].scope = s
          PROVE  \E r \in Procs : pc'[r] \in Leaving /\ ij'[call'[r].id].scope = s
    BY <2>0, <2>00, <2>000
  <2>1. CASE HaltEngage(p)
    <3>1. pc[p] = "engage" /\ ij' = ij
          /\ safe' = [safe EXCEPT ![ij[call[p].id].scope] = @ \cup {call[p].id}]
      BY <2>1 DEF HaltEngage, Engage
    <3>2. call[p].id \in HaltingIn(ij[call[p].id].scope)
      BY <2>1, <3>1 DEF LateEngage, CallInv, RequestInv, Busy, HaltingIn, Halting, Active
    <3>3. \A s \in Scopes : HaltingIn(s)' = HaltingIn(s)
      BY <3>1 DEF HaltingIn, Halting, Active
    <3>4. \A s \in Scopes : safe'[s] # {} /\ HaltingIn(s) = {} => safe[s] # {}
      BY <3>1, <3>2
    <3>. QED  BY <2>000, <3>1, <3>3, <3>4 DEF ClearInv, Leaving
  <2>2. CASE CascadeEngage(p)
    <3>1. pc[p] = "engageKid" /\ ij' = ij
          /\ safe' = [safe EXCEPT ![ij[call[p].kid].scope] = @ \cup {call[p].kid}]
      BY <2>2 DEF CascadeEngage, Engage
    <3>2. call[p].kid \in HaltingIn(ij[call[p].kid].scope)
      BY <2>2, <3>1 DEF LateEngage, CallInv, RequestInv, HaltingIn, Halting, Active
    <3>3. \A s \in Scopes : HaltingIn(s)' = HaltingIn(s)
      BY <3>1 DEF HaltingIn, Halting, Active
    <3>4. \A s \in Scopes : safe'[s] # {} /\ HaltingIn(s) = {} => safe[s] # {}
      BY <3>1, <3>2
    <3>. QED  BY <2>000, <3>1, <3>3, <3>4 DEF ClearInv, Leaving
  <2>3. CASE \E id \in Ids : CascadeCreate(p, id)
    <3>1. PICK id \in Ids : CascadeCreate(p, id)
      BY <2>3
    <3>2. pc[p] = "cascade" /\ safe' = safe
      BY <3>1 DEF CascadeCreate
    <3>3. ij[id].status = "none" /\ \A k \in Ids : k # id => ij'[k] = ij[k]
      BY <3>1 DEF CascadeCreate, Fresh
    <3>4. \A r \in Scopes : HaltingIn(r) \subseteq HaltingIn(r)'
      BY <3>3 DEF HaltingIn, Halting, Active
    <3>5. ASSUME NEW r \in Scopes, safe[r] # {}, HaltingIn(r)' = {}
          PROVE  \E q \in Procs : pc'[q] \in Leaving /\ ij'[call'[q].id].scope = r
      <4>1. PICK q \in Procs : pc[q] \in Leaving /\ ij[call[q].id].scope = r
        BY <3>4, <3>5 DEF ClearInv
      <4>2. q # p
        BY <3>2, <4>1 DEF Leaving
      <4>. QED  BY <2>000, <4>1, <4>2
    <3>. QED  BY <3>2, <3>5 DEF ClearInv
  <2>4. CASE Disengage(p)
    <3>. DEFINE s == ij[call[p].id].scope
    <3>1. /\ ij' = ij /\ safe' = [safe EXCEPT ![s] = {}]
      BY <2>4 DEF Disengage
    <3>2. \A r \in Scopes : safe'[r] # {} => r # s /\ safe[r] # {}
      BY <3>1
    <3>3. \A r \in Scopes : HaltingIn(r)' = HaltingIn(r)
      BY <3>1 DEF HaltingIn, Halting, Active
    <3>. QED  BY <2>000, <3>2, <3>3 DEF ClearInv
  <2>5. CASE ScopeIsClear(p)
    <3>1. /\ ij' = ij /\ safe' = safe /\ call' = call
          /\ pc[p] \in Leaving /\ pc'[p] \in Leaving
      BY <2>5 DEF ScopeIsClear, Leaving
    <3>2. \A r \in Scopes : HaltingIn(r)' = HaltingIn(r)
      BY <3>1 DEF HaltingIn, Halting, Active
    <3>. QED  BY <2>0, <3>1, <3>2 DEF ClearInv
  <2>6. CASE ResolveStore(p) \/ \E id \in Ids : ExpireRow(p, id)
    <3>1. PICK id \in Ids :
             /\ safe' = safe /\ pc[p] \notin Leaving
             /\ pc'[p] \in Leaving /\ call'[p].id = id
             /\ \A k \in Ids : k # id => ij'[k] = ij[k]
             /\ ij'[id].scope = ij[id].scope
      <4>1. CASE ResolveStore(p)
        <5>1. call[p].id \in Ids /\ ij[call[p].id] \in Row
          BY <4>1 DEF ResolveStore, CallInv, RequestInv, Busy
        <5>. QED  BY <4>1, <5>1 DEF ResolveStore, Row, Leaving
      <4>2. CASE \E id \in Ids : ExpireRow(p, id)
        BY <4>2 DEF ExpireRow, Row, Call, Leaving
      <4>. QED  BY <2>6, <4>1, <4>2
    <3>2. \A r \in Scopes : r # ij[id].scope => HaltingIn(r) \subseteq HaltingIn(r)'
      BY <3>1 DEF HaltingIn, Halting, Active
    <3>. SUFFICES ASSUME NEW r \in Scopes, safe[r] # {}, HaltingIn(r)' = {}
                  PROVE  \E q \in Procs : pc'[q] \in Leaving /\ ij'[call'[q].id].scope = r
      BY <3>1 DEF ClearInv
    <3>3. CASE r = ij[id].scope
      BY <3>1, <3>3
    <3>4. CASE r # ij[id].scope
      <4>1. PICK q \in Procs : pc[q] \in Leaving /\ ij[call[q].id].scope = r
        BY <3>2, <3>4 DEF ClearInv
      <4>. QED  BY <2>000, <3>1, <4>1
    <3>. QED  BY <3>3, <3>4
  <2>7. CASE KeepSafeMode(p)
    <3>1. /\ ij' = ij /\ safe' = safe /\ HaltingIn(ij[call[p].id].scope) # {}
      BY <2>7 DEF KeepSafeMode, BlindKeep
    <3>2. \A r \in Scopes : HaltingIn(r)' = HaltingIn(r)
      BY <3>1 DEF HaltingIn, Halting, Active
    <3>. SUFFICES ASSUME NEW r \in Scopes, safe[r] # {}, HaltingIn(r) = {}
                  PROVE  \E q \in Procs : pc'[q] \in Leaving /\ ij'[call'[q].id].scope = r
      BY <3>1, <3>2 DEF ClearInv
    <3>3. PICK q \in Procs : pc[q] \in Leaving /\ ij[call[q].id].scope = r
      BY DEF ClearInv
    <3>4. q # p
      BY <3>1, <3>3
    <3>. QED  BY <2>000, <3>3, <3>4
  <2>8. CASE ij' = ij /\ safe' = safe /\ pc[p] \notin Leaving
    <3>1. \A r \in Scopes : HaltingIn(r)' = HaltingIn(r)
      BY <2>8 DEF HaltingIn, Halting, Active
    <3>. QED  BY <2>000, <2>8, <3>1 DEF ClearInv
  <2>9. CASE CascadeSkip(p) \/ CascadeDone(p) \/ ResolveRejected(p) \/ ExpireDone(p)
    BY <2>8, <2>9 DEF CascadeSkip, CascadeDone, ResolveRejected, ExpireDone, Leaving
  <2>10. CASE \E id \in Ids : ExpireSkip(p, id)
    BY <2>8, <2>10 DEF ExpireSkip, Leaving
  <2>. QED
    BY <1>2, <2>1, <2>2, <2>3, <2>4, <2>5, <2>6, <2>7, <2>9, <2>10 DEF Continue
<1>3. ASSUME NEW p \in Procs, Resolve(p) \/ ExpireBegin(p) PROVE ClearInv'
  <2>1. /\ ij' = ij /\ safe' = safe /\ pc[p] = "idle"
        /\ \A q \in Procs : q # p => pc'[q] = pc[q] /\ call'[q] = call[q]
    BY <1>3 DEF Resolve, ResolveRead, ExpireBegin
  <2>2. \A r \in Scopes : HaltingIn(r)' = HaltingIn(r)
    BY <2>1 DEF HaltingIn, Halting, Active
  <2>. SUFFICES ASSUME NEW r \in Scopes, safe[r] # {}, HaltingIn(r)' = {}
                PROVE  \E q \in Procs : pc'[q] \in Leaving /\ ij'[call'[q].id].scope = r
    BY <2>1 DEF ClearInv
  <2>3. PICK q \in Procs : pc[q] \in Leaving /\ ij[call[q].id].scope = r
    BY <2>2 DEF ClearInv
  <2>. QED  BY <2>1, <2>3 DEF Leaving
<1>4. CASE Crash
  BY <1>4 DEF Crash, ClearInv
<1>5. CASE Restart
  <2>1. /\ \A s \in Scopes : safe'[s] = HaltingIn(s) \/ safe'[s] = safe[s]
        /\ ij' = ij /\ pc' = pc /\ call' = call
    BY <1>5 DEF Restart
  <2>2. \A r \in Scopes : HaltingIn(r)' = HaltingIn(r)
    BY <2>1 DEF HaltingIn, Halting, Active
  <2>. QED  BY <2>1, <2>2 DEF ClearInv
<1>6. CASE ij' = ij /\ safe' = safe /\ pc' = pc /\ call' = call
  BY <1>6 DEF ClearInv, HaltingIn, Halting, Active
<1>. QED
  BY <1>1, <1>2, <1>3, <1>4, <1>5, <1>6 DEF Move, TTLPasses, vars

\* With any number of requests at once, failing statements and restarts: as
\* long as nobody engages a halt that has ended in the meantime and every check
\* that finds no halt reads the table, a scope in Safe Mode has, whenever the
\* server is at rest, an active halt.
THEOREM OnlyLateStepsKeepSafeMode ==
    Spec /\ [][\A p \in Procs : ~LateEngage(p) /\ ~BlindKeep(p)]_vars
        => []SafeModeHasHalt
<1>. DEFINE Good == \A p \in Procs : ~LateEngage(p) /\ ~BlindKeep(p)
<1>1. Init => ClearInv
  BY DEF Init, ClearInv
<1>2. IInv /\ ClearInv /\ [Next]_vars /\ [Good]_vars => ClearInv'
  <2>1. CASE UNCHANGED vars
    BY <2>1 DEF vars, ClearInv, HaltingIn, Halting, Active
  <2>2. CASE Good
    BY <2>2, NextMoves, ClearStep
  <2>. QED  BY <2>1, <2>2
<1>3. ClearInv => SafeModeHasHalt
  BY DEF ClearInv, SafeModeHasHalt, Quiet, Leaving
<1>. HIDE DEF Good
<1>4. Spec /\ [][Good]_vars => []SafeModeHasHalt
  BY <1>1, <1>2, <1>3, IInvariant, PTL DEF Spec
<1>. QED  BY <1>4 DEF Good
-----------------------------------------------------------------------------
(* The watchdog over the Andon Cord *)

USE WatchdogAssumption

\* Whatever the watchdog does to the Andon Cord, it does as a caller of Halt and
\* of Resolve.
LEMMA WNextMoves == [WNext]_allVars => [Move]_vars
<1>1. ASSUME NEW id \in Ids, WatchdogHalt(id) PROVE Store(W)
  <2>1. "watchdog" \in Sources
    BY DEF Sources
  <2>2. HaltCreate(W, id, Global, TRUE, "watchdog", WatchdogLevel, FALSE)
    BY <1>1 DEF WatchdogHalt
  <2>. QED  BY <2>1, <2>2 DEF Store
<1>2. ASSUME NEW id \in Ids, ResolveNext(id) PROVE Resolve(W)
  BY <1>2 DEF ResolveNext, Resolve
<1>3. ASSUME Watch PROVE Store(W) \/ Resolve(W) \/ UNCHANGED vars
  BY <1>1, <1>2, <1>3 DEF Watch, TriggerHalt, TriggerDuplicate, TriggerReturns, Recover,
     HealStale, ResolveFails, RecoverReturns
<1>4. ASSUME Serve PROVE [Next]_vars
  BY <1>4 DEF Next
<1>5. ASSUME Serve PROVE [Move]_vars
  BY <1>4, <1>5, NextMoves
<1>. QED
  BY <1>3, <1>5 DEF WNext, Move, Beat, Stall, Stop, allVars

\* The inductive invariant of the Andon Cord holds with the watchdog in it.
LEMMA WatchedInvariant == WSpec => []IInv
<1>1. WInit => IInv
  BY IInvInit DEF WInit
<1>2. IInv /\ [WNext]_allVars => IInv'
  BY WNextMoves, IInvStep
<1>. QED  BY <1>1, <1>2, PTL DEF WSpec

\* With the watchdog halting and resolving on its own account, Safe Mode is
\* still only blamed on stored halts of the very scope.
THEOREM WatchedSafeModeBlamesHalts == WSpec => []EngagedAreHalts
<1>1. IInv => EngagedAreHalts
  BY DEF IInv
<1>. QED  BY <1>1, WatchedInvariant, PTL

\* With the watchdog the table still keeps the promise of the ledger.
THEOREM WatchedTableImplementsLedger == WSpec => ImplementsLedger
<1>1. WInit => Ledger!Init
  BY DEF WInit, Init, Unused, Ledger!Init, Ledger!Blank
<1>2. IInv /\ [WNext]_allVars => [Ledger!Next]_Entries
  BY WNextMoves, LedgerStep
<1>. QED
  BY <1>1, <1>2, WatchedInvariant, PTL DEF WSpec, ImplementsLedger, Ledger!Spec, Entries

\* A halt of the watchdog, of this run or of an earlier one.
Own(id) == ij[id].status # "none" /\ ij[id].source = "watchdog" /\ ij[id].scope = Global

\* What the watchdog's goroutine holds is its own: the interjections it has
\* still to resolve, and the row of the call that is under way.
WatchInv ==
    /\ WTypeOK
    /\ pc[W] \in {"idle", "engage", "store", "check", "disengage"}
    /\ \A id \in wlist : Own(id)
    /\ pc[W] \in {"engage", "store"} => Own(call[W].id)

\* The watchdog starts with nothing to resolve.
LEMMA WatchInit == WInit => WatchInv
<1>. SUFFICES ASSUME WInit PROVE WatchInv
  OBVIOUS
<1>1. W \in Procs /\ pc[W] = "idle"
  BY DEF WInit, Init
<1>2. WTypeOK
  <2>1. beat = "none" /\ wpc = "idle" /\ wlist = {} /\ stalls \in 0..MaxStalls
    BY DEF WInit
  <2>2. triggered \in BOOLEAN /\ healed \in BOOLEAN
    BY DEF WInit
  <2>. QED  BY <2>1, <2>2 DEF WTypeOK, WSteps
<1>3. wlist = {}
  BY DEF WInit
<1>. QED  BY <1>1, <1>2, <1>3 DEF WatchInv

\* A row of the watchdog stays one.
LEMMA OwnStable ==
    ASSUME IInv, [WNext]_allVars, NEW id \in Ids, Own(id)
    PROVE  Own(id)'
BY WNextMoves, RowsStable DEF Own

\* Every step keeps WatchInv: recover and healStaleInterjections read only the
\* watchdog's own halts, and rows do not change their source afterwards.
LEMMA WatchStep == IInv /\ WatchInv /\ [WNext]_allVars => WatchInv'
<1>. SUFFICES ASSUME IInv, WatchInv, [WNext]_allVars PROVE WatchInv'
  OBVIOUS
<1>0. W \in Procs /\ call \in [Procs -> Locals] /\ pc \in [Procs -> Steps] /\ wlist \subseteq Ids
  BY DEF IInv, TypeOK, WatchInv, WTypeOK
<1>1. pc[W] \in {"engage", "store"} => call[W].id \in Ids
  BY <1>0 DEF IInv, CallInv, RequestInv, Busy
<1>2. ASSUME pc'[W] = pc[W], call'[W] = call[W], wlist' \subseteq wlist, WTypeOK'
      PROVE  WatchInv'
  BY <1>0, <1>1, <1>2, OwnStable DEF WatchInv
<1>3. ASSUME Serve, UNCHANGED wvars PROVE WatchInv'
  <2>1. WTypeOK'
    BY <1>3 DEF WatchInv, WTypeOK, wvars
  <2>2. wlist' \subseteq wlist
    BY <1>3 DEF wvars
  <2>3. ASSUME NEW p \in Haltors, Halt(p) PROVE WatchInv'
    <3>1. pc'[W] = pc[W] /\ call'[W] = call[W]
      BY <2>3, <1>0 DEF Halt, HaltCreate, Goto
    <3>. QED  BY <3>1, <2>1, <2>2, <1>2
  <2>4. ASSUME NEW p \in Resolvers, Resolve(p) PROVE WatchInv'
    <3>1. pc'[W] = pc[W] /\ call'[W] = call[W]
      BY <2>4, <1>0 DEF Resolve, ResolveRead, Goto
    <3>. QED  BY <3>1, <2>1, <2>2, <1>2
  <2>5. ASSUME NEW p \in Maint, ExpireBegin(p) PROVE WatchInv'
    <3>1. pc'[W] = pc[W] /\ call'[W] = call[W]
      BY <2>5, <1>0 DEF ExpireBegin, Goto
    <3>. QED  BY <3>1, <2>1, <2>2, <1>2
  <2>6. ASSUME NEW p \in Procs, p # W, Continue(p) PROVE WatchInv'
    <3>1. pc'[W] = pc[W] /\ call'[W] = call[W]
      BY <2>6, <1>0 DEF Continue, HaltEngage, CascadeCreate, CascadeSkip, CascadeEngage,
         CascadeDone, ResolveStore, ResolveRejected, KeepSafeMode, ScopeIsClear, Disengage,
         ExpireRow, ExpireSkip, ExpireDone, Resume, Return, Goto
    <3>. QED  BY <3>1, <2>1, <2>2, <1>2
  <2>7. ASSUME Continue(W) PROVE WatchInv'
    <3>1. pc[W] \notin {"cascade", "engageKid", "expire", "expireCheck", "expireDisengage"}
      BY DEF WatchInv
    <3>2. CASE HaltEngage(W)
      <4>1. ij[call[W].id].scope = Global
        BY <3>2 DEF HaltEngage, WatchInv, Own
      <4>2. pc'[W] = "idle"
        BY <4>1, <3>2, <1>0 DEF HaltEngage, Return, Goto
      <4>. QED  BY <4>2, <2>1, <2>2, <1>0, OwnStable DEF WatchInv
    <3>3. CASE ResolveStore(W) \/ ResolveRejected(W) \/ KeepSafeMode(W) \/ ScopeIsClear(W)
               \/ Disengage(W)
      <4>1. pc'[W] \in {"idle", "check", "disengage"}
        BY <3>1, <3>3, <1>0 DEF ResolveStore, ResolveRejected, KeepSafeMode, ScopeIsClear,
           Disengage, Resume, Return, Goto
      <4>. QED  BY <4>1, <2>1, <2>2, <1>0, OwnStable DEF WatchInv
    <3>. QED
      BY <2>7, <3>1, <3>2, <3>3 DEF Continue, CascadeCreate, CascadeSkip, CascadeEngage,
         CascadeDone, ExpireRow, ExpireSkip, ExpireDone
  <2>8. ASSUME pc' = pc, call' = call PROVE WatchInv'
    BY <2>8, <2>1, <2>2, <1>2
  <2>. QED
    BY <1>3, <2>3, <2>4, <2>5, <2>6, <2>7, <2>8 DEF Serve, TTLPasses, Restart
<1>4. ASSUME NEW id \in Ids, WatchdogHalt(id) PROVE WatchInv'
  <2>1. /\ pc'[W] = "engage" /\ call'[W] = Call(id, Unchecked)
        /\ ij'[id] = NewRow(Global, TRUE, "watchdog", WatchdogLevel, FALSE, NoId)
    BY <1>4, <1>0 DEF WatchdogHalt, HaltCreate, Goto, IInv, TypeOK
  <2>2. Own(id)' /\ call'[W].id = id
    BY <2>1 DEF Own, NewRow, Call
  <2>3. WTypeOK' /\ wlist' = wlist
    BY <1>4 DEF WatchdogHalt, WatchInv, WTypeOK, WSteps
  <2>. QED  BY <2>1, <2>2, <2>3, <1>0, OwnStable DEF WatchInv
<1>5. ASSUME NEW id \in Ids, ResolveNext(id) PROVE WatchInv'
  <2>1. pc'[W] = "store" /\ call'[W] = Call(id, Unchecked) /\ Own(id)
    BY <1>5, <1>0 DEF ResolveNext, ResolveRead, Goto, WatchInv
  <2>2. Own(id)' /\ call'[W].id = id
    BY <2>1, OwnStable DEF Call
  <2>3. WTypeOK' /\ wlist' \subseteq wlist
    BY <1>5 DEF ResolveNext, WatchInv, WTypeOK, WSteps
  <2>. QED  BY <2>1, <2>2, <2>3, <1>0, OwnStable DEF WatchInv
<1>6. ASSUME Recover \/ HealStale PROVE WatchInv'
  <2>1. wlist' \subseteq WatchdogHalts /\ pc' = pc /\ call' = call /\ pc[W] = "idle"
    BY <1>6 DEF Recover, HealStale, Check, Waiting, vars
  <2>2. \A id \in WatchdogHalts : id \in Ids /\ Own(id)
    BY DEF WatchdogHalts, Active, Own
  <2>3. WTypeOK'
    BY <1>6, <2>1, <2>2 DEF Recover, HealStale, WatchInv, WTypeOK, WSteps
  <2>. QED  BY <2>1, <2>2, <2>3, OwnStable DEF WatchInv
<1>7. ASSUME TriggerHalt \/ TriggerDuplicate \/ TriggerReturns \/ RecoverReturns
             \/ (\E id \in Ids : ResolveFails(id))
      PROVE  WatchInv'
  <2>1. pc' = pc /\ call' = call /\ wlist' \subseteq wlist
    BY <1>7 DEF TriggerHalt, TriggerDuplicate, TriggerReturns, RecoverReturns, ResolveFails, vars
  <2>2. WTypeOK'
    BY <1>7 DEF TriggerHalt, TriggerDuplicate, TriggerReturns, RecoverReturns, ResolveFails,
       Check, WatchInv, WTypeOK, WSteps
  <2>. QED  BY <2>1, <2>2, <1>2
<1>8. ASSUME Beat \/ Stall \/ UNCHANGED allVars PROVE WatchInv'
  <2>1. pc' = pc /\ call' = call /\ wlist' = wlist
    BY <1>8 DEF Beat, Stall, allVars, vars, wvars
  <2>2. WTypeOK'
    BY <1>8 DEF Beat, Stall, allVars, wvars, WatchInv, WTypeOK
  <2>. QED  BY <2>1, <2>2, <1>2
<1>9. ASSUME Stop PROVE WatchInv'
  BY <1>9, <1>0 DEF Stop, Crash, WatchInv, WTypeOK, WSteps
<1>. QED
  BY <1>3, <1>4, <1>5, <1>6, <1>7, <1>8, <1>9 DEF WNext, Watch

\* WatchInv is an invariant of the watchdog over the Andon Cord.
LEMMA WatchInvariant == WSpec => [](IInv /\ WatchInv)
<1>1. WInit => WatchInv
  BY WatchInit
<1>2. IInv /\ WatchInv /\ [WNext]_allVars => WatchInv'
  BY WatchStep
<1>. QED  BY <1>1, <1>2, WatchedInvariant, PTL DEF WSpec

\* The watchdog's own variables keep their shape, and it has interjections left
\* to resolve only inside its loops.
THEOREM WatchdogTypeCorrect == WSpec => []WTypeOK
<1>1. WatchInv => WTypeOK
  BY DEF WatchInv
<1>. QED  BY <1>1, WatchInvariant, PTL

\* Auto-healing never ends somebody else's interjection: what the watchdog
\* resolves was a halt of its own when the loop read it, and rows keep their
\* source, whoever resolves, expires or stores in between.
THEOREM WatchdogLeavesOthersAlone == WSpec => LeavesOthersAlone
<1>. DEFINE Kept == \A id \in Ids :
          pc[W] = "store" /\ ij[id].status = "active" /\ ij[id].source # "watchdog" =>
              ij'[id].status = "active" \/ pc'[W] = "store"
<1>1. ASSUME IInv, WatchInv, [WNext]_allVars PROVE Kept
  <2>. SUFFICES ASSUME NEW id \in Ids, pc[W] = "store", pc'[W] # "store",
                       ij[id].status = "active", ij[id].source # "watchdog"
                PROVE  ij'[id].status = "active"
    OBVIOUS
  <2>0. /\ W \in Procs /\ pc \in [Procs -> Steps] /\ ij \in [Ids -> Row]
        /\ call[W].id \in Ids /\ call[W].id # id
    BY <1>1 DEF IInv, TypeOK, CallInv, RequestInv, Busy, WatchInv, Own
  <2>1. ASSUME Continue(W) PROVE ij'[id] = ij[id]
    <3>1. CASE ResolveStore(W)
      BY <3>1, <2>0 DEF ResolveStore
    <3>2. CASE ResolveRejected(W)
      BY <3>2 DEF ResolveRejected
    <3>. QED
      BY <2>1, <3>1, <3>2 DEF Continue, HaltEngage, CascadeCreate, CascadeSkip, CascadeEngage,
         CascadeDone, KeepSafeMode, ScopeIsClear, Disengage, ExpireRow, ExpireSkip, ExpireDone
  <2>2. ASSUME Stop PROVE ij'[id] = ij[id]
    BY <2>2 DEF Stop, Crash
  <2>3. ASSUME NEW p \in Procs, p # W, Continue(p) PROVE FALSE
    BY <2>0, <2>3 DEF Continue, HaltEngage, CascadeCreate, CascadeSkip, CascadeEngage,
       CascadeDone, ResolveStore, ResolveRejected, KeepSafeMode, ScopeIsClear, Disengage,
       ExpireRow, ExpireSkip, ExpireDone, Resume, Return, Goto
  <2>4. ASSUME NEW p \in Procs, p # W, Halt(p) \/ Resolve(p) \/ ExpireBegin(p) PROVE FALSE
    BY <2>0, <2>4 DEF Halt, HaltCreate, Resolve, ResolveRead, ExpireBegin, Goto
  <2>5. ASSUME Serve PROVE ij'[id] = ij[id]
    <3>1. CASE (\E k \in Ids : TTLPasses(k)) \/ Restart
      BY <3>1 DEF TTLPasses, Restart
    <3>. QED  BY <2>5, <3>1, <2>1, <2>3, <2>4 DEF Serve
  <2>6. ~Watch
    BY DEF Watch, TriggerHalt, TriggerDuplicate, TriggerReturns, Recover, HealStale,
       ResolveFails, ResolveNext, ResolveRead, RecoverReturns, WatchdogHalt, HaltCreate,
       Check, Waiting
  <2>7. ASSUME Beat \/ Stall \/ UNCHANGED allVars PROVE ij'[id] = ij[id]
    BY <2>7 DEF Beat, Stall, allVars, vars
  <2>. QED  BY <1>1, <2>2, <2>5, <2>6, <2>7 DEF WNext
<1>. HIDE DEF Kept
<1>2. IInv /\ WatchInv /\ [WNext]_allVars => [Kept]_allVars
  BY <1>1
<1>3. WSpec => [][Kept]_allVars
  BY <1>2, WatchInvariant, PTL DEF WSpec
<1>. QED  BY <1>3 DEF Kept, LeavesOthersAlone
-----------------------------------------------------------------------------
(* At most one halt of the watchdog *)

\* While trigger is about to halt there is no halt of the watchdog, and there is
\* never more than one.
OneInv ==
    /\ wpc = "halt" => WatchdogHalts = {}
    /\ \A a, b \in WatchdogHalts : a = b

\* Nobody but the watchdog adds to its halts.
LEMMA HaltsOnlyEnd ==
    ASSUME IInv, Serve \/ Crash \/ UNCHANGED ij \/ (\E id \in Ids : ResolveRead(W, id, Unchecked))
    PROVE  WatchdogHalts' \subseteq WatchdogHalts
<1>. USE DEF IInv, TypeOK
<1>0. ASSUME \A id \in Ids : \/ ij'[id].status # "active" \/ ij'[id].source # "watchdog"
                             \/ ij'[id] = ij[id]
      PROVE  WatchdogHalts' \subseteq WatchdogHalts
  BY <1>0 DEF WatchdogHalts, Active
<1>1. ASSUME NEW p \in Procs, Halt(p) PROVE WatchdogHalts' \subseteq WatchdogHalts
  <2>1. PICK id \in Ids, s \in Scopes, halting \in BOOLEAN, expires \in BOOLEAN, level \in Levels :
            ij' = [ij EXCEPT ![id] = NewRow(s, halting, "user", level, expires, NoId)]
    BY <1>1 DEF Halt, HaltCreate
  <2>2. ij'[id].source = "user"
    BY <2>1 DEF NewRow
  <2>. QED  BY <1>0, <2>1, <2>2
<1>2. ASSUME NEW p \in Procs, NEW id \in Ids, CascadeCreate(p, id)
      PROVE  WatchdogHalts' \subseteq WatchdogHalts
  <2>1. ij'[id].source = "cascade" /\ \A k \in Ids : k # id => ij'[k] = ij[k]
    BY <1>2 DEF CascadeCreate, NewRow
  <2>. QED  BY <1>0, <2>1
<1>3. ASSUME NEW p \in Procs, ResolveStore(p) PROVE WatchdogHalts' \subseteq WatchdogHalts
  <2>1. call[p].id \in Ids /\ ij[call[p].id] \in Row
    BY <1>3 DEF ResolveStore, CallInv, RequestInv, Busy
  <2>2. /\ ij'[call[p].id].status = "resolved"
        /\ \A k \in Ids : k # call[p].id => ij'[k] = ij[k]
    BY <1>3, <2>1 DEF ResolveStore, Row
  <2>. QED  BY <1>0, <2>2
<1>4. ASSUME NEW p \in Procs, NEW id \in Ids, ExpireRow(p, id)
      PROVE  WatchdogHalts' \subseteq WatchdogHalts
  <2>1. \A k \in Ids : ij'[k].status # "active" \/ ij'[k] = ij[k]
    BY <1>4 DEF ExpireRow, Row
  <2>. QED  BY <1>0, <2>1
<1>5. CASE UNCHANGED ij
  BY <1>0, <1>5
<1>6. CASE Serve
  BY <1>6, <1>1, <1>2, <1>3, <1>4, <1>5 DEF Serve, Resolve, ResolveRead, ExpireBegin, Continue,
     HaltEngage, CascadeSkip, CascadeEngage, CascadeDone, ResolveRejected, KeepSafeMode,
     ScopeIsClear, Disengage, ExpireSkip, ExpireDone, TTLPasses, Restart
<1>. QED  BY <1>5, <1>6 DEF Crash, ResolveRead

\* When the database answers, every step keeps OneInv: trigger halts only after
\* it found no halt of an earlier run, and nobody halts in its name meanwhile.
LEMMA OneStep ==
    ASSUME ~CanFail
    PROVE  IInv /\ OneInv /\ [WNext]_allVars => OneInv'
<1>. SUFFICES ASSUME IInv, OneInv, [WNext]_allVars PROVE OneInv'
  OBVIOUS
<1>1. ASSUME WatchdogHalts' \subseteq WatchdogHalts, wpc' = "halt" => wpc = "halt"
      PROVE  OneInv'
  BY <1>1 DEF OneInv
<1>2. CASE TriggerHalt
  <2>1. WatchdogHalts = {} /\ ij' = ij
    BY <1>2 DEF TriggerHalt, vars
  <2>2. WatchdogHalts' = {}
    BY <2>1 DEF WatchdogHalts, Active
  <2>. QED  BY <2>2 DEF OneInv
<1>3. ASSUME NEW id \in Ids, WatchdogHalt(id) PROVE OneInv'
  <2>1. WatchdogHalts = {} /\ wpc' = "halting"
    BY <1>3 DEF WatchdogHalt, OneInv
  <2>2. \A k \in Ids : k # id => ij'[k] = ij[k]
    BY <1>3 DEF WatchdogHalt, HaltCreate, IInv, TypeOK
  <2>3. WatchdogHalts' \subseteq {id}
    BY <2>1, <2>2 DEF WatchdogHalts, Active
  <2>. QED  BY <2>1, <2>3 DEF OneInv
<1>4. ASSUME Serve, UNCHANGED wvars PROVE OneInv'
  BY <1>4, <1>1, HaltsOnlyEnd DEF wvars
<1>5. ASSUME NEW id \in Ids, ResolveNext(id) PROVE OneInv'
  BY <1>5, <1>1, HaltsOnlyEnd DEF ResolveNext
<1>6. CASE Stop
  BY <1>6, <1>1, HaltsOnlyEnd DEF Stop
<1>7. ASSUME TriggerDuplicate \/ TriggerReturns \/ Recover \/ HealStale \/ RecoverReturns
             \/ (\E id \in Ids : ResolveFails(id)) \/ Beat \/ Stall \/ UNCHANGED allVars
      PROVE  OneInv'
  <2>1. ij' = ij /\ (wpc' = "halt" => wpc = "halt")
    BY <1>7 DEF TriggerDuplicate, TriggerReturns, Recover, HealStale, RecoverReturns,
       ResolveFails, Beat, Stall, allVars, vars, wvars
  <2>. QED  BY <2>1, <1>1, HaltsOnlyEnd
<1>. QED
  BY <1>2, <1>3, <1>4, <1>5, <1>6, <1>7 DEF WNext, Watch

\* When the database answers, at most one halt of the watchdog is active at a
\* time, across crashes of the engine and of the server (trigger's
\* deduplication against the halts of earlier runs).
THEOREM WatchdogHaltsOnce ==
    ASSUME ~CanFail
    PROVE  WSpec => []OneWatchdogHalt
<1>1. WInit => OneInv
  BY DEF WInit, Init, OneInv, WatchdogHalts, Active, Unused
<1>2. IInv /\ OneInv /\ [WNext]_allVars => OneInv'
  BY OneStep
<1>3. OneInv => OneWatchdogHalt
  <2>. SUFFICES ASSUME OneInv PROVE Cardinality(WatchdogHalts) <= 1
    BY DEF OneWatchdogHalt
  <2>1. CASE WatchdogHalts = {}
    BY <2>1, FS_EmptySet
  <2>2. ASSUME NEW id \in WatchdogHalts PROVE Cardinality(WatchdogHalts) <= 1
    <3>1. WatchdogHalts = {id}
      BY <2>2 DEF OneInv
    <3>2. Cardinality({id}) = 1
      BY FS_Singleton
    <3>. QED  BY <3>1, <3>2
  <2>. QED  BY <2>1, <2>2
<1>. QED  BY <1>1, <1>2, <1>3, WatchedInvariant, PTL DEF WSpec
-----------------------------------------------------------------------------
(* A walk misses nobody *)

\* A non-empty set of natural numbers has a least element.
LEMMA LeastOf ==
    ASSUME NEW T \in SUBSET Nat, T # {}
    PROVE  \E x \in T : \A y \in T : x <= y
<1>1. IsWellFoundedOn({ss \in Nat \X Nat : ss[1] < ss[2]}, Nat)
  BY NatLessThanWellFounded DEF OpToRel
<1>2. PICK x \in T : \A y \in T : ~(<<y, x>> \in {ss \in Nat \X Nat : ss[1] < ss[2]})
  BY <1>1, WFMin
<1>3. ASSUME NEW y \in T PROVE x <= y
  <2>1. ~(y < x)
    BY <1>2
  <2>. QED  BY <2>1
<1>. QED  BY <1>3

\* What is true of 0, and of a number when it is of the one before, is true of all.
LEMMA UpTo ==
    ASSUME NEW n \in Nat, NEW T, 0 \in T, \A i \in 0 .. n - 1 : i \in T => i + 1 \in T
    PROVE  0 .. n \subseteq T
<1>. DEFINE Rest == (0 .. n) \ T
<1>. SUFFICES ASSUME Rest # {} PROVE FALSE
  OBVIOUS
<1>1. PICK x \in Rest : \A y \in Rest : x <= y
  <2>1. Rest \in SUBSET Nat
    OBVIOUS
  <2>. HIDE DEF Rest
  <2>. QED  BY <2>1, LeastOf
<1>2. x # 0 /\ x - 1 \in 0 .. n - 1 /\ x - 1 \notin Rest
  BY <1>1
<1>. QED  BY <1>2

\* The agents directly below those of a set.
Kids(A) == UNION {{Children[b][k] : k \in DOMAIN Children[b]} : b \in A}

\* The agents at each of the first n levels below s.
Floors(s, n, level) ==
    level = [i \in 0 .. n |->
                IF i = 0 THEN {s}
                ELSE UNION {{Children[b][k] : k \in DOMAIN Children[b]} : b \in level[i - 1]}]

\* Every hierarchy has its levels, a cyclic one too.
LEMMA FloorsExist ==
    ASSUME NEW s, NEW n \in Nat
    PROVE  \E level : Floors(s, n, level)
<1>. DEFINE T == {m \in Nat : \E level : Floors(s, m, level)}
<1>1. 0 \in T
  <2>. DEFINE r == [i \in 0 .. 0 |-> {s}]
  <2>1. Floors(s, 0, r)
    BY DEF Floors
  <2>. HIDE DEF r
  <2>. QED  BY <2>1
<1>2. ASSUME NEW m \in 0 .. n - 1, m \in T PROVE m + 1 \in T
  <2>1. PICK g : Floors(s, m, g)
    BY <1>2
  <2>. DEFINE h == [i \in 0 .. m + 1 |-> IF i = m + 1 THEN Kids(g[m]) ELSE g[i]]
  <2>2. \A i \in 0 .. m : g[i] = IF i = 0 THEN {s} ELSE Kids(g[i - 1])
    BY <2>1 DEF Floors, Kids
  <2>3. ASSUME NEW i \in 0 .. m + 1
        PROVE  h[i] = IF i = 0 THEN {s} ELSE Kids(h[i - 1])
    <3>1. CASE i = m + 1
      <4>1. h[i - 1] = g[m] /\ i # 0 /\ h[i] = Kids(g[m])
        BY <3>1
      <4>. QED  BY <4>1
    <3>2. CASE i \in 0 .. m
      <4>1. h[i] = g[i] /\ (i # 0 => h[i - 1] = g[i - 1])
        BY <3>2
      <4>. QED  BY <2>2, <3>2, <4>1
    <3>. QED  BY <3>1, <3>2
  <2>4. Floors(s, m + 1, h)
    <3>1. h = [i \in 0 .. m + 1 |-> h[i]]
      OBVIOUS
    <3>. HIDE DEF h
    <3>. QED  BY <2>3, <3>1, Zenon DEF Floors, Kids
  <2>. HIDE DEF h
  <2>. QED  BY <2>4
<1>. HIDE DEF T
<1>3. 0 .. n \subseteq T
  BY <1>1, <1>2, UpTo
<1>4. n \in T
  BY <1>3
<1>. QED  BY <1>4 DEF T

\* A line of command of n agents under s, each below the one before.
Line(f, n, s) ==
    /\ f \in [0 .. n -> Scopes]
    /\ f[0] = s
    /\ \A i \in 0 .. n - 1 : \E k \in DOMAIN Children[f[i]] : f[i + 1] = Children[f[i]][k]

\* An agent counts as below another when a line of at most MaxDepth leads there.
LEMMA BelowLines ==
    ASSUME NEW s \in Scopes, NEW b \in Below(s)
    PROVE  \E n \in 1 .. MaxDepth : \E f : Line(f, n, s) /\ f[n] = b
<1>1. \E level : Floors(s, MaxDepth, level)
  BY FloorsExist
<1>. DEFINE level == CHOOSE g : Floors(s, MaxDepth, g)
<1>2. Floors(s, MaxDepth, level)
  BY <1>1, Zenon
<1>3. Below(s) = UNION {level[n] : n \in 1 .. MaxDepth}
  BY Zenon DEF Below, Floors
<1>. HIDE DEF level
<1>4. \A i \in 0 .. MaxDepth : level[i] = IF i = 0 THEN {s} ELSE Kids(level[i - 1])
  BY <1>2 DEF Floors, Kids
<1>. DEFINE T == {n \in 0 .. MaxDepth : \A c \in level[n] : \E f : Line(f, n, s) /\ f[n] = c}
<1>5. 0 \in T
  <2>1. level[0] = {s}
    BY <1>4
  <2>. DEFINE f == [i \in 0 .. 0 |-> s]
  <2>2. Line(f, 0, s) /\ f[0] = s
    BY DEF Line
  <2>. QED  BY <2>1, <2>2
<1>6. ASSUME NEW n \in 0 .. MaxDepth - 1, n \in T PROVE n + 1 \in T
  <2>1. ASSUME NEW c \in level[n + 1] PROVE \E f : Line(f, n + 1, s) /\ f[n + 1] = c
    <3>1. level[n + 1] = Kids(level[n])
      <4>1. n + 1 \in 0 .. MaxDepth /\ n + 1 # 0 /\ (n + 1) - 1 = n
        OBVIOUS
      <4>. QED  BY <1>4, <4>1
    <3>2. PICK d \in level[n] : \E k \in DOMAIN Children[d] : c = Children[d][k]
      BY <3>1 DEF Kids
    <3>3. PICK k \in DOMAIN Children[d] : c = Children[d][k]
      BY <3>2
    <3>4. PICK f : Line(f, n, s) /\ f[n] = d
      BY <1>6
    <3>5. f \in [0 .. n -> Scopes] /\ d \in Scopes
      BY <3>4 DEF Line
    <3>6. c \in Scopes
      <4>1. Children[d] \in Seq(Scopes)
        BY <3>5
      <4>. QED  BY <3>3, <4>1, ElementOfSeq, LenProperties
    <3>. DEFINE g == [i \in 0 .. n + 1 |-> IF i = n + 1 THEN c ELSE f[i]]
    <3>7. g \in [0 .. n + 1 -> Scopes]
      BY <3>5, <3>6
    <3>8. g[n + 1] = c /\ g[n] = d /\ g[0] = f[0] /\ \A i \in 0 .. n : g[i] = f[i]
      BY <3>4
    <3>. HIDE DEF g
    <3>9. ASSUME NEW i \in 0 .. n
          PROVE  \E j \in DOMAIN Children[g[i]] : g[i + 1] = Children[g[i]][j]
      <4>1. CASE i = n
        BY <3>3, <3>8, <4>1
      <4>2. CASE i \in 0 .. n - 1
        <5>1. \E j \in DOMAIN Children[f[i]] : f[i + 1] = Children[f[i]][j]
          BY <3>4, <4>2 DEF Line
        <5>2. i \in 0 .. n /\ i + 1 \in 0 .. n
          BY <4>2
        <5>3. g[i] = f[i] /\ g[i + 1] = f[i + 1]
          BY <3>8, <5>2
        <5>. QED  BY <5>1, <5>3
      <4>. QED  BY <4>1, <4>2
    <3>10. Line(g, n + 1, s)
      <4>1. g[0] = s
        BY <3>4, <3>8 DEF Line
      <4>2. (n + 1) - 1 = n
        OBVIOUS
      <4>. QED  BY <3>7, <3>9, <4>1, <4>2 DEF Line
    <3>. QED  BY <3>8, <3>10
  <2>. QED  BY <2>1
<1>. HIDE DEF T
<1>7. 0 .. MaxDepth \subseteq T
  BY <1>5, <1>6, UpTo
<1>. QED  BY <1>3, <1>7 DEF T

\* The agent has an interjection in the name of the halt that is cascaded.
Named(p, b) == \E kid \in Ids : ij[kid].root = call[p].id /\ ij[kid].scope = b

\* The walk has still to halt agent b, m levels down, or has just stored its
\* interjection and not yet gone below it.
Ahead(p, b, m) ==
    \/ \E k \in 1 .. Len(todo[p]) : todo[p][k] = [agent |-> b, depth |-> m - 1]
    \/ pc[p] = "engageKid" /\ ij[call[p].kid].scope = b /\ call[p].depth = m - 1

\* On every line of command of at most MaxDepth agents the walk has still
\* somebody to halt, or the last one is halted.
WalkInv(p) ==
    pc[p] \in {"cascade", "engageKid"} =>
        \A n \in 1 .. MaxDepth :
            \A f \in [0 .. n -> Scopes] :
                Line(f, n, ij[call[p].id].scope) =>
                    \/ Named(p, f[n])
                    \/ \E m \in 1 .. n : Ahead(p, f[m], m)

\* The kid of a walk names its halt, and an id that is not in use names none.
KidInv(p) == pc[p] = "engageKid" => ij[call[p].kid].root = call[p].id
RootInv == \A id \in Ids : ij[id].status = "none" => ij[id].root = NoId

CoverInv == RootInv /\ \A p \in Procs : KidInv(p) /\ WalkInv(p)

\* What a walk has put on its list for the agents below s.
LEMMA FramesList ==
    ASSUME NEW s \in Scopes, NEW d \in 0 .. MaxDepth - 1, NEW k \in DOMAIN Children[s]
    PROVE  /\ k \in 1 .. Len(Frames(s, d))
           /\ Frames(s, d)[k] = [agent |-> Children[s][k], depth |-> d]
<1>1. Children[s] \in Seq(Scopes) /\ d \in Nat /\ ~(d >= MaxDepth)
  OBVIOUS
<1>. DEFINE n == Len(Children[s])
<1>2. n \in Nat /\ DOMAIN Children[s] = 1 .. n
  BY <1>1, LenProperties
<1>3. Frames(s, d) \in Seq(Frame)
  BY <1>1, DescendType DEF Descend
<1>. HIDE DEF n
<1>4. Frames(s, d) = [j \in 1 .. n |-> [agent |-> Children[s][j], depth |-> d]]
  BY <1>1, <1>2 DEF Frames
<1>5. DOMAIN Frames(s, d) = 1 .. Len(Frames(s, d)) /\ DOMAIN Frames(s, d) = 1 .. n
  BY <1>3, <1>4, LenProperties
<1>. QED  BY <1>2, <1>4, <1>5

\* The root a stored row names does not change.
LEMMA RootStable ==
    ASSUME IInv, [Move]_vars, NEW id \in Ids, ij[id].status # "none"
    PROVE  ij'[id].root = ij[id].root
<1>. USE DEF IInv, TypeOK, Row
<1>1. ASSUME NEW p \in Procs, Store(p) PROVE ij'[id] = ij[id]
  BY <1>1 DEF Store, HaltCreate, Fresh
<1>2. ASSUME NEW p \in Procs, Continue(p) PROVE ij'[id].root = ij[id].root
  <2>1. CASE \E k \in Ids : CascadeCreate(p, k)
    BY <2>1 DEF CascadeCreate, Fresh
  <2>2. CASE ResolveStore(p)
    BY <2>2 DEF ResolveStore, CallInv, RequestInv, Busy
  <2>3. CASE \E k \in Ids : ExpireRow(p, k)
    <3>1. PICK k \in Ids : ExpireRow(p, k)
      BY <2>3
    <3>. QED  BY <3>1 DEF ExpireRow
  <2>4. CASE UNCHANGED ij
    BY <2>4
  <2>. QED
    BY <1>2, <2>1, <2>2, <2>3, <2>4 DEF Continue, HaltEngage, CascadeSkip, CascadeEngage,
       CascadeDone, ResolveRejected, KeepSafeMode, ScopeIsClear, Disengage, ExpireSkip,
       ExpireDone
<1>3. CASE UNCHANGED ij
  BY <1>3
<1>. QED
  BY <1>1, <1>2, <1>3 DEF Move, Resolve, ResolveRead, ExpireBegin, TTLPasses, Crash,
     Restart, vars

\* An agent that is halted in the name of a walk stays so.
LEMMA NamedStable ==
    ASSUME IInv, RootInv, [Move]_vars, NEW q \in Procs, call[q].id \in Ids,
           call'[q].id = call[q].id, NEW b, Named(q, b)
    PROVE  Named(q, b)'
<1>1. PICK kid \in Ids : ij[kid].root = call[q].id /\ ij[kid].scope = b
  BY DEF Named
<1>2. ij[kid].status # "none"
  BY <1>1 DEF RootInv
<1>3. ij'[kid].root = ij[kid].root /\ ij'[kid].scope = ij[kid].scope
  BY <1>2, RootStable, RowsStable
<1>. QED  BY <1>1, <1>3 DEF Named

\* A step of another goroutine, or one that leaves the walk alone.
LEMMA WalkStands ==
    ASSUME IInv, CoverInv, [Move]_vars, NEW q \in Procs,
           pc'[q] = pc[q], call'[q] = call[q], todo'[q] = todo[q]
    PROVE  KidInv(q)' /\ WalkInv(q)'
<1>. SUFFICES ASSUME pc[q] \in {"cascade", "engageKid"} PROVE KidInv(q)' /\ WalkInv(q)'
  BY DEF KidInv, WalkInv
<1>1. /\ call[q].id \in Ids /\ ij[call[q].id].status # "none"
      /\ pc[q] = "engageKid" => call[q].kid \in Ids /\ ij[call[q].kid].status # "none"
  BY DEF IInv, CallInv, RequestInv, Busy
<1>2. /\ ij'[call[q].id].scope = ij[call[q].id].scope
      /\ pc[q] = "engageKid" => /\ ij'[call[q].kid].scope = ij[call[q].kid].scope
                                /\ ij'[call[q].kid].root = ij[call[q].kid].root
  BY <1>1, RowsStable, RootStable
<1>3. KidInv(q)'
  BY <1>2 DEF CoverInv, KidInv
<1>4. \A b : Named(q, b) => Named(q, b)'
  BY <1>1, NamedStable DEF CoverInv
<1>5. \A b, m : Ahead(q, b, m) => Ahead(q, b, m)'
  BY <1>2 DEF Ahead
<1>6. WalkInv(q)'
  BY <1>2, <1>4, <1>5 DEF CoverInv, WalkInv
<1>. QED  BY <1>3, <1>6

\* Every line of command begins with an agent on the list the walk begins with.
LEMMA WalkBegins ==
    ASSUME ~CanFail, IInv, CoverInv, NEW p \in Procs, HaltEngage(p)
    PROVE  KidInv(p)' /\ WalkInv(p)'
<1>. DEFINE s == ij[call[p].id].scope
<1>1. call[p].id \in Ids /\ s \in Scopes
  BY DEF HaltEngage, IInv, CallInv, RequestInv, Busy, TypeOK, Row
<1>2. CASE s = Global
  <2>1. pc'[p] = "idle"
    BY <1>2 DEF HaltEngage, Return, Goto, IInv, TypeOK
  <2>. QED  BY <2>1 DEF KidInv, WalkInv
<1>3. CASE s # Global
  <2>1. pc'[p] = "cascade" /\ call' = call /\ ij' = ij
    BY <1>3 DEF HaltEngage, Goto, IInv, TypeOK
  <2>2. todo'[p] = Frames(s, 0)
    BY <1>3 DEF HaltEngage, Descend, IInv, TypeOK
  <2>3. ASSUME NEW n \in 1 .. MaxDepth, NEW f \in [0 .. n -> Scopes], Line(f, n, s)
        PROVE  \E m \in 1 .. n : Ahead(p, f[m], m)'
    <3>1. PICK k \in DOMAIN Children[s] : f[1] = Children[s][k]
      <4>1. 0 \in 0 .. n - 1 /\ f[0] = s /\ 0 + 1 = 1
        BY <2>3 DEF Line
      <4>. QED  BY <2>3, <4>1 DEF Line
    <3>2. 0 \in 0 .. MaxDepth - 1 /\ 1 \in 1 .. n /\ 1 - 1 = 0
      OBVIOUS
    <3>3. k \in 1 .. Len(Frames(s, 0)) /\ Frames(s, 0)[k] = [agent |-> f[1], depth |-> 0]
      <4>1. /\ k \in 1 .. Len(Frames(s, 0))
            /\ Frames(s, 0)[k] = [agent |-> Children[s][k], depth |-> 0]
        <5>1. s \in Scopes
          BY <1>1
        <5>2. 0 \in 0 .. MaxDepth - 1
          BY <3>2
        <5>. HIDE DEF s
        <5>. QED  BY <5>1, <5>2, FramesList, Zenon
      <4>. QED  BY <3>1, <4>1
    <3>4. Ahead(p, f[1], 1)'
      BY <2>2, <3>2, <3>3 DEF Ahead
    <3>. QED  BY <3>2, <3>4
  <2>. QED  BY <2>1, <2>3 DEF KidInv, WalkInv
<1>. QED  BY <1>2, <1>3

\* The agent taken off the list is the kid about to be engaged; every other one
\* is still on it.
LEMMA WalkStores ==
    ASSUME IInv, CoverInv, [Move]_vars, NEW p \in Procs, NEW id \in Ids, CascadeCreate(p, id)
    PROVE  KidInv(p)' /\ WalkInv(p)'
<1>. DEFINE h == Head(todo[p])
<1>1. /\ pc[p] = "cascade" /\ pc'[p] = "engageKid"
      /\ todo[p] \in Seq(Frame) /\ todo[p] # <<>> /\ todo'[p] = Tail(todo[p])
      /\ call[p] \in Locals /\ ij[id] \in Row
  BY DEF CascadeCreate, Goto, IInv, TypeOK
<1>2. call[p].id \in Ids /\ ij[call[p].id].status # "none"
  BY <1>1 DEF IInv, CallInv, RequestInv, Busy
<1>3. call'[p].id = call[p].id /\ call'[p].kid = id /\ call'[p].depth = h.depth
  BY <1>1 DEF CascadeCreate, IInv, TypeOK, Locals
<1>4. ij'[id].root = call[p].id /\ ij'[id].scope = h.agent
  BY DEF CascadeCreate, NewRow, IInv, TypeOK
<1>5. /\ h = todo[p][1] /\ Len(todo[p]) \in Nat
      /\ Len(Tail(todo[p])) = Len(todo[p]) - 1
      /\ \A k \in 1 .. Len(todo[p]) - 1 : Tail(todo[p])[k] = todo[p][k + 1]
  BY <1>1, HeadTailProperties, LenProperties
<1>6. ij'[call[p].id].scope = ij[call[p].id].scope
  BY <1>2, RowsStable
<1>7. \A b : Named(p, b) => Named(p, b)'
  BY <1>2, <1>3, NamedStable DEF CoverInv
<1>8. ASSUME NEW b, NEW m, Ahead(p, b, m) PROVE Ahead(p, b, m)'
  <2>1. PICK k \in 1 .. Len(todo[p]) : todo[p][k] = [agent |-> b, depth |-> m - 1]
    BY <1>1, <1>8 DEF Ahead
  <2>. HIDE DEF h
  <2>2. CASE k = 1
    <3>1. h = [agent |-> b, depth |-> m - 1]
      BY <1>5, <2>1, <2>2
    <3>2. ij'[call'[p].kid].scope = b /\ call'[p].depth = m - 1
      BY <1>3, <1>4, <3>1
    <3>. QED  BY <1>1, <3>2 DEF Ahead
  <2>3. CASE k # 1
    <3>1. k - 1 \in 1 .. Len(todo[p]) - 1 /\ (k - 1) + 1 = k
      BY <1>5, <2>3
    <3>2. k - 1 \in 1 .. Len(todo'[p]) /\ todo'[p][k - 1] = [agent |-> b, depth |-> m - 1]
      BY <1>1, <1>5, <2>1, <3>1
    <3>. QED  BY <3>2 DEF Ahead
  <2>. QED  BY <2>2, <2>3
<1>9. KidInv(p)'
  BY <1>3, <1>4 DEF KidInv
<1>10. WalkInv(p)'
  BY <1>1, <1>3, <1>6, <1>7, <1>8 DEF CoverInv, WalkInv
<1>. QED  BY <1>9, <1>10

\* Below the kid the line goes on with an agent that is on the list now.
LEMMA WalkDescends ==
    ASSUME ~CanFail, IInv, CoverInv, [Move]_vars, NEW p \in Procs, CascadeEngage(p)
    PROVE  KidInv(p)' /\ WalkInv(p)'
<1>. DEFINE s == ij[call[p].kid].scope
            d == call[p].depth
            below == Frames(s, d + 1)
            root == ij[call[p].id].scope
<1>1. pc[p] = "engageKid" /\ pc'[p] = "cascade" /\ ij' = ij
  BY DEF CascadeEngage, Goto, IInv, TypeOK
<1>2. /\ call[p].kid \in Ids /\ s \in Scopes /\ call[p].id \in Ids
      /\ d \in Nat /\ todo[p] \in Seq(Frame)
  BY <1>1 DEF IInv, CallInv, RequestInv, Busy, TypeOK, Row, Locals
<1>3. call'[p].id = call[p].id
  BY DEF CascadeEngage, Call, IInv, TypeOK
<1>4. todo'[p] = below \o todo[p]
  BY DEF CascadeEngage, Descend, IInv, TypeOK
<1>5. below \in Seq(Frame)
  <2>1. d + 1 \in Nat /\ below \in Descend(s, d + 1)
    BY <1>2 DEF Descend
  <2>. HIDE DEF below, s, d
  <2>. QED  BY <1>2, <2>1, DescendType
<1>6. ij[call[p].kid].root = call[p].id
  BY <1>1 DEF CoverInv, KidInv
<1>. HIDE DEF s, d, below
<1>7. /\ Len(below) \in Nat /\ Len(todo[p]) \in Nat
      /\ Len(todo'[p]) = Len(below) + Len(todo[p])
      /\ \A k \in 1 .. Len(below) : todo'[p][k] = below[k]
      /\ \A k \in 1 .. Len(todo[p]) : todo'[p][Len(below) + k] = todo[p][k]
  <2>1. /\ Len(below \o todo[p]) = Len(below) + Len(todo[p])
        /\ \A i \in 1 .. Len(below) + Len(todo[p]) :
              (below \o todo[p])[i] = IF i <= Len(below) THEN below[i]
                                      ELSE todo[p][i - Len(below)]
    BY <1>2, <1>5, ConcatProperties
  <2>2. Len(below) \in Nat /\ Len(todo[p]) \in Nat
    BY <1>2, <1>5, LenProperties
  <2>. DEFINE l == Len(below)
              r == Len(todo[p])
              t == below \o todo[p]
  <2>. HIDE DEF l, r, t
  <2>3. l \in Nat /\ r \in Nat /\ Len(t) = l + r
        /\ \A i \in 1 .. l + r : t[i] = IF i <= l THEN below[i] ELSE todo[p][i - l]
    BY <2>1, <2>2 DEF l, r, t
  <2>4. (\A k \in 1 .. l : t[k] = below[k]) /\ \A k \in 1 .. r : t[l + k] = todo[p][k]
    <3>1. ASSUME NEW k \in 1 .. l PROVE t[k] = below[k]
      <4>1. k \in 1 .. l + r /\ k <= l
        BY <2>3
      <4>. QED  BY <2>3, <4>1
    <3>2. ASSUME NEW k \in 1 .. r PROVE t[l + k] = todo[p][k]
      <4>1. l + k \in 1 .. l + r /\ ~(l + k <= l) /\ (l + k) - l = k
        BY <2>3
      <4>2. t[l + k] = todo[p][(l + k) - l]
        BY <2>3, <4>1
      <4>. QED  BY <4>1, <4>2
    <3>. QED  BY <3>1, <3>2
  <2>. QED  BY <1>4, <2>3, <2>4 DEF l, r, t
<1>8. \A b : Named(p, b) => Named(p, b)'
  BY <1>2, <1>3, NamedStable DEF CoverInv
<1>9. ASSUME NEW n \in 1 .. MaxDepth, NEW f \in [0 .. n -> Scopes], Line(f, n, root)
      PROVE  Named(p, f[n])' \/ \E m \in 1 .. n : Ahead(p, f[m], m)'
  <2>1. CASE Named(p, f[n])
    BY <1>8, <2>1
  <2>2. ASSUME NEW m \in 1 .. n, Ahead(p, f[m], m)
        PROVE  Named(p, f[n])' \/ \E i \in 1 .. n : Ahead(p, f[i], i)'
    <3>1. CASE \E k \in 1 .. Len(todo[p]) : todo[p][k] = [agent |-> f[m], depth |-> m - 1]
      <4>1. PICK k \in 1 .. Len(todo[p]) : todo[p][k] = [agent |-> f[m], depth |-> m - 1]
        BY <3>1
      <4>2. Len(below) + k \in 1 .. Len(todo'[p])
        BY <1>7
      <4>. QED  BY <1>7, <4>1, <4>2 DEF Ahead
    <3>2. CASE s = f[m] /\ d = m - 1
      <4>1. CASE m = n
        BY <1>1, <1>2, <1>3, <1>6, <3>2, <4>1 DEF Named, s
      <4>2. CASE m # n
        <5>1. m \in 0 .. n - 1 /\ m \in 0 .. MaxDepth - 1 /\ m + 1 \in 1 .. n
              /\ (m + 1) - 1 = m /\ d + 1 = m
          BY <3>2, <4>2
        <5>2. PICK k \in DOMAIN Children[s] : f[m + 1] = Children[s][k]
          BY <1>9, <3>2, <5>1 DEF Line
        <5>3. k \in 1 .. Len(Frames(s, m))
              /\ Frames(s, m)[k] = [agent |-> Children[s][k], depth |-> m]
          <6>1. s \in Scopes
            BY <1>2
          <6>2. m \in 0 .. MaxDepth - 1
            BY <5>1
          <6>. QED  BY <6>1, <6>2, FramesList, Zenon
        <5>4. k \in 1 .. Len(below) /\ below[k] = [agent |-> f[m + 1], depth |-> m]
          BY <5>1, <5>2, <5>3 DEF below
        <5>5. k \in 1 .. Len(todo'[p]) /\ todo'[p][k] = [agent |-> f[m + 1], depth |-> m]
          <6>1. todo'[p][k] = below[k]
            BY <1>7, <5>4
          <6>2. k \in 1 .. Len(todo'[p])
            BY <1>7, <5>4
          <6>. QED  BY <5>4, <6>1, <6>2
        <5>6. Ahead(p, f[m + 1], m + 1)'
          BY <5>1, <5>5 DEF Ahead
        <5>. QED  BY <5>1, <5>6
      <4>. QED  BY <4>1, <4>2
    <3>. QED  BY <2>2, <3>1, <3>2 DEF Ahead, s, d
  <2>. QED  BY <1>1, <1>9, <2>1, <2>2 DEF CoverInv, WalkInv
<1>10. KidInv(p)'
  BY <1>1 DEF KidInv
<1>11. WalkInv(p)'
  BY <1>1, <1>3, <1>9 DEF WalkInv
<1>. QED  BY <1>10, <1>11

\* Every step keeps the walks' promises, unless the database or the resolver of
\* the children fails.
LEMMA CoverStep ==
    ASSUME ~CanFail, IInv, CoverInv, [Move]_vars
    PROVE  CoverInv'
<1>1. RootInv'
  <2>1. SUFFICES ASSUME NEW id \in Ids, ij'[id].status = "none" PROVE ij'[id].root = NoId
    BY DEF RootInv
  <2>2. ij[id].status = "none"
    BY <2>1, RowsStable
  <2>3. ij[id].root = NoId
    BY <2>2 DEF CoverInv, RootInv
  <2>6. CASE UNCHANGED ij
    BY <2>3, <2>6, Zenon
  <2>. USE DEF IInv, TypeOK, Row
  <2>4. ASSUME NEW p \in Procs, Store(p) PROVE ij'[id] = ij[id]
    BY <2>1, <2>4 DEF Store, HaltCreate, Fresh, NewRow
  <2>5. ASSUME NEW p \in Procs, Continue(p) PROVE ij'[id] = ij[id]
    <3>1. CASE \E k \in Ids : CascadeCreate(p, k)
      BY <2>1, <3>1 DEF CascadeCreate, Fresh, NewRow
    <3>2. CASE ResolveStore(p)
      BY <2>1, <3>2 DEF ResolveStore, CallInv, RequestInv, Busy
    <3>3. CASE \E k \in Ids : ExpireRow(p, k)
      <4>1. PICK k \in Ids : ExpireRow(p, k)
        BY <3>3
      <4>. QED  BY <2>1, <4>1 DEF ExpireRow
    <3>4. CASE UNCHANGED ij
      BY <3>4
    <3>. QED
      BY <2>5, <3>1, <3>2, <3>3, <3>4 DEF Continue, HaltEngage, CascadeSkip, CascadeEngage,
         CascadeDone, ResolveRejected, KeepSafeMode, ScopeIsClear, Disengage, ExpireSkip,
         ExpireDone
  <2>7. ij'[id] = ij[id] \/ UNCHANGED ij
    BY <2>4, <2>5 DEF Move, Resolve, ResolveRead, ExpireBegin, TTLPasses, Crash,
       Restart, vars
  <2>. QED  BY <2>3, <2>6, <2>7
<1>2. ASSUME NEW q \in Procs PROVE KidInv(q)' /\ WalkInv(q)'
  <2>1. CASE pc'[q] \notin {"cascade", "engageKid"}
    BY <2>1 DEF KidInv, WalkInv
  <2>2. CASE pc'[q] = pc[q] /\ call'[q] = call[q] /\ todo'[q] = todo[q]
    BY <2>2, WalkStands
  <2>3. CASE \E id \in Ids : CascadeCreate(q, id)
    BY <2>3, WalkStores
  <2>4. CASE CascadeEngage(q)
    BY <2>4, WalkDescends
  <2>5. CASE HaltEngage(q)
    BY <2>5, WalkBegins
  <2>. HIDE DEF Procs
  <2>. USE DEF IInv, TypeOK
  <2>6. ASSUME NEW p \in Procs, p # q, Store(p) \/ Resolve(p) \/ ExpireBegin(p) \/ Continue(p)
        PROVE  pc'[q] = pc[q] /\ call'[q] = call[q] /\ todo'[q] = todo[q]
    BY <2>6 DEF Store, HaltCreate, Resolve, ResolveRead, ExpireBegin, Continue, HaltEngage,
       CascadeCreate, CascadeSkip, CascadeEngage, CascadeDone, ResolveStore, ResolveRejected,
       KeepSafeMode, ScopeIsClear, Disengage, Resume, ExpireRow, ExpireSkip, ExpireDone,
       Goto, Return
  <2>7. ASSUME Store(q) \/ Resolve(q) \/ ExpireBegin(q)
        PROVE  \/ pc'[q] \notin {"cascade", "engageKid"}
               \/ pc'[q] = pc[q] /\ call'[q] = call[q] /\ todo'[q] = todo[q]
    BY <2>7 DEF Store, HaltCreate, Resolve, ResolveRead, ExpireBegin, Goto
  <2>8. ASSUME \/ CascadeDone(q) \/ ResolveStore(q) \/ ResolveRejected(q)
               \/ KeepSafeMode(q) \/ ScopeIsClear(q) \/ Disengage(q)
               \/ \E id \in Ids : ExpireRow(q, id)
               \/ \E id \in Ids : ExpireSkip(q, id)
               \/ ExpireDone(q)
        PROVE  pc'[q] \notin {"cascade", "engageKid"}
    BY <2>8 DEF CascadeDone, ResolveStore, ResolveRejected, KeepSafeMode, ScopeIsClear,
       Disengage, Resume, ExpireRow, ExpireSkip, ExpireDone, Goto, Return
  <2>9. ~CascadeSkip(q)
    BY DEF CascadeSkip
  <2>10. CASE \E id \in Ids : TTLPasses(id)
    BY <2>2, <2>10 DEF TTLPasses
  <2>11. CASE Restart \/ UNCHANGED vars
    BY <2>2, <2>11 DEF Restart, vars
  <2>12. CASE Crash
    BY <2>1, <2>12 DEF Crash
  <2>. HIDE DEF IInv, TypeOK
  <2>13. CASE Continue(q)
    BY <2>1, <2>3, <2>4, <2>5, <2>8, <2>9, <2>13 DEF Continue
  <2>14. CASE Store(q) \/ Resolve(q) \/ ExpireBegin(q)
    BY <2>1, <2>2, <2>7, <2>14
  <2>15. CASE \E p \in Procs : p # q /\ (Store(p) \/ Resolve(p) \/ ExpireBegin(p) \/ Continue(p))
    BY <2>2, <2>6, <2>15
  <2>. QED
    BY <2>10, <2>11, <2>12, <2>13, <2>14, <2>15 DEF Move
<1>. QED  BY <1>1, <1>2 DEF CoverInv

\* A walk is the only request for its halt, which is no cascaded row itself,
\* and there is none while the server is down.
Walking == {"engage", "cascade", "engageKid"}

LoneInv ==
    /\ ~up => \A p \in Procs : pc[p] = "idle"
    /\ \A p \in Procs : pc[p] \in Walking =>
          /\ ij[call[p].id].root = NoId
          /\ \A q \in Procs :
                pc[q] \in Walking /\ call[q].id = call[p].id => q = p

\* Every step keeps the walks apart: each began with a row of its own.
LEMMA LoneStep ==
    ASSUME IInv, LoneInv, [Move]_vars
    PROVE  LoneInv'
<1>. USE DEF IInv, TypeOK, Goto, Return
<1>0. \A q \in Procs : pc[q] \in Walking =>
         /\ call[q].id \in Ids /\ ij[call[q].id].status # "none"
         /\ ij'[call[q].id].root = NoId
  BY RootStable DEF LoneInv, CallInv, RequestInv, Walking, Busy
<1>1. ASSUME NEW p \in Procs, Store(p) PROVE LoneInv'
  <2>1. PICK id \in Ids, s \in Scopes, halting \in BOOLEAN, expires \in BOOLEAN,
              level \in Levels, source \in Sources :
            HaltCreate(p, id, s, halting, source, level, expires)
    BY <1>1 DEF Store
  <2>2. /\ pc[p] = "idle" /\ up' /\ ij[id].status = "none" /\ ij'[id].root = NoId
        /\ pc'[p] = "idle" \/ (pc'[p] = "engage" /\ call'[p].id = id)
        /\ \A q \in Procs : q # p => pc'[q] = pc[q] /\ call'[q] = call[q]
    BY <2>1 DEF HaltCreate, Fresh, NewRow, Call
  <2>3. \A q \in Procs : pc[q] \in Walking => q # p /\ call[q].id # id
    BY <1>0, <2>2 DEF Walking
  <2>4. \A q \in Procs : pc'[q] \in Walking =>
           \/ q = p /\ call'[q].id = id
           \/ q # p /\ pc[q] \in Walking /\ call'[q].id = call[q].id
    BY <2>2 DEF Walking
  <2>5. \A q \in Procs : pc'[q] \in Walking => ij'[call'[q].id].root = NoId
    BY <1>0, <2>2, <2>4
  <2>6. \A q, r \in Procs : pc'[q] \in Walking /\ pc'[r] \in Walking
                              /\ call'[r].id = call'[q].id => r = q
    <3>. SUFFICES ASSUME NEW q \in Procs, NEW r \in Procs, pc'[q] \in Walking,
                         pc'[r] \in Walking, call'[r].id = call'[q].id
                  PROVE  r = q
      OBVIOUS
    <3>1. CASE q = p \/ r = p
      BY <2>3, <2>4, <3>1
    <3>2. CASE q # p /\ r # p
      <4>1. pc[q] \in Walking /\ pc[r] \in Walking /\ call[r].id = call[q].id
        BY <2>4, <3>2
      <4>. QED  BY <4>1 DEF LoneInv
    <3>. QED  BY <3>1, <3>2
  <2>. QED  BY <2>2, <2>5, <2>6 DEF LoneInv
<1>2. ASSUME NEW p \in Procs, Resolve(p) \/ ExpireBegin(p) PROVE LoneInv'
  <2>1. /\ up' /\ pc'[p] \notin Walking
        /\ \A q \in Procs : q # p => pc'[q] = pc[q] /\ call'[q] = call[q]
    BY <1>2 DEF Resolve, ResolveRead, ExpireBegin, Walking
  <2>. QED  BY <1>0, <2>1 DEF LoneInv
<1>3. ASSUME NEW p \in Procs, up' = up, pc[p] # "idle",
             \A q \in Procs : q # p => pc'[q] = pc[q] /\ call'[q] = call[q],
             pc'[p] \in Walking => pc[p] \in Walking /\ call'[p].id = call[p].id
      PROVE  LoneInv'
  <2>1. up' /\ up
    BY <1>3 DEF LoneInv
  <2>2. \A q \in Procs : pc'[q] \in Walking =>
           pc[q] \in Walking /\ call'[q].id = call[q].id
    BY <1>3
  <2>3. \A q \in Procs : pc'[q] \in Walking => ij'[call'[q].id].root = NoId
    BY <1>0, <2>2
  <2>4. \A q, r \in Procs :
           pc'[q] \in Walking /\ pc'[r] \in Walking /\ call'[r].id = call'[q].id
             => r = q
    BY <2>2 DEF LoneInv
  <2>. QED  BY <2>1, <2>3, <2>4 DEF LoneInv
<1>4. ASSUME NEW p \in Procs, Continue(p) PROVE LoneInv'
  <2>1. \A q \in Procs : q # p => pc'[q] = pc[q] /\ call'[q] = call[q]
    BY <1>4 DEF Continue, HaltEngage, CascadeCreate, CascadeSkip, CascadeEngage,
       CascadeDone, ResolveStore, ResolveRejected, KeepSafeMode, ScopeIsClear,
       Disengage, ExpireRow, ExpireSkip, ExpireDone, Resume
  <2>2. up' = up /\ pc[p] # "idle"
    BY <1>4 DEF Continue, HaltEngage, CascadeCreate, CascadeSkip, CascadeEngage,
       CascadeDone, ResolveStore, ResolveRejected, KeepSafeMode, ScopeIsClear,
       Disengage, ExpireRow, ExpireSkip, ExpireDone
  <2>3. CASE HaltEngage(p) \/ CascadeEngage(p) \/ CascadeSkip(p) \/ CascadeDone(p)
    <3>1. /\ pc[p] \in Walking
          /\ pc'[p] \in Walking => call'[p].id = call[p].id
      BY <2>3 DEF HaltEngage, CascadeEngage, CascadeSkip, CascadeDone, Call, Walking
    <3>. QED  BY <1>3, <2>1, <2>2, <3>1
  <2>4. CASE \E id \in Ids : CascadeCreate(p, id)
    <3>1. pc[p] \in Walking /\ call'[p].id = call[p].id
      BY <2>4 DEF CascadeCreate, Walking, Locals
    <3>. QED  BY <1>3, <2>1, <2>2, <3>1
  <2>5. CASE pc'[p] \notin Walking
    BY <1>3, <2>1, <2>2, <2>5
  <2>6. CASE ResolveStore(p) \/ ResolveRejected(p) \/ ScopeIsClear(p) \/ ExpireDone(p)
    BY <2>5, <2>6 DEF ResolveStore, ResolveRejected, ScopeIsClear, ExpireDone, Walking
  <2>7. CASE KeepSafeMode(p) \/ Disengage(p)
    BY <2>5, <2>7 DEF KeepSafeMode, Disengage, Resume, Walking
  <2>8. CASE \E id \in Ids : ExpireRow(p, id) \/ ExpireSkip(p, id)
    BY <2>5, <2>8 DEF ExpireRow, ExpireSkip, Walking
  <2>. QED  BY <1>4, <2>3, <2>4, <2>6, <2>7, <2>8 DEF Continue
<1>5. CASE Crash
  BY <1>5 DEF Crash, LoneInv, Walking
<1>6. CASE pc' = pc /\ call' = call /\ (up' = up \/ up')
  BY <1>0, <1>6 DEF LoneInv
<1>. QED
  BY <1>1, <1>2, <1>4, <1>5, <1>6 DEF Move, Restart, TTLPasses, vars

\* Only halts are cascaded.
KidsHalt == \A id \in Ids : ij[id].root # NoId => ij[id].halting

\* Every step keeps cascaded rows halting: a walk is for a halt.
LEMMA KidsHaltStep ==
    ASSUME IInv, RootInv, KidsHalt, [Move]_vars
    PROVE  KidsHalt'
<1>. USE DEF IInv, TypeOK, Row
<1>1. SUFFICES ASSUME NEW id \in Ids, ij'[id].root # NoId PROVE ij'[id].halting
  BY DEF KidsHalt
<1>2. CASE ij[id].status # "none"
  BY <1>1, <1>2, RootStable, RowsStable DEF KidsHalt
<1>3. CASE ij[id].status = "none"
  <2>0. ij'[id] # ij[id]
    BY <1>1, <1>3 DEF RootInv
  <2>1. ASSUME NEW p \in Procs, Store(p) PROVE FALSE
    BY <1>1, <2>0, <2>1 DEF Store, HaltCreate, NewRow
  <2>2. ASSUME NEW p \in Procs, Continue(p) PROVE ij'[id].halting
    <3>1. CASE \E k \in Ids : CascadeCreate(p, k)
      <4>1. PICK k \in Ids : CascadeCreate(p, k)
        BY <3>1
      <4>2. ij[call[p].id].halting
        BY <4>1 DEF CascadeCreate, CallInv, RequestInv
      <4>. QED  BY <2>0, <4>1, <4>2 DEF CascadeCreate, NewRow
    <3>2. CASE ResolveStore(p)
      BY <1>3, <2>0, <3>2 DEF ResolveStore, CallInv, RequestInv, Busy
    <3>3. CASE \E k \in Ids : ExpireRow(p, k)
      <4>1. PICK k \in Ids : ExpireRow(p, k)
        BY <3>3
      <4>. QED  BY <1>3, <2>0, <4>1 DEF ExpireRow
    <3>4. ~UNCHANGED ij
      BY <2>0
    <3>. QED
      BY <2>2, <3>1, <3>2, <3>3, <3>4 DEF Continue, HaltEngage, CascadeSkip, CascadeEngage,
         CascadeDone, ResolveRejected, KeepSafeMode, ScopeIsClear, Disengage, ExpireSkip,
         ExpireDone
  <2>3. ~UNCHANGED ij
    BY <2>0
  <2>. QED
    BY <2>1, <2>2, <2>3 DEF Move, Resolve, ResolveRead, ExpireBegin, TTLPasses, Crash,
       Restart, vars
<1>. QED  BY <1>2, <1>3

\* When a walk is over and nothing failed, every agent at most maxCascadeDepth
\* levels below the halted one has an interjection that names the halt, and is
\* in Safe Mode in its name while it is active, however the hierarchy branches
\* or cycles and whatever other requests, expiries and restarts come in between
\* (manager.go cascadeHalt, cascadeWalk); only a Disengage on a stale check, of
\* another request, can spoil it.
THEOREM WalksCoverEveryone ==
    ASSUME ~CanFail
    PROVE  Spec /\ [][\A p \in Procs : ~StaleDisengage(p)]_vars => []CascadeCovers
<1>. DEFINE Good == \A p \in Procs : ~StaleDisengage(p)
<1>1. Init => CoverInv /\ HeldInv /\ LoneInv /\ KidsHalt
  BY HeldInit DEF Init, CoverInv, RootInv, KidInv, WalkInv, Unused, LoneInv, Walking, KidsHalt
<1>2. IInv /\ CoverInv /\ HeldInv /\ LoneInv /\ KidsHalt /\ [Next]_vars
        /\ [Good]_vars
        => CoverInv' /\ HeldInv' /\ LoneInv' /\ KidsHalt'
  <2>. SUFFICES ASSUME IInv, CoverInv, HeldInv, LoneInv, KidsHalt, [Next]_vars, [Good]_vars
                PROVE  CoverInv' /\ HeldInv' /\ LoneInv' /\ KidsHalt'
    OBVIOUS
  <2>1. [Move]_vars
    BY NextMoves
  <2>2. ~FailedRecovery
    BY DEF FailedRecovery, Restart
  <2>3. HeldInv'
    <3>1. CASE UNCHANGED vars
      BY <3>1 DEF vars, HeldInv, Pending, Halting, Active
    <3>2. CASE Good
      BY <2>1, <2>2, <3>2, HeldStep
    <3>. QED  BY <3>1, <3>2
  <2>. QED  BY <2>1, <2>3, CoverStep, LoneStep, KidsHaltStep DEF CoverInv
<1>3. IInv /\ CoverInv /\ HeldInv /\ LoneInv /\ KidsHalt => CascadeCovers
  <2>. SUFFICES ASSUME IInv, CoverInv, HeldInv, LoneInv, KidsHalt,
                       NEW p \in Procs, pc[p] = "cascade", todo[p] = <<>>,
                       NEW b \in Below(ij[call[p].id].scope)
                PROVE  \E kid \in Ids :
                          /\ ij[kid].root = call[p].id /\ ij[kid].scope = b
                          /\ ij[kid].status = "active" => kid \in safe[b]
    BY DEF CascadeCovers
  <2>1. /\ call[p].id \in Ids /\ ij[call[p].id].scope \in Scopes
        /\ ij[call[p].id].halting
    BY DEF IInv, CallInv, RequestInv, Busy, TypeOK, Row
  <2>2. PICK n \in 1 .. MaxDepth : \E f : Line(f, n, ij[call[p].id].scope) /\ f[n] = b
    BY <2>1, BelowLines
  <2>3. PICK f : Line(f, n, ij[call[p].id].scope) /\ f[n] = b
    BY <2>2
  <2>4. f \in [0 .. n -> Scopes]
    BY <2>3 DEF Line
  <2>5. \A m : ~Ahead(p, f[m], m)
    BY DEF Ahead
  <2>6. Named(p, b)
    BY <2>3, <2>4, <2>5 DEF CoverInv, WalkInv
  <2>7. PICK kid \in Ids : ij[kid].root = call[p].id /\ ij[kid].scope = b
    BY <2>6 DEF Named
  <2>8. SUFFICES ASSUME ij[kid].status = "active" PROVE kid \in safe[b]
    BY <2>7
  <2>9. kid \in Halting
    BY <2>1, <2>7, <2>8, InterjectAssumption DEF KidsHalt, Halting, Active
  <2>10. ASSUME NEW q \in Procs PROVE ~Pending(q, kid)
    BY <2>1, <2>7, InterjectAssumption DEF Pending, LoneInv, Walking, CoverInv, KidInv
  <2>11. up
    BY DEF LoneInv
  <2>. QED  BY <2>7, <2>9, <2>10, <2>11 DEF HeldInv
<1>. HIDE DEF Good
<1>4. Spec /\ [][Good]_vars => []CascadeCovers
  BY <1>1, <1>2, <1>3, IInvariant, PTL DEF Spec
<1>. QED  BY <1>4 DEF Good
=============================================================================
