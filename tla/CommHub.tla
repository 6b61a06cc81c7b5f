------------------------------ MODULE CommHub ------------------------------
(***************************************************************************)
(* The inboxes of the communication hub (internal/commhub/hub.go): Send    *)
(* finds or creates the inbox of the recipient under the lock of the hub   *)
(* and fills it under its own; a full inbox moves its oldest message to    *)
(* the overflow table, from which DrainOverflow can bring it back; Receive *)
(* takes messages out.  Sends and Receives run at any time, DrainOverflow  *)
(* one call at a time.                                                     *)
(***************************************************************************)
EXTENDS Naturals, FiniteSets, SequencesExt

CONSTANTS
    Notes,       \* messages, each the argument of one call of Send
    Recipients,  \* agents
    Addressee,   \* who each message is for
    Readers,     \* goroutines that may call Receive
    InboxSize,   \* defaultInboxCapacity
    MaxSlips     \* bound: failing statements and restarts

ASSUME CommAssumption ==
    /\ Addressee \in [Notes -> Recipients]
    /\ InboxSize \in Nat \ {0}
    /\ MaxSlips \in Nat

VARIABLES
    inboxes,   \* CommHub.inboxes: the inbox of an agent, 0 without one
    boxes,     \* the messages of every inbox ever made
    courier,   \* what the Send of a message is doing
    target,    \* the inbox it has found
    reader,    \* the inbox the Receive of a reader has found, 0 for none
    overflow,  \* commhub_overflow, rows not marked as retrieved
    drained,   \* rows the call of DrainOverflow has still to deliver
    received,  \* what the calls of Receive returned
    forfeit,   \* messages lost to a failing statement or a restart
    slips

commVars == <<inboxes, boxes, courier, target, reader, overflow, drained, received,
              forfeit, slips>>

CommInit ==
    /\ inboxes = [a \in Recipients |-> 0] /\ boxes = <<>>
    /\ courier = [n \in Notes |-> "new"] /\ target = [n \in Notes |-> 0]
    /\ reader = [r \in Readers |-> 0]
    /\ overflow = {} /\ drained = <<>> /\ received = <<>>
    /\ forfeit = {} /\ slips = 0
-----------------------------------------------------------------------------
(* Send *)

\* The sieve lets the message pass, or Send returns its error.
Sift(n) ==
    /\ courier[n] = "new"
    /\ \E passes \in BOOLEAN :
          courier' = [courier EXCEPT ![n] = IF passes THEN "sifted" ELSE "refused"]
    /\ UNCHANGED <<inboxes, boxes, target, reader, overflow, drained, received, forfeit, slips>>

\* The inbox of an agent, made if there is none, and the state of the hub then.
Opened(a) ==
    IF inboxes[a] # 0
    THEN [inboxes |-> inboxes, boxes |-> boxes, box |-> inboxes[a]]
    ELSE [inboxes |-> [inboxes EXCEPT ![a] = Len(boxes) + 1],
          boxes |-> Append(boxes, <<>>), box |-> Len(boxes) + 1]

\* Mutant of FindInbox: the inbox is looked up under one lock and made under
\* another, so that two callers may make one each.
FindInboxTwice(n) ==
    /\ courier[n] = "sifted"
    /\ \/ /\ inboxes' = Opened(Addressee[n]).inboxes /\ boxes' = Opened(Addressee[n]).boxes
          /\ target' = [target EXCEPT ![n] = Opened(Addressee[n]).box]
       \/ /\ boxes' = Append(boxes, <<>>)
          /\ inboxes' = [inboxes EXCEPT ![Addressee[n]] = Len(boxes) + 1]
          /\ target' = [target EXCEPT ![n] = Len(boxes) + 1]
    /\ courier' = [courier EXCEPT ![n] = "routed"]
    /\ UNCHANGED <<reader, overflow, drained, received, forfeit, slips>>

\* deliver, under the lock of the hub.
FindInbox(n) ==
    /\ courier[n] = "sifted"
    /\ LET o == Opened(Addressee[n]) IN
        /\ inboxes' = o.inboxes /\ boxes' = o.boxes
        /\ target' = [target EXCEPT ![n] = o.box]
    /\ courier' = [courier EXCEPT ![n] = "routed"]
    /\ UNCHANGED <<reader, overflow, drained, received, forfeit, slips>>

\* deliver, under the lock of the inbox: the oldest message makes room, and is
\* gone if it cannot be stored.
Deposit(all, b, n) ==
    LET full == Len(all[b]) >= InboxSize IN
    /\ boxes' = [all EXCEPT ![b] = Append(IF full THEN Tail(@) ELSE @, n)]
    /\ \/ /\ overflow' = IF full THEN overflow \cup {Head(all[b])} ELSE overflow
          /\ UNCHANGED <<forfeit, slips>>
       \/ /\ full /\ slips < MaxSlips
          /\ slips' = slips + 1
          /\ forfeit' = forfeit \cup {Head(all[b])}
          /\ overflow' = overflow

DeliverNote(n) ==
    /\ courier[n] = "routed"
    /\ Deposit(boxes, target[n], n)
    /\ courier' = [courier EXCEPT ![n] = "sent"]
    /\ UNCHANGED <<inboxes, target, reader, drained, received>>
-----------------------------------------------------------------------------
(* Receive and DrainOverflow *)

Lookup(r, a) ==
    /\ reader[r] = 0
    /\ reader' = [reader EXCEPT ![r] = inboxes[a]]
    /\ UNCHANGED <<inboxes, boxes, courier, target, overflow, drained, received, forfeit, slips>>

\* The oldest messages, up to the limit, or all of them, are taken out.
TakeOut(r, limit) ==
    LET box == boxes[reader[r]] IN
    /\ reader[r] # 0 /\ limit \in (IF box = <<>> THEN {0} ELSE 1..Len(box))
    /\ received' = received \o SubSeq(box, 1, limit)
    /\ boxes' = [boxes EXCEPT ![reader[r]] = SubSeq(box, limit + 1, Len(box))]
    /\ reader' = [reader EXCEPT ![r] = 0]
    /\ UNCHANGED <<inboxes, courier, target, overflow, drained, forfeit, slips>>

\* The rows of an agent are read and marked one by one; when marking one fails
\* the call returns nothing, and those it has marked are not seen again.
Drain(a) ==
    /\ drained = <<>>
    /\ LET mine == {n \in overflow : Addressee[n] = a} IN
        \/ /\ \E order \in SetToSeqs(mine) : drained' = order
           /\ overflow' = overflow \ mine
           /\ UNCHANGED <<forfeit, slips>>
        \/ /\ slips < MaxSlips
           /\ slips' = slips + 1
           /\ \E marked \in SUBSET mine :
                 overflow' = overflow \ marked /\ forfeit' = forfeit \cup marked
           /\ drained' = <<>>
    /\ UNCHANGED <<inboxes, boxes, courier, target, reader, received>>

\* Each of them is delivered anew, and may push another one out.
Redeliver ==
    /\ drained # <<>>
    /\ LET o == Opened(Addressee[Head(drained)]) IN
        /\ inboxes' = o.inboxes
        /\ Deposit(o.boxes, o.box, Head(drained))
    /\ drained' = Tail(drained)
    /\ UNCHANGED <<courier, target, reader, received>>

\* The inboxes, and the calls, end with the process; the table stays.
HubRestarts ==
    /\ slips < MaxSlips
    /\ slips' = slips + 1
    /\ forfeit' = forfeit \cup ToSet(drained) \cup UNION {ToSet(boxes[i]) : i \in DOMAIN boxes}
    /\ courier' = [n \in Notes |-> IF courier[n] \in {"sifted", "routed"} THEN "cut" ELSE courier[n]]
    /\ inboxes' = [a \in Recipients |-> 0] /\ boxes' = <<>>
    /\ target' = [n \in Notes |-> 0] /\ reader' = [r \in Readers |-> 0]
    /\ drained' = <<>>
    /\ UNCHANGED <<overflow, received>>

CommNext ==
    \/ \E n \in Notes : Sift(n) \/ FindInbox(n) \/ DeliverNote(n)
    \/ \E r \in Readers :
          \/ \E a \in Recipients : Lookup(r, a)
          \/ \E limit \in 0..InboxSize : TakeOut(r, limit)
    \/ \E a \in Recipients : Drain(a)
    \/ Redeliver \/ HubRestarts

CommSpec == CommInit /\ [][CommNext]_commVars
-----------------------------------------------------------------------------
(* Properties *)

\* Where a message is.
Places(n) ==
    Cardinality({i \in DOMAIN received : received[i] = n})
    + Cardinality({i \in DOMAIN drained : drained[i] = n})
    + (IF inboxes[Addressee[n]] = 0 THEN 0
       ELSE Cardinality({i \in DOMAIN boxes[inboxes[Addressee[n]]] :
                            boxes[inboxes[Addressee[n]]][i] = n}))
    + Cardinality({s \in {overflow, forfeit} : n \in s})

\* A message whose Send has returned without an error is where its agent can
\* still receive it, or was received, and was received once: neither two Sends
\* that make the inbox at once, nor an inbox that overflows while it is read
\* and drained, lose it or bring it twice.
HubKeepsAll ==
    \A n \in Notes : Places(n) = IF courier[n] = "sent" THEN 1 ELSE 0
=============================================================================
