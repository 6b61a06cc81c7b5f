----------------------------- MODULE EventBus -----------------------------
(***************************************************************************)
(* The transport stream (internal/nervous/bus.go): a registry of           *)
(* subscribers with one buffered channel each, a Lamport clock that stamps *)
(* events, and publishers that fan out under the read lock without ever    *)
(* blocking.                                                               *)
(*                                                                         *)
(* Publishers share the read lock, so their fan-outs interleave channel by *)
(* channel; Subscribe, the first half of Unsubscribe and the shutdown need *)
(* the write lock and are one step each.  The clock is advanced before the *)
(* lock is taken, and Unsubscribe closes the channel after releasing it.   *)
(***************************************************************************)
EXTENDS Integers, Sequences, FiniteSets

CONSTANTS
    Publishers,  \* goroutines that publish, read channels and merge clocks
    SubIds,      \* subscriber ids
    Channels,    \* channels that may be made
    NoChan,      \* "not registered"
    Types,       \* event types
    Wants,       \* Wants[s]: the types the filter of subscriber s lets through
    Buffer,      \* bufferSize
    Remotes,     \* sequence ids that arrive from other instances
    MaxSeq       \* bound: the clock does not go beyond it

ASSUME EventBusAssumption ==
    /\ NoChan \notin Channels
    /\ Wants \in [SubIds -> SUBSET Types]
    /\ Buffer \in Nat \ {0}
    /\ Remotes \subseteq Nat
    /\ MaxSeq \in Nat

VARIABLES
    lamport,   \* EventBus.lamport
    registry,  \* EventBus.subscribers: per id, its channel
    chan,      \* per channel: never made, open or closed
    queue,     \* per channel: the events it buffers
    heard,     \* per channel: the events its reader took
    pub,       \* per goroutine: where it is in Publish
    seen,      \* per goroutine: the highest sequence id it learned of
    doomed,    \* channels an Unsubscribe removed and has still to close
    running    \* whether the context of Run is still alive

busVars == <<lamport, registry, chan, queue, heard, pub, seen, doomed, running>>

Event == [seq: Nat, from: Publishers, type: Types]
NotPublishing == [at |-> "idle"]

BusInit ==
    /\ lamport = 0
    /\ registry = [s \in SubIds |-> NoChan]
    /\ chan = [c \in Channels |-> "new"]
    /\ queue = [c \in Channels |-> <<>>]
    /\ heard = [c \in Channels |-> <<>>]
    /\ pub = [p \in Publishers |-> NotPublishing]
    /\ seen = [p \in Publishers |-> 0]
    /\ doomed = {}
    /\ running = TRUE

Registered(c) == \E s \in SubIds : registry[s] = c

\* Nobody holds the read lock.
Unlocked == \A p \in Publishers : pub[p].at # "sending"
-----------------------------------------------------------------------------
(* Publish *)

\* The clock is advanced atomically and the event stamped.
Stamp(p, t) ==
    /\ pub[p].at = "idle"
    /\ lamport < MaxSeq
    /\ lamport' = lamport + 1
    /\ pub' = [pub EXCEPT ![p] =
                  [at |-> "stamped",
                   event |-> [seq |-> lamport + 1, from |-> p, type |-> t]]]
    /\ UNCHANGED <<registry, chan, queue, heard, seen, doomed, running>>

\* The read lock is taken; the registry cannot change until it is released.
Lock(p) ==
    /\ pub[p].at = "stamped"
    /\ LET e == pub[p].event
       IN  pub' = [pub EXCEPT ![p] =
                      [at |-> "sending", event |-> e,
                       left |-> {s \in SubIds : registry[s] # NoChan /\ e.type \in Wants[s]}]]
    /\ UNCHANGED <<lamport, registry, chan, queue, heard, seen, doomed, running>>

\* Mutant of Send: the send waits until the channel has room.
SendBlocking(p, s) ==
    /\ pub[p].at = "sending"
    /\ s \in pub[p].left
    /\ Len(queue[registry[s]]) < Buffer
    /\ queue' = [queue EXCEPT ![registry[s]] = Append(@, pub[p].event)]
    /\ pub' = [pub EXCEPT ![p].left = @ \ {s}]
    /\ UNCHANGED <<lamport, registry, chan, heard, seen, doomed, running>>

\* Mutant of Send: on a full channel the event takes the place of the oldest.
SendFront(p, s) ==
    /\ pub[p].at = "sending"
    /\ s \in pub[p].left
    /\ queue' = [queue EXCEPT ![registry[s]] =
                    IF Len(@) < Buffer THEN Append(@, pub[p].event)
                    ELSE <<pub[p].event>> \o Tail(@)]
    /\ pub' = [pub EXCEPT ![p].left = @ \ {s}]
    /\ UNCHANGED <<lamport, registry, chan, heard, seen, doomed, running>>

\* The next subscriber of the map: a full channel drops the event.
Send(p, s) ==
    /\ pub[p].at = "sending"
    /\ s \in pub[p].left
    /\ queue' = [queue EXCEPT ![registry[s]] =
                    IF Len(@) < Buffer THEN Append(@, pub[p].event) ELSE @]
    /\ pub' = [pub EXCEPT ![p].left = @ \ {s}]
    /\ UNCHANGED <<lamport, registry, chan, heard, seen, doomed, running>>

Unlock(p) ==
    /\ pub[p].at = "sending"
    /\ pub[p].left = {}
    /\ pub' = [pub EXCEPT ![p] = NotPublishing]
    /\ UNCHANGED <<lamport, registry, chan, queue, heard, seen, doomed, running>>

(* Subscribe and Unsubscribe *)

\* A new channel takes the id; a channel that had it is forgotten, not closed.
Subscribe(s, c) ==
    /\ Unlocked
    /\ chan[c] = "new"
    /\ chan' = [chan EXCEPT ![c] = "open"]
    /\ registry' = [registry EXCEPT ![s] = c]
    /\ UNCHANGED <<lamport, queue, heard, pub, seen, doomed, running>>

\* Mutant of Unregister: the write lock is not taken.
UnregisterUnlocked(s) ==
    /\ registry[s] # NoChan
    /\ registry' = [registry EXCEPT ![s] = NoChan]
    /\ doomed' = doomed \cup {registry[s]}
    /\ UNCHANGED <<lamport, chan, queue, heard, pub, seen, running>>

\* Unsubscribe takes the id out of the registry.
Unregister(s) ==
    /\ Unlocked
    /\ registry[s] # NoChan
    /\ registry' = [registry EXCEPT ![s] = NoChan]
    /\ doomed' = doomed \cup {registry[s]}
    /\ UNCHANGED <<lamport, chan, queue, heard, pub, seen, running>>

\* ... and closes the channel after the lock is released.
Close(c) ==
    /\ c \in doomed
    /\ chan' = [chan EXCEPT ![c] = "closed"]
    /\ doomed' = doomed \ {c}
    /\ UNCHANGED <<lamport, registry, queue, heard, pub, seen, running>>

\* Run: the context is cancelled and every registered channel closed.
Shutdown ==
    /\ running
    /\ Unlocked
    /\ running' = FALSE
    /\ chan' = [c \in Channels |-> IF Registered(c) THEN "closed" ELSE chan[c]]
    /\ registry' = [s \in SubIds |-> NoChan]
    /\ UNCHANGED <<lamport, queue, heard, pub, seen, doomed>>

(* Readers and the clocks of other instances *)

Later(m, n) == IF m > n THEN m ELSE n

\* The next event of a channel is received.
Take(c) ==
    /\ queue[c] # <<>>
    /\ queue' = [queue EXCEPT ![c] = Tail(@)]
    /\ heard' = [heard EXCEPT ![c] = Append(@, Head(queue[c]))]

\* Goroutine p, which publishes too, receives.
Receive(p, c) ==
    /\ pub[p].at = "idle"
    /\ Take(c)
    /\ seen' = [seen EXCEPT ![p] = Later(@, Head(queue[c]).seq)]
    /\ UNCHANGED <<lamport, registry, chan, pub, doomed, running>>

\* A goroutine that never publishes receives.
Hear(c) ==
    /\ Take(c)
    /\ UNCHANGED <<lamport, registry, chan, pub, seen, doomed, running>>

\* Mutant of Merge: the remote clock is adopted as it is.
MergeAdopt(p, remote) ==
    /\ pub[p].at = "idle"
    /\ lamport < MaxSeq
    /\ lamport' = remote
    /\ seen' = [seen EXCEPT ![p] = Later(@, lamport')]
    /\ UNCHANGED <<registry, chan, queue, heard, pub, doomed, running>>

\* Merge: max(local, remote) + 1, by compare-and-swap.
Merge(p, remote) ==
    /\ pub[p].at = "idle"
    /\ Later(lamport, remote) < MaxSeq
    /\ lamport' = Later(lamport, remote) + 1
    /\ seen' = [seen EXCEPT ![p] = lamport']
    /\ UNCHANGED <<registry, chan, queue, heard, pub, doomed, running>>
-----------------------------------------------------------------------------
\* What a publisher does by itself once its event is stamped.
Publishing(p) ==
    \/ Lock(p)
    \/ \E s \in SubIds : Send(p, s)
    \/ Unlock(p)

BusNext ==
    \/ \E p \in Publishers, t \in Types : Stamp(p, t)
    \/ \E p \in Publishers : Publishing(p)
    \/ \E s \in SubIds, c \in Channels : Subscribe(s, c)
    \/ \E s \in SubIds : Unregister(s)
    \/ \E c \in Channels : Close(c)
    \/ Shutdown
    \/ \E p \in Publishers, c \in Channels : Receive(p, c)
    \/ \E c \in Channels : Hear(c)
    \/ \E p \in Publishers, remote \in Remotes : Merge(p, remote)

BusSpec == BusInit /\ [][BusNext]_busVars

\* Publishers are scheduled; readers, subscribers and Run owe nothing.
BusFairSpec == BusSpec /\ \A p \in Publishers : WF_busVars(Publishing(p))
-----------------------------------------------------------------------------
(* Properties *)

Idle == [at: {"idle"}]
Stamped == [at: {"stamped"}, event: Event]
Sending == [at: {"sending"}, event: Event, left: SUBSET SubIds]

\* Every variable keeps its shape and no channel buffers more than it may.
BusTypeOK ==
    /\ lamport \in 0..MaxSeq
    /\ registry \in [SubIds -> Channels \cup {NoChan}]
    /\ chan \in [Channels -> {"new", "open", "closed"}]
    /\ queue \in [Channels -> Seq(Event)]
    /\ heard \in [Channels -> Seq(Event)]
    /\ pub \in [Publishers -> Idle \cup Stamped \cup Sending]
    /\ seen \in [Publishers -> Nat]
    /\ doomed \subseteq Channels
    /\ running \in BOOLEAN
    /\ \A c \in Channels : Len(queue[c]) <= Buffer

\* A send on a closed channel, and a second close, panic: whoever is about to
\* send or to close finds the channel open, although Unsubscribe closes outside
\* the lock and races with Publish, with the shutdown and with other
\* Unsubscribes (bus.go Publish, Unsubscribe, Run).
NoPanic ==
    /\ \A p \in Publishers : pub[p].at = "sending" =>
          \A s \in pub[p].left : registry[s] # NoChan /\ chan[registry[s]] = "open"
    /\ \A c \in doomed : chan[c] = "open"
    /\ \A s \in SubIds : registry[s] # NoChan =>
          chan[registry[s]] = "open" /\ registry[s] \notin doomed

\* A subscriber hears the events of one publisher in the order they were
\* published, whatever is dropped and whoever publishes at the same time.
PublisherOrder ==
    \A c \in Channels :
        LET stream == heard[c] \o queue[c]
        IN  \A i, j \in DOMAIN stream :
                i < j /\ stream[i].from = stream[j].from => stream[i].seq < stream[j].seq

\* SequenceIDs agree with causality: an event published by a goroutine that
\* learned of another one, here or by Merge, is stamped higher.
CausalOrder ==
    [][\A p \in Publishers :
          pub[p].at = "idle" /\ pub'[p].at = "stamped" =>
              pub'[p].event.seq > seen[p]]_busVars

\* The events under way, buffered or read.
Published ==
    {pub[p].event : p \in {q \in Publishers : pub[q].at # "idle"}}
        \cup UNION {{queue[c][i] : i \in DOMAIN queue[c]}
                    \cup {heard[c][i] : i \in DOMAIN heard[c]} : c \in Channels}

\* No two events of the instance share a SequenceID, however Publish and Merge
\* race on the clock.
UniqueIds == \A e, f \in Published : e.seq = f.seq => e = f

\* Publish never waits for a reader: with every channel full and nobody
\* reading, it returns.
PublishReturns ==
    \A p \in Publishers : (pub[p].at # "idle") ~> (pub[p].at = "idle")
=============================================================================
