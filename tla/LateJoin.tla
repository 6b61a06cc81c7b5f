----------------------------- MODULE LateJoin -----------------------------
(***************************************************************************)
(* A dashboard on the WebSocket hub (internal/web/ws.go) over the bus and  *)
(* the ring of recent events: the feeder goroutine of web/router.go pushes *)
(* what it hears into the ring; a client that connects is sent the ring's  *)
(* events after its "since" and is subscribed afterwards; it disconnects   *)
(* and comes back with the last sequence id it has seen.                   *)
(***************************************************************************)
EXTENDS EventBus, RingBuffer

CONSTANTS
    Feeder,  \* the id "ring-buffer-feeder"
    Conns    \* the client's connections; each has a subscriber id of its own

ASSUME LateJoinAssumption ==
    /\ Feeder \in SubIds
    /\ Conns \subseteq SubIds \ {Feeder}
    /\ [seq : 1 .. MaxSeq, from : Publishers, type : Types] \subseteq Entries

VARIABLES
    feed,   \* the channel the feeder reads
    conn,   \* per connection: what it is doing
    since,  \* per connection: the parameter it came with
    line,   \* per connection: its channel
    got     \* what the client received, over all its connections

joinVars == <<feed, conn, since, line, got>>
hubVars == <<busVars, ringVars, joinVars>>

JoinInit ==
    /\ BusInit
    /\ RingInit
    /\ feed = NoChan
    /\ conn = [k \in Conns |-> "none"]
    /\ since = [k \in Conns |-> 0]
    /\ line = [k \in Conns |-> NoChan]
    /\ got = <<>>

Connected == \E k \in Conns : conn[k] \in {"replayed", "live"}
-----------------------------------------------------------------------------
\* router.go subscribes the feeder before the server listens.
SubscribeFeeder(c) ==
    /\ feed = NoChan
    /\ Subscribe(Feeder, c)
    /\ feed' = c
    /\ UNCHANGED <<ringVars, conn, since, line, got>>

\* The feeder takes an event and pushes it.
Feed ==
    /\ feed # NoChan
    /\ Hear(feed)
    /\ Push(Head(queue[feed]))
    /\ UNCHANGED joinVars

\* The highest sequence id the client has seen.
Newest == CHOOSE n \in 0..MaxSeq :
    /\ n = 0 \/ \E i \in DOMAIN got : got[i].seq = n
    /\ \A i \in DOMAIN got : got[i].seq <= n

\* Mutant of Connect: the client is sent the whole ring.
ConnectAll(k) ==
    /\ feed # NoChan
    /\ ~Connected
    /\ conn[k] = "none"
    /\ conn' = [conn EXCEPT ![k] = "replayed"]
    /\ since' = [since EXCEPT ![k] = Newest]
    /\ got' = got \o Snapshot(ring)
    /\ UNCHANGED <<busVars, ringVars, feed, line>>

\* HandleWebSocket reads the ring and sends what it finds.
Connect(k) ==
    /\ feed # NoChan
    /\ ~Connected
    /\ conn[k] = "none"
    /\ conn' = [conn EXCEPT ![k] = "replayed"]
    /\ since' = [since EXCEPT ![k] = Newest]
    /\ got' = got \o Replay(ring, Newest)
    /\ UNCHANGED <<busVars, ringVars, feed, line>>

\* ... and subscribes when the replay is complete.
GoLive(k, c) ==
    /\ conn[k] = "replayed"
    /\ Subscribe(k, c)
    /\ conn' = [conn EXCEPT ![k] = "live"]
    /\ line' = [line EXCEPT ![k] = c]
    /\ UNCHANGED <<ringVars, feed, since, got>>

\* The connection's goroutine writes the next live event.
Deliver(k) ==
    /\ conn[k] = "live"
    /\ Hear(line[k])
    /\ got' = Append(got, Head(queue[line[k]]))
    /\ UNCHANGED <<ringVars, feed, conn, since, line>>

\* The read pump notices that the client is gone; what is buffered is lost.
Disconnect(k) ==
    /\ conn[k] = "live"
    /\ Unregister(k)
    /\ conn' = [conn EXCEPT ![k] = "gone"]
    /\ UNCHANGED <<ringVars, feed, since, line, got>>

HubNext ==
    \/ \E c \in Channels : SubscribeFeeder(c)
    \/ Feed
    \/ \E k \in Conns : Connect(k)
    \/ \E k \in Conns, c \in Channels : GoLive(k, c)
    \/ \E k \in Conns : Deliver(k)
    \/ \E k \in Conns : Disconnect(k)
    \/ \E c \in Channels : Close(c) /\ UNCHANGED <<ringVars, joinVars>>
    \/ \E p \in Publishers, t \in Types :
          Stamp(p, t) /\ UNCHANGED <<ringVars, joinVars>>
    \/ \E p \in Publishers : Publishing(p) /\ UNCHANGED <<ringVars, joinVars>>

HubSpec == JoinInit /\ [][HubNext]_hubVars
-----------------------------------------------------------------------------
(* Properties *)

\* Over replays, live events and reconnects the client receives no event twice,
\* and the events of one publisher in the order they were published
\* (HandleWebSocket replays before it subscribes).
ClientOrder ==
    \A i, j \in DOMAIN got :
        i < j /\ got[i].from = got[j].from => got[i].seq < got[j].seq

\* Nobody publishes, and every event that was sent has arrived.
Settled ==
    /\ \A p \in Publishers : pub[p].at = "idle"
    /\ \A c \in Channels : chan[c] = "open" => queue[c] = <<>>

\* A connected client has all buffered events after its "since": those replayed
\* and those published since then.
CaughtUp ==
    Settled => \A k \in Conns : conn[k] = "live" =>
        \A i \in DOMAIN Snapshot(ring) :
            LET e == Snapshot(ring)[i]
            IN  e.seq > since[k] => \E j \in DOMAIN got : got[j] = e
=============================================================================
