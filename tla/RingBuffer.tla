---------------------------- MODULE RingBuffer ----------------------------
(***************************************************************************)
(* The ring of recent events (internal/nervous/ringbuffer.go).  Every      *)
(* method holds the buffer's lock from start to end and is one step.       *)
(***************************************************************************)
EXTENDS Integers, Sequences

CONSTANTS
    Capacity,  \* capacity
    Entries,   \* the events that may be pushed, records with a field "seq"
    NoEvent    \* the zero event of a fresh buffer

ASSUME RingAssumption ==
    /\ Capacity \in Nat \ {0}
    /\ \A e \in Entries : e.seq \in Nat

VARIABLES
    ring,    \* buf, head and count
    pushed   \* everything pushed so far, oldest first

ringVars == <<ring, pushed>>

Slots == 0..(Capacity - 1)

RingInit ==
    /\ ring = [buf |-> [i \in Slots |-> NoEvent], head |-> 0, count |-> 0]
    /\ pushed = <<>>

Put(r, e) ==
    [buf   |-> [r.buf EXCEPT ![r.head] = e],
     head  |-> (r.head + 1) % Capacity,
     count |-> IF r.count < Capacity THEN r.count + 1 ELSE r.count]

Oldest(r) == IF r.count < Capacity THEN 0 ELSE r.head

\* The buffered events, oldest first.
Snapshot(r) == [i \in 1..r.count |-> r.buf[(Oldest(r) + i - 1) % Capacity]]

\* Mutant of Replay: the event the caller already has is replayed again.
ReplayInclusive(r, since) ==
    LET Newer(e) == e.seq >= since IN SelectSeq(Snapshot(r), Newer)

\* The buffered events with a higher sequence id, oldest first.
Replay(r, since) ==
    LET buf == Snapshot(r)
        result[i \in 0 .. r.count] ==
            IF i = 0 THEN <<>>
            ELSE IF buf[i].seq > since THEN Append(result[i - 1], buf[i])
            ELSE result[i - 1]
    IN  result[r.count]

Push(e) ==
    /\ ring' = Put(ring, e)
    /\ pushed' = Append(pushed, e)

RingNext == \E e \in Entries : Push(e)

RingSpec == RingInit /\ [][RingNext]_ringVars
-----------------------------------------------------------------------------
(* Properties *)

\* The index arithmetic stays inside the buffer.
RingTypeOK ==
    /\ ring.buf \in [Slots -> Entries \cup {NoEvent}]
    /\ ring.head \in Slots
    /\ ring.count \in 0..Capacity
    /\ pushed \in Seq(Entries)

\* The last Capacity events that were pushed, oldest first.
Recent ==
    LET n == Len(pushed)
        k == IF n < Capacity THEN n ELSE Capacity
    IN  SubSeq(pushed, n - k + 1, n)

\* Snapshot gives the most recent events in the order they were pushed, before
\* and after the buffer wraps around (ringbuffer.go Push, Snapshot, oldestIndex).
HoldsRecent == Snapshot(ring) = Recent

\* A late joiner gets each recent event it has not seen, and nothing else, in
\* the order they were pushed (ringbuffer.go Replay).
ReplayIsMissed ==
    \A since \in {0} \cup {e.seq : e \in Entries} :
        LET replay == Replay(ring, since)
            missed == {i \in DOMAIN Recent : Recent[i].seq > since}
        IN  \E at \in [DOMAIN replay -> missed] :
                /\ \A m \in missed : \E j \in DOMAIN replay : at[j] = m
                /\ \A j, k \in DOMAIN replay : j < k => at[j] < at[k]
                /\ \A j \in DOMAIN replay : replay[j] = Recent[at[j]]
=============================================================================
