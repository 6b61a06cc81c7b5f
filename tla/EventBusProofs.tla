--------------------------- MODULE EventBusProofs ---------------------------
(***************************************************************************)
(* No goroutine ever sends on a closed channel of the bus or closes one    *)
(* twice, no two events share a SequenceID, SequenceIDs agree with         *)
(* causality, and a channel carries each publisher in order, for every     *)
(* number of publishers, subscribers and channels.                         *)
(***************************************************************************)
EXTENDS EventBus, SequenceTheorems, TLAPS

\* No two ids share a channel.
OneIdPerChannel ==
    \A s, t \in SubIds :
        registry[s] = registry[t] /\ registry[s] # NoChan => s = t

\* The inductive invariant: NoPanic alone would not survive an Unregister whose
\* channel another id still has.
IInv == BusTypeOK /\ NoPanic /\ OneIdPerChannel

\* The initial state.
LEMMA IInvInit == BusInit => IInv
<1> SUFFICES ASSUME BusInit PROVE IInv
  OBVIOUS
<1>1. BusTypeOK
  BY EventBusAssumption, EmptySeq
  DEF BusInit, BusTypeOK, Idle, NotPublishing
<1>2. NoPanic
  BY DEF BusInit, NoPanic, NotPublishing
<1>3. OneIdPerChannel
  BY DEF BusInit, OneIdPerChannel
<1> QED
  BY <1>1, <1>2, <1>3 DEF IInv

\* Which record a goroutine holds is told by where it is.
LEMMA PubCases ==
    ASSUME BusTypeOK, NEW p \in Publishers
    PROVE  /\ pub[p].at = "idle" => pub[p] \in Idle
           /\ pub[p].at = "stamped" => pub[p] \in Stamped
           /\ pub[p].at = "sending" => pub[p] \in Sending
<1>1. pub[p] \in Idle \cup Stamped \cup Sending
  BY DEF BusTypeOK
<1> QED
  BY <1>1 DEF Idle, Stamped, Sending

\* A step keeps the shape of every variable.
LEMMA TypeStep == BusTypeOK /\ [BusNext]_busVars => BusTypeOK'
<1> SUFFICES ASSUME BusTypeOK, [BusNext]_busVars PROVE BusTypeOK'
  OBVIOUS
<1> USE EventBusAssumption
<1>1. ASSUME NEW p \in Publishers, NEW t \in Types, Stamp(p, t) PROVE BusTypeOK'
  <2>1. [seq |-> lamport + 1, from |-> p, type |-> t] \in Event
    BY DEF BusTypeOK, Event
  <2>2. [at |-> "stamped", event |-> [seq |-> lamport + 1, from |-> p, type |-> t]] \in Stamped
    BY <2>1 DEF Stamped
  <2>3. pub' \in [Publishers -> Idle \cup Stamped \cup Sending]
    BY <1>1, <2>2 DEF BusTypeOK, Stamp
  <2>4. lamport' \in 0..MaxSeq
    BY <1>1 DEF BusTypeOK, Stamp
  <2> QED
    BY <1>1, <2>3, <2>4 DEF BusTypeOK, Stamp
<1>2. ASSUME NEW p \in Publishers, Lock(p) PROVE BusTypeOK'
  <2> DEFINE e == pub[p].event
             left == {s \in SubIds : registry[s] # NoChan /\ e.type \in Wants[s]}
  <2>1. e \in Event
    BY <1>2, PubCases DEF Lock, Stamped
  <2>2. [at |-> "sending", event |-> e, left |-> left] \in Sending
    BY <2>1 DEF Sending
  <2>3. pub' = [pub EXCEPT ![p] = [at |-> "sending", event |-> e, left |-> left]]
    BY <1>2 DEF Lock
  <2>4. pub' \in [Publishers -> Idle \cup Stamped \cup Sending]
    BY <2>2, <2>3 DEF BusTypeOK
  <2> QED
    BY <1>2, <2>4 DEF BusTypeOK, Lock
<1>3. ASSUME NEW p \in Publishers, NEW s \in SubIds, Send(p, s) PROVE BusTypeOK'
  <2>1. pub[p] \in Sending
    BY <1>3, PubCases DEF Send
  <2>2. [pub[p] EXCEPT !.left = @ \ {s}] \in Sending
    BY <2>1 DEF Sending
  <2>3. pub' = [pub EXCEPT ![p] = [pub[p] EXCEPT !.left = @ \ {s}]]
    BY <1>3 DEF Send
  <2>4. pub' \in [Publishers -> Idle \cup Stamped \cup Sending]
    BY <2>2, <2>3 DEF BusTypeOK
  <2>5. ASSUME NEW c \in Channels PROVE queue'[c] \in Seq(Event) /\ Len(queue'[c]) <= Buffer
    <3>1. queue[c] \in Seq(Event) /\ Len(queue[c]) <= Buffer /\ Len(queue[c]) \in Nat
      BY LenProperties DEF BusTypeOK
    <3>2. \/ queue'[c] = queue[c]
          \/ (Len(queue[c]) < Buffer /\ queue'[c] = Append(queue[c], pub[p].event))
      BY <1>3 DEF Send, BusTypeOK
    <3>3. pub[p].event \in Event
      BY <2>1 DEF Sending
    <3> QED
      BY SMTT(30), <3>1, <3>2, <3>3, AppendProperties
  <2>6. queue' \in [Channels -> Seq(Event)]
    <3>1. queue' = [c \in Channels |-> queue'[c]]
      BY <1>3 DEF Send, BusTypeOK
    <3> QED
      BY <3>1, <2>5
  <2> QED
    BY <1>3, <2>4, <2>5, <2>6 DEF BusTypeOK, Send
<1>4. ASSUME NEW p \in Publishers, Unlock(p) PROVE BusTypeOK'
  <2>1. NotPublishing \in Idle
    BY DEF NotPublishing, Idle
  <2> QED
    BY <1>4, <2>1 DEF BusTypeOK, Unlock
<1>5. ASSUME NEW s \in SubIds, NEW c \in Channels, Subscribe(s, c) PROVE BusTypeOK'
  BY <1>5 DEF BusTypeOK, Subscribe
<1>6. ASSUME NEW s \in SubIds, Unregister(s) PROVE BusTypeOK'
  BY <1>6 DEF BusTypeOK, Unregister
<1>7. ASSUME NEW c \in Channels, Close(c) PROVE BusTypeOK'
  BY <1>7 DEF BusTypeOK, Close
<1>8. CASE Shutdown
  BY <1>8 DEF BusTypeOK, Shutdown
<1>9. ASSUME NEW c \in Channels, Take(c) PROVE
        /\ heard' \in [Channels -> Seq(Event)] /\ queue' \in [Channels -> Seq(Event)]
        /\ \A d \in Channels : Len(queue'[d]) <= Buffer
        /\ Head(queue[c]) \in Event
  <2>1. queue[c] \in Seq(Event) /\ queue[c] # <<>> /\ heard[c] \in Seq(Event)
    BY <1>9 DEF BusTypeOK, Take
  <2>2. /\ Head(queue[c]) \in Event
        /\ Tail(queue[c]) \in Seq(Event)
        /\ Len(Tail(queue[c])) = Len(queue[c]) - 1
        /\ Len(queue[c]) \in Nat
    BY <2>1, HeadTailProperties, LenProperties
  <2>3. Append(heard[c], Head(queue[c])) \in Seq(Event)
    BY <2>1, <2>2, AppendProperties
  <2>4. heard' \in [Channels -> Seq(Event)] /\ queue' \in [Channels -> Seq(Event)]
    BY <1>9, <2>2, <2>3 DEF BusTypeOK, Take
  <2>5. \A d \in Channels : Len(queue'[d]) <= Buffer
    BY <1>9, <2>2 DEF BusTypeOK, Take
  <2> QED
    BY <2>2, <2>4, <2>5
<1>12. ASSUME NEW p \in Publishers, NEW c \in Channels, Receive(p, c) PROVE BusTypeOK'
  <2>1. Take(c)
    BY <1>12 DEF Receive
  <2>2. Later(seen[p], Head(queue[c]).seq) \in Nat
    BY <1>9, <2>1 DEF BusTypeOK, Event, Later
  <2>3. seen' \in [Publishers -> Nat]
    BY <1>12, <2>2 DEF BusTypeOK, Receive
  <2> QED
    BY <1>9, <1>12, <2>1, <2>3 DEF BusTypeOK, Receive
<1>13. ASSUME NEW c \in Channels, Hear(c) PROVE BusTypeOK'
  BY <1>9, <1>13 DEF BusTypeOK, Hear
<1>10. ASSUME NEW p \in Publishers, NEW remote \in Remotes, Merge(p, remote) PROVE BusTypeOK'
  BY <1>10 DEF BusTypeOK, Merge, Later
<1>11. CASE UNCHANGED busVars
  BY <1>11 DEF BusTypeOK, busVars
<1> QED
  BY <1>1, <1>2, <1>3, <1>4, <1>5, <1>6, <1>7, <1>8, <1>10, <1>11, <1>12, <1>13
  DEF BusNext, Publishing

\* A step keeps channels open for whoever is about to send on or close them.
LEMMA PanicStep == IInv /\ BusTypeOK' /\ [BusNext]_busVars => NoPanic' /\ OneIdPerChannel'
<1> SUFFICES ASSUME IInv, BusTypeOK', [BusNext]_busVars PROVE NoPanic' /\ OneIdPerChannel'
  OBVIOUS
<1> USE EventBusAssumption DEF IInv
<1>1. ASSUME NEW p \in Publishers, NEW t \in Types, Stamp(p, t)
      PROVE  NoPanic' /\ OneIdPerChannel'
  BY <1>1 DEF NoPanic, OneIdPerChannel, Stamp, BusTypeOK
<1>2. ASSUME NEW p \in Publishers, Lock(p) PROVE NoPanic' /\ OneIdPerChannel'
  BY <1>2 DEF NoPanic, OneIdPerChannel, Lock, BusTypeOK
<1>3. ASSUME NEW p \in Publishers, NEW s \in SubIds, Send(p, s)
      PROVE  NoPanic' /\ OneIdPerChannel'
  <2>1. \A q \in Publishers : pub'[q].at = "sending" =>
           pub[q].at = "sending" /\ pub'[q].left \subseteq pub[q].left
    <3>1. pub[p] \in Sending
      BY <1>3, PubCases DEF Send
    <3>2. pub' = [pub EXCEPT ![p] = [pub[p] EXCEPT !.left = @ \ {s}]]
      BY <1>3 DEF Send
    <3> QED
      BY <3>1, <3>2 DEF BusTypeOK, Sending
  <2> QED
    BY <1>3, <2>1 DEF NoPanic, OneIdPerChannel, Send
<1>4. ASSUME NEW p \in Publishers, Unlock(p) PROVE NoPanic' /\ OneIdPerChannel'
  BY <1>4 DEF NoPanic, OneIdPerChannel, Unlock, NotPublishing, BusTypeOK
<1>5. ASSUME NEW s \in SubIds, NEW c \in Channels, Subscribe(s, c)
      PROVE  NoPanic' /\ OneIdPerChannel'
  BY <1>5 DEF NoPanic, OneIdPerChannel, Subscribe, Unlocked, BusTypeOK
<1>6. ASSUME NEW s \in SubIds, Unregister(s) PROVE NoPanic' /\ OneIdPerChannel'
  BY <1>6 DEF NoPanic, OneIdPerChannel, Unregister, Unlocked, BusTypeOK
<1>7. ASSUME NEW c \in Channels, Close(c) PROVE NoPanic' /\ OneIdPerChannel'
  <2>1. \A s \in SubIds : registry[s] # c
    BY <1>7 DEF NoPanic, Close
  <2>2. \A d \in Channels : d # c => chan'[d] = chan[d]
    BY <1>7 DEF Close, BusTypeOK
  <2>3. \A p \in Publishers : pub[p].at = "sending" => pub[p].left \subseteq SubIds
    BY PubCases DEF Sending
  <2> QED
    BY <1>7, <2>1, <2>2, <2>3 DEF NoPanic, OneIdPerChannel, Close, BusTypeOK
<1>8. CASE Shutdown
  <2>1. \A c \in doomed : ~Registered(c)
    BY <1>8 DEF NoPanic, Shutdown, Registered, BusTypeOK
  <2> QED
    BY <1>8, <2>1 DEF NoPanic, OneIdPerChannel, Shutdown, Unlocked, BusTypeOK
<1>9. ASSUME NEW p \in Publishers, NEW c \in Channels, Receive(p, c)
      PROVE  NoPanic' /\ OneIdPerChannel'
  BY <1>9 DEF NoPanic, OneIdPerChannel, Receive
<1>10. ASSUME NEW p \in Publishers, NEW remote \in Remotes, Merge(p, remote)
       PROVE  NoPanic' /\ OneIdPerChannel'
  BY <1>10 DEF NoPanic, OneIdPerChannel, Merge
<1>11. CASE UNCHANGED busVars
  BY <1>11 DEF NoPanic, OneIdPerChannel, busVars
<1>12. ASSUME NEW c \in Channels, Hear(c) PROVE NoPanic' /\ OneIdPerChannel'
  BY <1>12 DEF NoPanic, OneIdPerChannel, Hear
<1> QED
  BY <1>1, <1>2, <1>3, <1>4, <1>5, <1>6, <1>7, <1>8, <1>9, <1>10, <1>11, <1>12
  DEF BusNext, Publishing

\* Every variable of the bus keeps its shape, and no channel holds more events
\* than its buffer (bus.go NewEventBus, Publish).
THEOREM BusTypeCorrect == BusSpec => []BusTypeOK
<1>1. BusInit => BusTypeOK
  BY IInvInit DEF IInv
<1> QED
  BY <1>1, TypeStep, PTL DEF BusSpec

\* Publish never sends on a closed channel, and neither Unsubscribe nor the
\* shutdown closes a channel twice (bus.go Publish, Unsubscribe, Run).
THEOREM BusNeverPanics == BusSpec => []NoPanic
<1>1. IInv /\ [BusNext]_busVars => IInv'
  BY TypeStep, PanicStep DEF IInv
<1>2. IInv => NoPanic
  BY DEF IInv
<1> QED
  BY IInvInit, <1>1, <1>2, PTL DEF BusSpec
-----------------------------------------------------------------------------
\* Whoever holds an id, in an event or in its head, holds one that the clock
\* has given out or passed.
ClockIsAhead ==
    /\ \A e \in Published : e.seq <= lamport
    /\ \A p \in Publishers : seen[p] <= lamport

\* The events of a sequence.
EventsIn(s) == {s[i] : i \in DOMAIN s}

\* Where an event is looked for.
LEMMA PublishedCases ==
    \A e : e \in Published <=>
              \/ \E p \in Publishers : pub[p].at # "idle" /\ e = pub[p].event
              \/ \E c \in Channels : e \in EventsIn(queue[c]) \cup EventsIn(heard[c])
<1> DEFINE Busy == {q \in Publishers : pub[q].at # "idle"}
           Carried == {pub[p].event : p \in Busy}
           Kept == {EventsIn(queue[c]) \cup EventsIn(heard[c]) : c \in Channels}
<1>1. Published = Carried \cup UNION Kept
  BY Zenon DEF Published, EventsIn
<1>2. \A e : e \in Carried <=> \E p \in Publishers : pub[p].at # "idle" /\ e = pub[p].event
  OBVIOUS
<1>3. \A e : e \in UNION Kept <=>
                \E c \in Channels : e \in EventsIn(queue[c]) \cup EventsIn(heard[c])
  OBVIOUS
<1> QED BY <1>1, <1>2, <1>3

\* An appended event is new to a sequence, and its tail holds nothing new.
LEMMA EventsInChanged ==
    ASSUME NEW s \in Seq(Event), NEW e \in Event
    PROVE  /\ EventsIn(Append(s, e)) \subseteq EventsIn(s) \cup {e}
           /\ s # <<>> => /\ EventsIn(Tail(s)) \subseteq EventsIn(s)
                          /\ Head(s) \in EventsIn(s) /\ Head(s) \in Event
<1>1. DOMAIN s = 1 .. Len(s) /\ Len(s) \in Nat
  BY LenProperties
<1>2. EventsIn(Append(s, e)) \subseteq EventsIn(s) \cup {e}
  <2>1. /\ Append(s, e) \in Seq(Event) /\ Len(Append(s, e)) = Len(s) + 1
        /\ \A i \in 1 .. Len(s) : Append(s, e)[i] = s[i]
        /\ Append(s, e)[Len(s) + 1] = e
    BY AppendProperties
  <2>2. DOMAIN Append(s, e) = 1 .. (Len(s) + 1)
    BY <2>1, LenProperties
  <2>3. ASSUME NEW i \in 1 .. (Len(s) + 1)
        PROVE  Append(s, e)[i] \in EventsIn(s) \cup {e}
    <3>1. CASE i = Len(s) + 1
      BY <2>1, <3>1
    <3>2. CASE i \in 1 .. Len(s)
      BY <1>1, <2>1, <3>2 DEF EventsIn
    <3> QED BY <1>1, <3>1, <3>2
  <2> QED BY <2>2, <2>3 DEF EventsIn
<1>3. ASSUME s # <<>>
      PROVE  /\ EventsIn(Tail(s)) \subseteq EventsIn(s)
             /\ Head(s) \in EventsIn(s) /\ Head(s) \in Event
  <2>1. /\ Tail(s) \in Seq(Event) /\ Len(Tail(s)) = Len(s) - 1
        /\ \A i \in 1 .. Len(Tail(s)) : Tail(s)[i] = s[i + 1]
        /\ Head(s) \in Event
    BY <1>3, HeadTailProperties
  <2>2. DOMAIN Tail(s) = 1 .. (Len(s) - 1) /\ Len(s) > 0
    BY <1>1, <1>3, <2>1, LenProperties, EmptySeq
  <2>3. ASSUME NEW i \in 1 .. (Len(s) - 1) PROVE Tail(s)[i] \in EventsIn(s)
    <3>1. i + 1 \in 1 .. Len(s) /\ Tail(s)[i] = s[i + 1]
      BY <1>1, <2>1
    <3> QED BY <1>1, <3>1 DEF EventsIn
  <2>4. Head(s) = s[1] /\ 1 \in 1 .. Len(s)
    BY <1>1, <2>2
  <2> QED BY <1>1, <2>1, <2>2, <2>3, <2>4 DEF EventsIn
<1> QED BY <1>2, <1>3

\* A step whose goroutines and channels hold what they, or others, held before,
\* or what is in S, publishes nothing but S.
LEMMA NothingElse ==
    ASSUME NEW S,
           \A p \in Publishers : pub'[p].at # "idle" => pub'[p].event \in Published \cup S,
           \A c \in Channels : /\ EventsIn(queue'[c]) \subseteq Published
                               /\ EventsIn(heard'[c]) \subseteq Published
    PROVE  Published' \subseteq Published \cup S
<1> SUFFICES ASSUME NEW e \in Published' PROVE e \in Published \cup S
  OBVIOUS
<1>1. \/ \E p \in Publishers : pub'[p].at # "idle" /\ e = pub'[p].event
      \/ \E c \in Channels : e \in EventsIn(queue'[c]) \cup EventsIn(heard'[c])
  BY PublishedCases, Zenon DEF Published, EventsIn
<1> QED BY <1>1

\* Only Stamp publishes an event that was not there, and the clock never goes
\* back.
LEMMA OnlyStampPublishes ==
    ASSUME BusTypeOK, NoPanic, [BusNext]_busVars
    PROVE  /\ lamport' >= lamport
           /\ \/ Published' \subseteq Published
              \/ \E p \in Publishers, t \in Types : Stamp(p, t)
<1>1. /\ \A p \in Publishers : pub[p].at # "idle" => pub[p].event \in Published
      /\ \A c \in Channels : EventsIn(queue[c]) \subseteq Published
                             /\ EventsIn(heard[c]) \subseteq Published
  BY PublishedCases
<1>2. lamport \in Int
  BY DEF BusTypeOK
<1>3. CASE UNCHANGED <<lamport, pub, queue, heard>>
  BY <1>2, <1>3 DEF Published
<1>4. ASSUME NEW p \in Publishers, Lock(p) \/ Unlock(p)
      PROVE  lamport' >= lamport /\ Published' \subseteq Published
  <2>1. \A q \in Publishers : pub'[q].at # "idle" => pub'[q].event \in Published
    <3>1. \A q \in Publishers : q # p => pub'[q] = pub[q]
      BY <1>4 DEF Lock, Unlock, BusTypeOK
    <3>2. pub'[p].at # "idle" => pub[p].at # "idle" /\ pub'[p].event = pub[p].event
      BY <1>4 DEF Lock, Unlock, BusTypeOK, NotPublishing
    <3> QED BY <1>1, <3>1, <3>2
  <2>2. lamport' = lamport /\ queue' = queue /\ heard' = heard
    BY <1>4 DEF Lock, Unlock
  <2> QED BY <1>1, <1>2, <2>1, <2>2, NothingElse
<1>5. ASSUME NEW p \in Publishers, NEW s \in SubIds, Send(p, s)
      PROVE  lamport' >= lamport /\ Published' \subseteq Published
  <2>1. pub[p] \in Sending
    BY <1>5, PubCases DEF Send
  <2>2. pub[p].event \in Event /\ pub[p].event \in Published
    BY <1>1, <1>5, <2>1 DEF Sending, Send
  <2>3. \A q \in Publishers : pub'[q].at # "idle" => pub'[q].event \in Published
    <3>1. pub'[p].event = pub[p].event
      BY <1>5, <2>1 DEF Send, BusTypeOK, Sending
    <3>2. \A q \in Publishers : q # p => pub'[q] = pub[q]
      BY <1>5 DEF Send, BusTypeOK
    <3> QED BY <1>1, <2>2, <3>1, <3>2
  <2>4. ASSUME NEW c \in Channels PROVE EventsIn(queue'[c]) \subseteq Published
    <3>1. queue'[c] = queue[c] \/ queue'[c] = Append(queue[c], pub[p].event)
      BY <1>5 DEF Send, BusTypeOK
    <3>2. queue[c] \in Seq(Event)
      BY DEF BusTypeOK
    <3>3. EventsIn(Append(queue[c], pub[p].event))
             \subseteq EventsIn(queue[c]) \cup {pub[p].event}
      BY <2>2, <3>2, EventsInChanged
    <3>4. CASE queue'[c] = queue[c]
      BY <1>1, <3>4
    <3>5. CASE queue'[c] = Append(queue[c], pub[p].event)
      <4>1. EventsIn(queue'[c]) = EventsIn(Append(queue[c], pub[p].event))
        BY <3>5
      <4> QED BY <1>1, <2>2, <3>3, <4>1
    <3> QED BY <3>1, <3>4, <3>5
  <2>5. lamport' = lamport /\ heard' = heard
    BY <1>5 DEF Send
  <2> QED BY <1>1, <1>2, <2>3, <2>4, <2>5, NothingElse
<1>6. ASSUME NEW c \in Channels, Take(c), UNCHANGED <<lamport, pub>>
      PROVE  lamport' >= lamport /\ Published' \subseteq Published
  <2>1. /\ queue[c] \in Seq(Event) /\ queue[c] # <<>> /\ heard[c] \in Seq(Event)
        /\ queue' = [queue EXCEPT ![c] = Tail(queue[c])]
        /\ heard' = [heard EXCEPT ![c] = Append(heard[c], Head(queue[c]))]
        /\ lamport' = lamport /\ pub' = pub
    BY <1>6 DEF Take, BusTypeOK
  <2>2. /\ EventsIn(Tail(queue[c])) \subseteq EventsIn(queue[c])
        /\ Head(queue[c]) \in EventsIn(queue[c]) /\ Head(queue[c]) \in Event
    <3>1. Head(queue[c]) \in Event
      BY <2>1, HeadTailProperties
    <3> QED BY <2>1, <3>1, EventsInChanged
  <2>3. EventsIn(Append(heard[c], Head(queue[c])))
           \subseteq EventsIn(heard[c]) \cup {Head(queue[c])}
    BY <2>1, <2>2, EventsInChanged
  <2>4. ASSUME NEW d \in Channels
        PROVE  EventsIn(queue'[d]) \subseteq Published /\ EventsIn(heard'[d]) \subseteq Published
    <3>1. CASE d = c
      <4>1. queue'[d] = Tail(queue[c]) /\ heard'[d] = Append(heard[c], Head(queue[c]))
        BY <2>1, <3>1 DEF BusTypeOK
      <4> QED BY <1>1, <2>2, <2>3, <4>1
    <3>2. CASE d # c
      <4>1. queue'[d] = queue[d] /\ heard'[d] = heard[d]
        BY <2>1, <3>2 DEF BusTypeOK
      <4> QED BY <1>1, <4>1
    <3> QED BY <3>1, <3>2
  <2> QED BY <1>1, <1>2, <2>1, <2>4, NothingElse
<1>7. ASSUME NEW p \in Publishers, NEW remote \in Remotes, Merge(p, remote)
      PROVE  lamport' >= lamport /\ Published' \subseteq Published
  BY <1>2, <1>7, EventBusAssumption DEF Merge, Later, Published
<1>8. ASSUME NEW p \in Publishers, NEW t \in Types, Stamp(p, t) PROVE lamport' >= lamport
  BY <1>2, <1>8 DEF Stamp
<1>9. ASSUME NEW s \in SubIds, NEW c \in Channels, Subscribe(s, c)
      PROVE  UNCHANGED <<lamport, pub, queue, heard>>
  BY <1>9 DEF Subscribe
<1>10. ASSUME NEW s \in SubIds, Unregister(s)
       PROVE  UNCHANGED <<lamport, pub, queue, heard>>
  BY <1>10 DEF Unregister
<1>11. ASSUME NEW c \in Channels, Close(c) PROVE UNCHANGED <<lamport, pub, queue, heard>>
  BY <1>11 DEF Close
<1>12. ASSUME Shutdown PROVE UNCHANGED <<lamport, pub, queue, heard>>
  BY <1>12 DEF Shutdown
<1>13. UNCHANGED busVars => UNCHANGED <<lamport, pub, queue, heard>>
  BY DEF busVars
<1>14. ASSUME NEW p \in Publishers, NEW c \in Channels, Receive(p, c)
       PROVE  lamport' >= lamport /\ Published' \subseteq Published
  BY <1>6, <1>14 DEF Receive
<1>15. ASSUME NEW c \in Channels, Hear(c)
       PROVE  lamport' >= lamport /\ Published' \subseteq Published
  BY <1>6, <1>15 DEF Hear
<1> QED
  BY <1>3, <1>4, <1>5, <1>7, <1>8, <1>9, <1>10, <1>11, <1>12, <1>13, <1>14, <1>15
  DEF BusNext, Publishing

\* Stamp publishes its event.
LEMMA StampPublishes ==
    ASSUME BusTypeOK, NEW p \in Publishers, NEW t \in Types, Stamp(p, t)
    PROVE  Published' \subseteq Published \cup {[seq |-> lamport + 1, from |-> p, type |-> t]}
<1> DEFINE new == [seq |-> lamport + 1, from |-> p, type |-> t]
<1>1. \A q \in Publishers : pub'[q].at # "idle" => pub'[q].event \in Published \cup {new}
  <2>1. pub'[p].event = new /\ \A q \in Publishers : q # p => pub'[q] = pub[q]
    BY DEF Stamp, BusTypeOK
  <2> HIDE DEF new
  <2> QED BY <2>1, PublishedCases
<1>2. queue' = queue /\ heard' = heard
  BY DEF Stamp
<1>3. \A c \in Channels : EventsIn(queue'[c]) \subseteq Published
                          /\ EventsIn(heard'[c]) \subseteq Published
  BY <1>2, PublishedCases
<1> HIDE DEF new
<1>4. Published' \subseteq Published \cup {new}
  BY <1>1, <1>3, NothingElse
<1> QED BY <1>4 DEF new

LEMMA ClockStarts == BusInit => ClockIsAhead /\ UniqueIds
<1> SUFFICES ASSUME BusInit PROVE ClockIsAhead /\ UniqueIds
  OBVIOUS
<1>1. \A p \in Publishers : pub[p].at = "idle" /\ seen[p] = 0
  BY DEF BusInit, NotPublishing
<1>2. \A c \in Channels : EventsIn(queue[c]) = {} /\ EventsIn(heard[c]) = {}
  BY DEF BusInit, EventsIn
<1>3. Published = {}
  BY <1>1, <1>2, PublishedCases
<1>4. lamport = 0
  BY DEF BusInit
<1> QED BY <1>1, <1>3, <1>4 DEF ClockIsAhead, UniqueIds

LEMMA ClockStep ==
    ASSUME BusTypeOK, BusTypeOK', NoPanic, ClockIsAhead, UniqueIds, [BusNext]_busVars
    PROVE  ClockIsAhead' /\ UniqueIds'
<1>1. lamport \in Int /\ lamport' \in Int /\ lamport' >= lamport
  BY OnlyStampPublishes DEF BusTypeOK
<1>2. \A e \in Published : e.seq \in Int
  <2>1. ASSUME NEW p \in Publishers, pub[p].at # "idle" PROVE pub[p].event \in Event
    BY <2>1, PubCases DEF BusTypeOK, Idle, Stamped, Sending
  <2>2. ASSUME NEW c \in Channels
        PROVE  EventsIn(queue[c]) \subseteq Event /\ EventsIn(heard[c]) \subseteq Event
    <3>1. \A s \in Seq(Event) : EventsIn(s) \subseteq Event
      BY LenProperties, ElementOfSeq DEF EventsIn
    <3> QED BY <3>1 DEF BusTypeOK
  <2>3. Published \subseteq Event
    BY <2>1, <2>2, PublishedCases
  <2> QED BY <2>3 DEF Event
<1>3. \A p \in Publishers : seen'[p] <= lamport'
  <2>1. ASSUME NEW p \in Publishers, NEW c \in Channels, Receive(p, c)
        PROVE  \A q \in Publishers : seen'[q] <= lamport'
    <3>1. queue[c] \in Seq(Event) /\ queue[c] # <<>>
      BY <2>1 DEF Receive, Take, BusTypeOK
    <3>2. Head(queue[c]) \in EventsIn(queue[c])
      <4>1. Head(queue[c]) \in Event
        BY <3>1, HeadTailProperties
      <4> QED BY <3>1, <4>1, EventsInChanged
    <3>3. Head(queue[c]) \in Published
      BY <3>2, PublishedCases
    <3>4. Head(queue[c]).seq <= lamport
      BY <3>3 DEF ClockIsAhead
    <3>5. lamport' = lamport /\ seen' = [seen EXCEPT ![p] = Later(seen[p], Head(queue[c]).seq)]
      BY <2>1 DEF Receive
    <3> QED BY <3>4, <3>5 DEF ClockIsAhead, BusTypeOK, Later
  <2>2. ASSUME NEW p \in Publishers, NEW remote \in Remotes, Merge(p, remote)
        PROVE  \A q \in Publishers : seen'[q] <= lamport'
    <3>1. seen' = [seen EXCEPT ![p] = lamport']
      BY <2>2 DEF Merge
    <3>2. \A q \in Publishers : seen[q] \in Int /\ seen[q] <= lamport
      BY DEF ClockIsAhead, BusTypeOK
    <3> QED BY <1>1, <3>1, <3>2 DEF BusTypeOK
  <2>3. CASE UNCHANGED seen
    BY <1>1, <2>3 DEF ClockIsAhead, BusTypeOK
  <2>4. \/ UNCHANGED seen
        \/ \E p \in Publishers, c \in Channels : Receive(p, c)
        \/ \E p \in Publishers, remote \in Remotes : Merge(p, remote)
    BY DEF BusNext, Publishing, busVars, Stamp, Lock, Send, Unlock, Subscribe, Unregister,
           Close, Shutdown, Hear
  <2> QED BY <2>1, <2>2, <2>3, <2>4
<1>4. CASE Published' \subseteq Published
  <2>1. \A e \in Published' : e.seq <= lamport'
    BY <1>1, <1>2, <1>4 DEF ClockIsAhead
  <2>2. UniqueIds'
    BY <1>4 DEF UniqueIds
  <2> QED BY <1>3, <2>1, <2>2 DEF ClockIsAhead
<1>5. ASSUME NEW p \in Publishers, NEW t \in Types, Stamp(p, t)
      PROVE  ClockIsAhead' /\ UniqueIds'
  <2> DEFINE new == [seq |-> lamport + 1, from |-> p, type |-> t]
  <2>4. Published' \subseteq Published \cup {new}
    BY <1>5, StampPublishes
  <2>5. lamport' = lamport + 1 /\ new.seq = lamport + 1
    BY <1>5 DEF Stamp
  <2> HIDE DEF new
  <2>6. \A e \in Published' : e.seq <= lamport' /\ (e.seq = lamport' => e = new)
    BY <1>1, <1>2, <2>4, <2>5 DEF ClockIsAhead
  <2>7. ASSUME NEW e \in Published', NEW f \in Published', e.seq = f.seq PROVE e = f
    <3>1. CASE e.seq = lamport'
      BY <2>6, <2>7, <3>1
    <3>2. CASE e.seq # lamport'
      <4>1. e \in Published /\ f \in Published
        BY <2>4, <2>5, <2>7, <3>2
      <4> QED BY <2>7, <4>1 DEF UniqueIds
    <3> QED BY <3>1, <3>2
  <2>8. UniqueIds'
    BY <2>7 DEF UniqueIds
  <2> QED BY <1>3, <2>6, <2>8 DEF ClockIsAhead
<1> QED BY <1>4, <1>5, OnlyStampPublishes

LEMMA ClockInvariant == BusSpec => [](IInv /\ ClockIsAhead /\ UniqueIds)
<1>1. BusInit => IInv /\ ClockIsAhead /\ UniqueIds
  BY IInvInit, ClockStarts
<1>2. IInv /\ ClockIsAhead /\ UniqueIds /\ [BusNext]_busVars
        => (IInv /\ ClockIsAhead /\ UniqueIds)'
  <2>1. IInv /\ [BusNext]_busVars => IInv'
    BY TypeStep, PanicStep DEF IInv
  <2> QED BY <2>1, ClockStep DEF IInv
<1> QED BY <1>1, <1>2, PTL DEF BusSpec

\* No two events of an instance share a SequenceID, although goroutines that
\* publish and goroutines that merge clocks race on it (bus.go Publish, Merge).
THEOREM BusIdsAreUnique == BusSpec => []UniqueIds
  BY ClockInvariant, PTL

\* What a goroutine publishes is numbered above whatever it has received or
\* merged before (bus.go Publish, Merge).
THEOREM BusIsCausal == BusSpec => CausalOrder
<1>1. IInv /\ ClockIsAhead /\ [BusNext]_busVars
        => [\A p \in Publishers :
               pub[p].at = "idle" /\ pub'[p].at = "stamped" =>
                   pub'[p].event.seq > seen[p]]_busVars
  <2> SUFFICES ASSUME IInv, ClockIsAhead, BusNext, NEW p \in Publishers,
                      pub[p].at = "idle", pub'[p].at = "stamped"
               PROVE  pub'[p].event.seq > seen[p]
    BY DEF IInv
  <2>1. BusTypeOK
    BY DEF IInv
  <2>2. ASSUME NEW q \in Publishers, NEW t \in Types, Stamp(q, t)
        PROVE  pub'[p].event.seq > seen[p]
    <3>1. q = p
      BY <2>1, <2>2 DEF Stamp, BusTypeOK
    <3>2. pub'[p].event.seq = lamport + 1
      BY <2>1, <2>2, <3>1 DEF Stamp, BusTypeOK
    <3> QED BY <2>1, <3>2 DEF ClockIsAhead, BusTypeOK
  <2>3. ASSUME NEW q \in Publishers, Publishing(q) PROVE pub'[p].at # "stamped"
    <3>1. CASE q = p
      BY <2>1, <2>3, <3>1 DEF Publishing, Lock, Send, Unlock, BusTypeOK
    <3>2. CASE q # p
      BY <2>1, <2>3, <3>2 DEF Publishing, Lock, Send, Unlock, BusTypeOK
    <3> QED BY <3>1, <3>2
  <2>4. pub' # pub
    OBVIOUS
  <2> QED
    BY <2>2, <2>3, <2>4
    DEF BusNext, Subscribe, Unregister, Close, Shutdown, Receive, Merge, Hear
<1> QED BY <1>1, ClockInvariant, PTL DEF BusSpec, CausalOrder
-----------------------------------------------------------------------------
\* What a channel has carried: the events read and those still in its buffer.
Stream(c) == heard[c] \o queue[c]

Ordered(s) ==
    \A i, j \in DOMAIN s : i < j /\ s[i].from = s[j].from => s[i].seq < s[j].seq

\* The event of p is still to be sent on c.
Awaits(p, c) ==
    \/ pub[p].at = "stamped"
    \/ pub[p].at = "sending" /\ \E s \in pub[p].left : registry[s] = c

\* An event on its way is newer than what the channels it is to be sent on have
\* carried of its publisher.
NextIsNewest ==
    \A p \in Publishers : pub[p].at # "idle" =>
        /\ pub[p].event.from = p
        /\ \A c \in Channels : Awaits(p, c) =>
              \A e \in EventsIn(Stream(c)) : e.from = p => e.seq < pub[p].event.seq

OrderInv == NextIsNewest /\ \A c \in Channels : Ordered(Stream(c))

LEMMA OrderedStreams == PublisherOrder <=> \A c \in Channels : Ordered(Stream(c))
  BY DEF PublisherOrder, Ordered, Stream

\* Receiving moves an event within its stream, and sending appends to it.
LEMMA StreamMoves ==
    ASSUME NEW h \in Seq(Event), NEW q \in Seq(Event)
    PROVE  /\ q # <<>> => Append(h, Head(q)) \o Tail(q) = h \o q
           /\ \A e \in Event : h \o Append(q, e) = Append(h \o q, e)
           /\ h \o q \in Seq(Event)
           /\ EventsIn(h \o q) \subseteq EventsIn(h) \cup EventsIn(q)
<1>1. ASSUME q # <<>> PROVE Append(h, Head(q)) \o Tail(q) = h \o q
  BY <1>1, SMT
<1>2. ASSUME NEW e \in Event PROVE h \o Append(q, e) = Append(h \o q, e)
  BY SMT
<1>3. /\ h \o q \in Seq(Event) /\ Len(h \o q) = Len(h) + Len(q)
      /\ \A i \in 1 .. Len(h) + Len(q) :
            (h \o q)[i] = IF i <= Len(h) THEN h[i] ELSE q[i - Len(h)]
  BY ConcatProperties
<1>4. /\ DOMAIN h = 1 .. Len(h) /\ DOMAIN q = 1 .. Len(q)
      /\ DOMAIN (h \o q) = 1 .. (Len(h) + Len(q))
      /\ Len(h) \in Nat /\ Len(q) \in Nat
  BY <1>3, LenProperties
<1>5. ASSUME NEW i \in 1 .. (Len(h) + Len(q))
      PROVE  (h \o q)[i] \in EventsIn(h) \cup EventsIn(q)
  <2>1. CASE i <= Len(h)
    BY <1>3, <1>4, <2>1 DEF EventsIn
  <2>2. CASE ~(i <= Len(h))
    <3>1. i - Len(h) \in 1 .. Len(q) /\ (h \o q)[i] = q[i - Len(h)]
      BY <1>3, <1>4, <2>2
    <3> QED BY <1>4, <3>1 DEF EventsIn
  <2> QED BY <2>1, <2>2
<1>6. EventsIn(h \o q) \subseteq EventsIn(h) \cup EventsIn(q)
  BY <1>4, <1>5 DEF EventsIn
<1> QED BY <1>1, <1>2, <1>3, <1>6

\* An event newer than those of its publisher may follow them.
LEMMA NewestMayFollow ==
    ASSUME NEW s \in Seq(Event), NEW e \in Event, Ordered(s),
           \A f \in EventsIn(s) : f.from = e.from => f.seq < e.seq
    PROVE  Ordered(Append(s, e))
<1>1. /\ Append(s, e) \in Seq(Event) /\ Len(Append(s, e)) = Len(s) + 1
      /\ \A i \in 1 .. Len(s) : Append(s, e)[i] = s[i]
      /\ Append(s, e)[Len(s) + 1] = e
  BY AppendProperties
<1>2. DOMAIN s = 1 .. Len(s) /\ Len(s) \in Nat /\ DOMAIN Append(s, e) = 1 .. (Len(s) + 1)
  BY <1>1, LenProperties
<1>3. ASSUME NEW i \in 1 .. (Len(s) + 1), NEW j \in 1 .. (Len(s) + 1), i < j,
             Append(s, e)[i].from = Append(s, e)[j].from
      PROVE  Append(s, e)[i].seq < Append(s, e)[j].seq
  <2>1. i \in 1 .. Len(s) /\ Append(s, e)[i] = s[i] /\ s[i] \in EventsIn(s)
    BY <1>1, <1>2, <1>3 DEF EventsIn
  <2>2. CASE j = Len(s) + 1
    BY <1>1, <1>3, <2>1, <2>2
  <2>3. CASE j \in 1 .. Len(s)
    BY <1>1, <1>2, <1>3, <2>1, <2>3 DEF Ordered
  <2> QED BY <1>2, <2>2, <2>3
<1> QED BY <1>2, <1>3 DEF Ordered

LEMMA OrderStarts == BusInit => OrderInv
<1> SUFFICES ASSUME BusInit PROVE OrderInv
  OBVIOUS
<1>1. \A p \in Publishers : pub[p].at = "idle"
  BY DEF BusInit, NotPublishing
<1>2. \A c \in Channels : Stream(c) = <<>>
  <2>1. <<>> \in Seq(Event) /\ <<>> \o <<>> = <<>>
    BY EmptySeq, ConcatEmptySeq
  <2> QED BY <2>1 DEF BusInit, Stream
<1>3. Ordered(<<>>)
  BY DEF Ordered
<1> QED BY <1>1, <1>2, <1>3 DEF OrderInv, NextIsNewest

\* A step that leaves the streams alone, gives nobody an event and makes no
\* event wait for another channel.
LEMMA QuietStep ==
    ASSUME OrderInv,
           \A c \in Channels : heard'[c] \o queue'[c] = heard[c] \o queue[c],
           \A p \in Publishers : pub'[p].at # "idle" =>
               /\ pub[p].at # "idle" /\ pub'[p].event = pub[p].event
               /\ \A c \in Channels : Awaits(p, c)' => Awaits(p, c)
    PROVE  OrderInv'
<1>1. \A c \in Channels : Stream(c)' = Stream(c)
  BY DEF Stream
<1>2. \A c \in Channels : Ordered(Stream(c))'
  BY <1>1 DEF OrderInv, Ordered
<1>3. ASSUME NEW p \in Publishers, pub'[p].at # "idle"
      PROVE  /\ pub'[p].event.from = p
             /\ \A c \in Channels : Awaits(p, c)' =>
                   \A e \in EventsIn(Stream(c)') : e.from = p => e.seq < pub'[p].event.seq
  BY <1>1, <1>3 DEF OrderInv, NextIsNewest
<1>4. NextIsNewest'
  BY <1>3 DEF NextIsNewest, EventsIn
<1> QED BY <1>2, <1>4 DEF OrderInv

\* A stamp is above everything published before.
LEMMA StampKeepsOrder ==
    ASSUME IInv, BusTypeOK', ClockIsAhead, OrderInv,
           NEW p \in Publishers, NEW t \in Types, Stamp(p, t)
    PROVE  OrderInv'
<1>1. heard' = heard /\ queue' = queue /\ registry' = registry
  BY DEF Stamp
<1>2. \A c \in Channels : Stream(c)' = Stream(c)
  BY <1>1 DEF Stream
<1>3. \A c \in Channels : Ordered(Stream(c))'
  BY <1>2 DEF OrderInv, Ordered
<1>4. /\ pub'[p].event.from = p /\ pub'[p].event.seq = lamport + 1
      /\ \A q \in Publishers : q # p => pub'[q] = pub[q]
  BY DEF Stamp, IInv, BusTypeOK
<1>5. ASSUME NEW c \in Channels, NEW e \in EventsIn(Stream(c)) PROVE e.seq < lamport + 1
  <2>1. e \in EventsIn(heard[c]) \cup EventsIn(queue[c])
    BY StreamMoves DEF IInv, BusTypeOK, Stream
  <2>2. e \in Published
    BY <2>1, PublishedCases
  <2>3. e \in Event
    <3>1. Stream(c) \in Seq(Event)
      BY StreamMoves DEF IInv, BusTypeOK, Stream
    <3> QED BY <3>1, LenProperties, ElementOfSeq DEF EventsIn
  <2> QED BY <2>2, <2>3 DEF ClockIsAhead, Event, IInv, BusTypeOK
<1>6. ASSUME NEW q \in Publishers, pub'[q].at # "idle"
      PROVE  /\ pub'[q].event.from = q
             /\ \A c \in Channels : Awaits(q, c)' =>
                   \A e \in EventsIn(Stream(c)) : e.from = q => e.seq < pub'[q].event.seq
  <2>1. CASE q = p
    BY <1>4, <1>5, <2>1
  <2>2. CASE q # p
    BY <1>1, <1>4, <1>6, <2>2 DEF OrderInv, NextIsNewest, Awaits
  <2> QED BY <2>1, <2>2
<1>7. NextIsNewest'
  BY <1>2, <1>6 DEF NextIsNewest, EventsIn
<1> QED BY <1>3, <1>7 DEF OrderInv

\* A send appends an event newer than those of its publisher, or drops it.
LEMMA SendKeepsOrder ==
    ASSUME IInv, OrderInv, NEW p \in Publishers, NEW s \in SubIds, Send(p, s)
    PROVE  OrderInv'
<1>1. pub[p].at = "sending" /\ s \in pub[p].left /\ pub[p] \in Sending
  BY PubCases DEF Send, IInv
<1>2. PICK b \in Channels : b = registry[s] /\ b # NoChan
  BY <1>1 DEF IInv, BusTypeOK, NoPanic
<1>3. PICK e \in Event : e = pub[p].event /\ e.from = p
  BY <1>1 DEF Sending, OrderInv, NextIsNewest
<1>4. heard' = heard /\ registry' = registry
  BY DEF Send
<1>5. /\ \A q \in Publishers : q # p => pub'[q] = pub[q]
      /\ pub'[p].at = "sending" /\ pub'[p].event = e /\ pub'[p].left = pub[p].left \ {s}
  <2>1. pub' = [pub EXCEPT ![p] = [pub[p] EXCEPT !.left = pub[p].left \ {s}]]
    BY DEF Send
  <2> QED BY <1>1, <1>3, <2>1, Zenon DEF IInv, BusTypeOK, Sending
<1>6. /\ queue'[b] = Append(queue[b], e) \/ queue'[b] = queue[b]
      /\ \A c \in Channels : c # b => queue'[c] = queue[c]
  BY <1>2, <1>3 DEF Send, IInv, BusTypeOK
<1>7. \A c \in Channels : c # b => Stream(c)' = Stream(c)
  BY <1>4, <1>6 DEF Stream
<1>8. Stream(b) \in Seq(Event)
  BY <1>2, <1>3, StreamMoves DEF IInv, BusTypeOK, Stream
<1>9. Stream(b)' = Append(Stream(b), e) \/ Stream(b)' = Stream(b)
  <2>1. heard[b] \in Seq(Event) /\ queue[b] \in Seq(Event)
    BY <1>2 DEF IInv, BusTypeOK
  <2>2. heard[b] \o Append(queue[b], e) = Append(heard[b] \o queue[b], e)
    BY <1>3, <2>1, StreamMoves
  <2> QED BY <1>4, <1>6, <2>2 DEF Stream
<1>10. Ordered(Append(Stream(b), e))
  <2>1. Ordered(Stream(b))
    BY <1>2 DEF OrderInv
  <2>2. Awaits(p, b)
    BY <1>1, <1>2 DEF Awaits
  <2>3. \A f \in EventsIn(Stream(b)) : f.from = e.from => f.seq < e.seq
    BY <1>1, <1>2, <1>3, <2>2 DEF OrderInv, NextIsNewest
  <2> QED BY <1>3, <1>8, <2>1, <2>3, NewestMayFollow
<1>11. \A c \in Channels : Ordered(Stream(c)')
  <2>1. ASSUME NEW c \in Channels, c # b PROVE Ordered(Stream(c)')
    BY <1>7, <2>1 DEF OrderInv
  <2>2. Ordered(Stream(b)')
    BY <1>2, <1>9, <1>10 DEF OrderInv
  <2> QED BY <2>1, <2>2
<1>12. EventsIn(Stream(b)') \subseteq EventsIn(Stream(b)) \cup {e}
  BY <1>3, <1>8, <1>9, EventsInChanged
<1>13. ASSUME NEW q \in Publishers, pub'[q].at # "idle"
       PROVE  /\ pub'[q].event.from = q
              /\ \A c \in Channels : Awaits(q, c)' =>
                    \A f \in EventsIn(Stream(c)') : f.from = q => f.seq < pub'[q].event.seq
  <2>1. CASE q = p
    <3>1. ASSUME NEW c \in Channels, Awaits(p, c)' PROVE c # b /\ Awaits(p, c)
      <4>1. PICK r \in pub[p].left \ {s} : registry[r] = c
        BY <1>4, <1>5, <3>1 DEF Awaits
      <4>2. r \in SubIds
        BY <1>1, <4>1 DEF Sending
      <4>3. registry[r] # b
        BY <1>2, <4>1, <4>2 DEF IInv, OneIdPerChannel
      <4> QED BY <1>1, <4>1, <4>3 DEF Awaits
    <3> QED BY <1>1, <1>3, <1>5, <1>7, <2>1, <3>1 DEF OrderInv, NextIsNewest
  <2>2. CASE q # p
    <3>1. pub'[q] = pub[q]
      BY <1>5, <2>2
    <3>2. pub[q].at # "idle" /\ pub[q].event.from = q
      BY <1>13, <3>1 DEF OrderInv, NextIsNewest
    <3>3. ASSUME NEW c \in Channels, Awaits(q, c)', NEW f \in EventsIn(Stream(c)'), f.from = q
          PROVE  f.seq < pub[q].event.seq
      <4>1. Awaits(q, c)
        BY <1>4, <3>1, <3>3 DEF Awaits
      <4>2. f \in EventsIn(Stream(c))
        <5>1. CASE c = b
          BY <1>3, <1>12, <2>2, <3>3, <5>1
        <5>2. CASE c # b
          BY <1>7, <3>3, <5>2
        <5> QED BY <5>1, <5>2
      <4> QED BY <3>2, <3>3, <4>1, <4>2 DEF OrderInv, NextIsNewest
    <3> QED BY <3>1, <3>2, <3>3
  <2> QED BY <2>1, <2>2
<1>14. NextIsNewest'
  BY <1>13 DEF NextIsNewest, EventsIn
<1> QED BY <1>11, <1>14 DEF OrderInv, Ordered

LEMMA OrderStep ==
    ASSUME IInv, IInv', ClockIsAhead, OrderInv, [BusNext]_busVars
    PROVE  OrderInv'
<1>1. \A p \in Publishers : pub[p] \in Idle \cup Stamped \cup Sending
  BY DEF IInv, BusTypeOK
<1>2. ASSUME UNCHANGED <<heard, queue, pub, registry>> PROVE OrderInv'
  BY <1>2, QuietStep DEF Awaits
<1>3. ASSUME NEW p \in Publishers, Lock(p) PROVE OrderInv'
  <2>1. heard' = heard /\ queue' = queue /\ registry' = registry
    BY <1>3 DEF Lock
  <2>2. /\ \A q \in Publishers : q # p => pub'[q] = pub[q]
        /\ pub[p].at = "stamped" /\ pub'[p].event = pub[p].event
    BY <1>3 DEF Lock, IInv, BusTypeOK
  <2> QED BY <2>1, <2>2, QuietStep DEF Awaits
<1>4. ASSUME NEW p \in Publishers, Unlock(p) PROVE OrderInv'
  <2>1. heard' = heard /\ queue' = queue /\ registry' = registry
    BY <1>4 DEF Unlock
  <2>2. /\ \A q \in Publishers : q # p => pub'[q] = pub[q]
        /\ pub'[p].at = "idle"
    BY <1>4 DEF Unlock, IInv, BusTypeOK, NotPublishing
  <2> QED BY <2>1, <2>2, QuietStep DEF Awaits
<1>5. ASSUME Unlocked, UNCHANGED <<heard, queue, pub>> PROVE OrderInv'
  BY <1>5, QuietStep DEF Awaits, Unlocked
<1>6. ASSUME NEW c \in Channels, Take(c), UNCHANGED <<pub, registry>> PROVE OrderInv'
  <2>1. /\ queue[c] # <<>> /\ queue[c] \in Seq(Event) /\ heard[c] \in Seq(Event)
        /\ queue'[c] = Tail(queue[c]) /\ heard'[c] = Append(heard[c], Head(queue[c]))
        /\ \A d \in Channels : d # c => queue'[d] = queue[d] /\ heard'[d] = heard[d]
    BY <1>6 DEF Take, IInv, BusTypeOK
  <2>2. Append(heard[c], Head(queue[c])) \o Tail(queue[c]) = heard[c] \o queue[c]
    BY <2>1, StreamMoves
  <2>3. \A d \in Channels : heard'[d] \o queue'[d] = heard[d] \o queue[d]
    <3>1. heard'[c] \o queue'[c] = heard[c] \o queue[c]
      BY <2>1, <2>2, Zenon
    <3> QED BY <2>1, <3>1, Zenon
  <2> QED BY <1>6, <2>3, QuietStep DEF Awaits
<1>7. ASSUME NEW s \in SubIds, NEW c \in Channels, Subscribe(s, c) PROVE OrderInv'
  BY <1>5, <1>7 DEF Subscribe
<1>8. ASSUME NEW s \in SubIds, Unregister(s) PROVE OrderInv'
  BY <1>5, <1>8 DEF Unregister
<1>9. ASSUME NEW c \in Channels, Close(c) PROVE OrderInv'
  BY <1>2, <1>9 DEF Close
<1>10. ASSUME Shutdown PROVE OrderInv'
  BY <1>5, <1>10 DEF Shutdown
<1>11. ASSUME NEW p \in Publishers, NEW remote \in Remotes, Merge(p, remote) PROVE OrderInv'
  BY <1>2, <1>11 DEF Merge
<1>12. ASSUME UNCHANGED busVars PROVE OrderInv'
  BY <1>2, <1>12 DEF busVars
<1>13. ASSUME NEW p \in Publishers, NEW t \in Types, Stamp(p, t) PROVE OrderInv'
  BY <1>13, StampKeepsOrder DEF IInv
<1>14. ASSUME NEW p \in Publishers, NEW s \in SubIds, Send(p, s) PROVE OrderInv'
  BY <1>14, SendKeepsOrder
<1>15. ASSUME NEW p \in Publishers, NEW c \in Channels, Receive(p, c) PROVE OrderInv'
  BY <1>6, <1>15 DEF Receive
<1>16. ASSUME NEW c \in Channels, Hear(c) PROVE OrderInv'
  BY <1>6, <1>16 DEF Hear
<1> QED
  BY <1>3, <1>4, <1>7, <1>8, <1>9, <1>10, <1>11, <1>12, <1>13, <1>14, <1>15, <1>16
  DEF BusNext, Publishing

\* All of it together.
BusInv == IInv /\ ClockIsAhead /\ UniqueIds /\ OrderInv

LEMMA BusInvariant == BusSpec => []BusInv
<1>1. BusInit => BusInv
  BY IInvInit, ClockStarts, OrderStarts DEF BusInv
<1>2. BusInv /\ [BusNext]_busVars => BusInv'
  <2>1. IInv /\ [BusNext]_busVars => IInv'
    BY TypeStep, PanicStep DEF IInv
  <2> QED BY <2>1, ClockStep, OrderStep DEF IInv, BusInv
<1> QED BY <1>1, <1>2, PTL DEF BusSpec

\* A subscriber hears each publisher in order, whoever publishes meanwhile and
\* whatever full channels drop (bus.go Publish, Subscribe, Unsubscribe).
THEOREM BusKeepsOrder == BusSpec => []PublisherOrder
<1>1. BusInv => PublisherOrder
  BY OrderedStreams DEF BusInv, OrderInv
<1> QED BY <1>1, BusInvariant, PTL
=============================================================================
