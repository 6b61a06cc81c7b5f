--------------------------- MODULE LateJoinProofs ---------------------------
(***************************************************************************)
(* The ring of recent events holds exactly the last Capacity events and    *)
(* replays those a client has not seen; and a dashboard that reconnects as *)
(* often as it likes receives no event twice and each publisher in order,  *)
(* for every number of publishers, channels, connections and slots.        *)
(***************************************************************************)
EXTENDS LateJoin, EventBusProofs, WellFoundedInduction, NaturalsInduction, TLAPS

\* The buffer has a slot.
LEMMA CapacityIsPositive == Capacity \in Nat /\ Capacity > 0
BY RingAssumption

\* The index arithmetic wraps around at most once.
LEMMA WrapOnce ==
    ASSUME NEW x \in Nat, x < Capacity + Capacity
    PROVE  x % Capacity = IF x < Capacity THEN x ELSE x - Capacity
<1> USE CapacityIsPositive
<1>1. CASE x < Capacity
  BY <1>1, SMTT(20)
<1>2. CASE x >= Capacity
  <2> DEFINE y == x - Capacity
  <2>1. y \in 0..(Capacity - 1) /\ x = y + Capacity * 1
    BY <1>2
  <2> QED
    BY <1>2, <2>1, Z3T(20)
<1> QED
  BY <1>1, <1>2

\* The slot written i pushes ago, when the next one goes to slot h.
Back(h, i) == IF i <= h THEN h - i ELSE h - i + Capacity

\* The newest entry is in the slot that the head has just left.
LEMMA BackFirst ==
    ASSUME NEW h \in 0..(Capacity - 1), NEW next \in Nat,
           next = IF h + 1 < Capacity THEN h + 1 ELSE 0
    PROVE  Back(next, 1) = h
<1> USE CapacityIsPositive
<1>1. CASE h + 1 < Capacity
  BY <1>1 DEF Back
<1>2. CASE ~(h + 1 < Capacity)
  BY <1>2 DEF Back
<1> QED
  BY <1>1, <1>2

\* When the head moves on by one, a slot is one push further back.
LEMMA BackStep ==
    ASSUME NEW h \in 0..(Capacity - 1), NEW i \in 2..Capacity, NEW next \in Nat,
           next = IF h + 1 < Capacity THEN h + 1 ELSE 0
    PROVE  /\ Back(next, i) = Back(h, i - 1)
           /\ Back(h, i - 1) \in 0..(Capacity - 1)
           /\ Back(h, i - 1) # h
<1> USE CapacityIsPositive
<1>1. CASE h + 1 < Capacity
  <2>1. next = h + 1 /\ h \in Nat /\ i \in Nat
    BY <1>1
  <2>2. CASE i - 1 <= h
    BY <2>1, <2>2 DEF Back
  <2>3. CASE ~(i - 1 <= h)
    BY <1>1, <2>1, <2>3 DEF Back
  <2> QED
    BY <2>2, <2>3
<1>2. CASE ~(h + 1 < Capacity)
  <2>1. next = 0 /\ h = Capacity - 1 /\ i \in Nat
    BY <1>2
  <2> QED
    BY <2>1 DEF Back
<1> QED
  BY <1>1, <1>2

\* The inductive invariant: counting backwards from the head, the slots hold
\* the last events that were pushed.
RInv ==
    /\ RingTypeOK
    /\ ring.count = IF Len(pushed) < Capacity THEN Len(pushed) ELSE Capacity
    /\ ring.count < Capacity => ring.head = ring.count
    /\ \A i \in 1..ring.count :
          ring.buf[Back(ring.head, i)] = pushed[Len(pushed) + 1 - i]

\* The empty buffer.
LEMMA RInvInit == RingInit => RInv
BY RingAssumption, EmptySeq DEF RingInit, RInv, RingTypeOK, Slots

\* A push writes one slot, and none of the last Capacity - 1 slots.
LEMMA RInvStep == RInv /\ [RingNext]_ringVars => RInv'
<1> SUFFICES ASSUME RInv, [RingNext]_ringVars PROVE RInv'
  OBVIOUS
<1> USE CapacityIsPositive
<1>1. ASSUME NEW e \in Entries, Push(e) PROVE RInv'
  <2> DEFINE h == ring.head
             n == Len(pushed)
  <2>1. /\ h \in Slots /\ ring.count \in 0..Capacity
        /\ pushed \in Seq(Entries) /\ n \in Nat
        /\ ring.buf \in [Slots -> Entries \cup {NoEvent}]
    BY LenProperties DEF RInv, RingTypeOK
  <2>2. /\ ring'.buf = [ring.buf EXCEPT ![h] = e]
        /\ ring'.head = (h + 1) % Capacity
        /\ ring'.count = IF ring.count < Capacity THEN ring.count + 1 ELSE ring.count
        /\ pushed' = Append(pushed, e)
    BY <1>1 DEF Push, Put
  <2>3. ring'.head = IF h + 1 < Capacity THEN h + 1 ELSE 0
    <3>1. h \in Nat /\ h + 1 < Capacity + Capacity /\ h + 1 <= Capacity
      BY <2>1 DEF Slots
    <3>2. (h + 1) % Capacity = IF h + 1 < Capacity THEN h + 1 ELSE h + 1 - Capacity
      BY <3>1, WrapOnce
    <3> QED
      BY <2>2, <3>1, <3>2
  <2>4. /\ pushed' \in Seq(Entries)
        /\ Len(pushed') = n + 1
        /\ \A i \in 1..n : pushed'[i] = pushed[i]
        /\ pushed'[n + 1] = e
    BY <2>1, <2>2, AppendProperties
  <2>5. RingTypeOK'
    BY <2>1, <2>2, <2>3, <2>4 DEF RingTypeOK, Slots
  <2>6. ring'.count = IF Len(pushed') < Capacity THEN Len(pushed') ELSE Capacity
    BY <2>1, <2>2, <2>4 DEF RInv
  <2>7. ring'.count < Capacity => ring'.head = ring'.count
    BY <2>1, <2>2, <2>3 DEF RInv, Slots
  <2>8. ASSUME NEW i \in 1..ring'.count
        PROVE  ring'.buf[Back(ring'.head, i)] = pushed'[Len(pushed') + 1 - i]
    <3>1. CASE i = 1
      <4>1. Back(ring'.head, i) = h
        <5>1. h \in 0..(Capacity - 1) /\ ring'.head \in Nat
          BY <2>1, <2>3 DEF Slots
        <5> QED
          BY <2>3, <3>1, <5>1, BackFirst
      <4> QED
        BY <2>1, <2>2, <2>4, <3>1, <4>1
    <3>2. CASE i # 1
      <4>1. i - 1 \in 1..ring.count /\ i - 1 < Capacity
        BY <2>1, <2>2, <3>2
      <4>2. /\ Back(ring'.head, i) = Back(h, i - 1)
            /\ Back(h, i - 1) \in Slots \ {h}
        <5>1. h \in 0..(Capacity - 1) /\ ring'.head \in Nat
          BY <2>1, <2>3 DEF Slots
        <5>2. i \in 2..Capacity
          BY <2>1, <3>2, <4>1
        <5> QED
          BY <2>3, <5>1, <5>2, BackStep DEF Slots
      <4>3. ring'.buf[Back(ring'.head, i)] = ring.buf[Back(h, i - 1)]
        BY <2>1, <2>2, <4>2
      <4>4. ring.buf[Back(h, i - 1)] = pushed[n + 1 - (i - 1)]
        BY <4>1 DEF RInv
      <4>5. n + 1 - (i - 1) \in 1..n /\ Len(pushed') + 1 - i = n + 1 - (i - 1)
        BY <2>1, <2>4, <4>1 DEF RInv
      <4> QED
        BY <2>4, <4>3, <4>4, <4>5
    <3> QED
      BY <3>1, <3>2
  <2> QED
    BY <2>5, <2>6, <2>7, <2>8 DEF RInv
<1>2. CASE UNCHANGED ringVars
  BY <1>2 DEF RInv, RingTypeOK, ringVars
<1> QED
  BY <1>1, <1>2 DEF RingNext

\* What the invariant says of Snapshot.
LEMMA RInvHoldsRecent == RInv => HoldsRecent
<1> SUFFICES ASSUME RInv PROVE HoldsRecent
  OBVIOUS
<1> USE CapacityIsPositive
<1> DEFINE h == ring.head
           n == Len(pushed)
           k == ring.count
<1>1. /\ h \in Slots /\ k \in 0..Capacity /\ pushed \in Seq(Entries) /\ n \in Nat
      /\ k <= n
  BY LenProperties DEF RInv, RingTypeOK
<1>2. ASSUME NEW i \in 1..k
      PROVE  ring.buf[(Oldest(ring) + i - 1) % Capacity] = pushed[n - k + i]
  <2>1. (Oldest(ring) + i - 1) % Capacity = Back(h, k + 1 - i)
    <3>1. CASE k < Capacity
      <4>1. Oldest(ring) + i - 1 = i - 1 /\ i - 1 \in Nat /\ i - 1 < Capacity
        BY <1>1, <3>1 DEF Oldest
      <4>2. (i - 1) % Capacity = i - 1
        BY <4>1, WrapOnce
      <4> QED
        BY <1>1, <3>1, <4>1, <4>2 DEF RInv, Back
    <3>2. CASE k = Capacity
      <4>1. Oldest(ring) + i - 1 = h + i - 1
        BY <1>1, <3>2 DEF Oldest
      <4>2. h \in Nat /\ i \in Nat \ {0} /\ h + i - 1 < Capacity + Capacity
        BY <1>1, <3>2 DEF Slots
      <4>3. (h + i - 1) % Capacity
              = IF h + i - 1 < Capacity THEN h + i - 1 ELSE h + i - 1 - Capacity
        BY <4>2, WrapOnce
      <4> QED
        BY <1>1, <3>2, <4>1, <4>3 DEF Back, Slots
    <3> QED
      BY <1>1, <3>1, <3>2
  <2>2. k + 1 - i \in 1..k /\ n + 1 - (k + 1 - i) = n - k + i
    BY <1>1
  <2> QED
    BY <2>1, <2>2 DEF RInv
<1>3. Snapshot(ring) = [i \in 1..k |-> pushed[n - k + i]]
  BY <1>2 DEF Snapshot
<1>4. Recent = SubSeq(pushed, n - k + 1, n)
  BY DEF Recent, RInv
<1>5. SubSeq(pushed, n - k + 1, n) = [i \in 1..k |-> pushed[n - k + i]]
  BY SMTT(30), <1>1, SubSeqProperties
<1> QED
  BY <1>3, <1>4, <1>5 DEF HoldsRecent

\* The indices of the ring never leave the buffer (ringbuffer.go Push).
THEOREM RingTypeCorrect == RingSpec => []RingTypeOK
<1>1. RInv => RingTypeOK
  BY DEF RInv
<1> QED
  BY RInvInit, RInvStep, <1>1, PTL DEF RingSpec

\* Snapshot returns exactly the last Capacity events in the order in which they
\* were pushed (ringbuffer.go Push, Snapshot, oldestIndex).
THEOREM RingHoldsRecent == RingSpec => []HoldsRecent
BY RInvInit, RInvStep, RInvHoldsRecent, PTL DEF RingSpec
-----------------------------------------------------------------------------
(* Induction, and the loop of Replay *)

\* A non-empty set of natural numbers has a least element.
LEMMA LeastOf ==
    ASSUME NEW T \in SUBSET Nat, T # {}
    PROVE  \E x \in T : \A y \in T : x <= y
<1>1. IsWellFoundedOn({ss \in Nat \X Nat : ss[1] < ss[2]}, Nat)
  BY NatLessThanWellFounded DEF OpToRel
<1>2. PICK x \in T : \A y \in T : ~(<<y, x>> \in {ss \in Nat \X Nat : ss[1] < ss[2]})
  BY <1>1, WFMin
<1>3. ASSUME NEW y \in T PROVE x <= y
  <2>1. ~(y < x)
    BY <1>2
  <2> QED
    BY <2>1
<1> QED
  BY <1>3

\* What is true of 0, and of a number when it is of the one before, is true of all.
LEMMA UpTo ==
    ASSUME NEW n \in Nat, NEW T, 0 \in T, \A i \in 0 .. n - 1 : i \in T => i + 1 \in T
    PROVE  0 .. n \subseteq T
<1> DEFINE Rest == (0 .. n) \ T
<1> SUFFICES ASSUME Rest # {} PROVE FALSE
  OBVIOUS
<1>1. PICK x \in Rest : \A y \in Rest : x <= y
  <2>1. Rest \in SUBSET Nat
    OBVIOUS
  <2> HIDE DEF Rest
  <2> QED
    BY <2>1, LeastOf
<1>2. x # 0 /\ x - 1 \in 0 .. n - 1 /\ x - 1 \notin Rest
  BY <1>1
<1> QED
  BY <1>2

\* The rows of a loop over a sequence that keeps the events beyond past.
Rows(buf, past, n, result) ==
    result = [i \in 0 .. n |->
                IF i = 0 THEN <<>>
                ELSE IF buf[i].seq > past THEN Append(result[i - 1], buf[i])
                ELSE result[i - 1]]

\* The loop has rows
LEMMA RowsExist ==
    ASSUME NEW buf, NEW past, NEW n \in Nat
    PROVE  \E result : Rows(buf, past, n, result)
<1> DEFINE T == {m \in Nat : \E result : Rows(buf, past, m, result)}
<1>1. 0 \in T
  <2> DEFINE r == [i \in 0 .. 0 |-> <<>>]
  <2>1. Rows(buf, past, 0, r)
    BY DEF Rows
  <2> HIDE DEF r
  <2> QED
    BY <2>1
<1>2. ASSUME NEW m \in 0 .. n - 1, m \in T PROVE m + 1 \in T
  <2>1. PICK g : Rows(buf, past, m, g)
    BY <1>2
  <2> DEFINE next == IF buf[m + 1].seq > past THEN Append(g[m], buf[m + 1]) ELSE g[m]
             h == [i \in 0 .. m + 1 |-> IF i = m + 1 THEN next ELSE g[i]]
  <2>2. \A i \in 0 .. m : g[i] = IF i = 0 THEN <<>>
                ELSE IF buf[i].seq > past THEN Append(g[i - 1], buf[i])
                ELSE g[i - 1]
    BY <2>1 DEF Rows
  <2>3. ASSUME NEW i \in 0 .. m + 1
        PROVE  h[i] = IF i = 0 THEN <<>>
                ELSE IF buf[i].seq > past THEN Append(h[i - 1], buf[i])
                ELSE h[i - 1]
    <3>1. CASE i = m + 1
      <4>1. h[i - 1] = g[m] /\ i # 0 /\ h[i] = next
        BY <3>1
      <4> QED
        BY <3>1, <4>1
    <3>2. CASE i \in 0 .. m
      <4>1. h[i] = g[i] /\ (i # 0 => h[i - 1] = g[i - 1])
        BY <3>2
      <4> QED
        BY <2>2, <3>2, <4>1
    <3> QED
      BY <3>1, <3>2
  <2>4. Rows(buf, past, m + 1, h)
    <3>1. h = [i \in 0 .. m + 1 |-> h[i]]
      OBVIOUS
    <3> HIDE DEF h
    <3> QED
      BY <2>3, <3>1, Zenon DEF Rows
  <2> HIDE DEF h
  <2> QED
    BY <2>4
<1> HIDE DEF T
<1>3. 0 .. n \subseteq T
  BY <1>1, <1>2, UpTo
<1> QED
  BY <1>3 DEF T

LEMMA ReplayRows ==
    ASSUME NEW r, r.count \in Nat, NEW past
    PROVE  \E result : /\ Rows(Snapshot(r), past, r.count, result)
                       /\ Replay(r, past) = result[r.count]
<1>1. \E result : Rows(Snapshot(r), past, r.count, result)
  BY RowsExist
<1> DEFINE result == CHOOSE g : Rows(Snapshot(r), past, r.count, g)
<1>2. Rows(Snapshot(r), past, r.count, result)
  BY <1>1, Zenon
<1>3. Replay(r, past) = result[r.count]
  BY Zenon DEF Replay, Rows
<1> QED
  BY <1>2, <1>3

\* t lists the first n entries of buf that are beyond past, in their order.
Picks(buf, n, past, t) ==
    \E at \in [1 .. Len(t) -> {i \in 1 .. n : buf[i].seq > past}] :
        /\ \A m \in {i \in 1 .. n : buf[i].seq > past} : \E j \in 1 .. Len(t) : at[j] = m
        /\ \A j, k \in 1 .. Len(t) : j < k => at[j] < at[k]
        /\ \A j \in 1 .. Len(t) : t[j] = buf[at[j]]

\* An entry that is passed over, and one that is appended.
LEMMA PicksSkip ==
    ASSUME NEW buf, NEW n \in Nat, NEW past, NEW t,
           Picks(buf, n, past, t), ~(buf[n + 1].seq > past)
    PROVE  Picks(buf, n + 1, past, t)
<1>1. {i \in 1 .. n + 1 : buf[i].seq > past} = {i \in 1 .. n : buf[i].seq > past}
  OBVIOUS
<1> QED
  BY <1>1 DEF Picks

LEMMA PicksTake ==
    ASSUME NEW S, NEW buf, NEW n \in Nat, NEW past, NEW t \in Seq(S), buf[n + 1] \in S,
           Picks(buf, n, past, t), buf[n + 1].seq > past
    PROVE  Picks(buf, n + 1, past, Append(t, buf[n + 1]))
<1> DEFINE Old == {i \in 1 .. n : buf[i].seq > past}
           New == {i \in 1 .. n + 1 : buf[i].seq > past}
           last == Len(t) + 1
           u == Append(t, buf[n + 1])
<1>1. New = Old \cup {n + 1} /\ n + 1 \notin Old /\ Old \subseteq 1 .. n
  OBVIOUS
<1>2. /\ Len(t) \in Nat /\ Len(u) = last
      /\ \A j \in 1 .. Len(t) : u[j] = t[j]
      /\ u[last] = buf[n + 1]
  BY AppendProperties, LenProperties
<1>3. PICK at \in [1 .. Len(t) -> Old] :
         /\ \A m \in Old : \E j \in 1 .. Len(t) : at[j] = m
         /\ \A j, k \in 1 .. Len(t) : j < k => at[j] < at[k]
         /\ \A j \in 1 .. Len(t) : t[j] = buf[at[j]]
  BY DEF Picks
<1> DEFINE more == [j \in 1 .. last |-> IF j = last THEN n + 1 ELSE at[j]]
<1> HIDE DEF Old, New, u
<1>4. more \in [1 .. last -> New]
  BY <1>1, <1>2
<1>5. /\ more[last] = n + 1
      /\ \A j \in 1 .. Len(t) : more[j] = at[j] /\ at[j] \in 1 .. n
  <2>1. last \in 1 .. last
    BY <1>2
  <2>2. ASSUME NEW j \in 1 .. Len(t) PROVE more[j] = at[j] /\ at[j] \in 1 .. n
    <3>1. j \in 1 .. last /\ j # last
      BY <1>2
    <3>2. at[j] \in Old
      BY Zenon
    <3> QED
      BY <1>1, <3>1, <3>2
  <2> QED
    BY <2>1, <2>2
<1> HIDE DEF more
<1>6. \A m \in New : \E j \in 1 .. last : more[j] = m
  <2>1. ASSUME NEW m \in Old PROVE \E j \in 1 .. last : more[j] = m
    <3>1. PICK j \in 1 .. Len(t) : at[j] = m
      BY <1>3
    <3>2. j \in 1 .. last
      BY <1>2
    <3> QED
      BY <1>5, <3>1, <3>2
  <2>2. last \in 1 .. last
    BY <1>2
  <2> QED
    BY <1>1, <1>5, <2>1, <2>2
<1>7. ASSUME NEW j \in 1 .. last, NEW k \in 1 .. last, j < k PROVE more[j] < more[k]
  <2>1. j \in 1 .. Len(t)
    BY <1>2, <1>7
  <2>2. CASE k = last
    BY <1>5, <2>1, <2>2
  <2>3. CASE k # last
    <3>1. k \in 1 .. Len(t)
      BY <1>2, <2>3
    <3> QED
      BY <1>3, <1>5, <1>7, <2>1, <3>1
  <2> QED
    BY <2>2, <2>3
<1>8. ASSUME NEW j \in 1 .. last PROVE u[j] = buf[more[j]]
  <2>1. j = last \/ j \in 1 .. Len(t)
    BY <1>2
  <2> QED
    BY <1>2, <1>3, <1>5, <2>1
<1>9. \E a \in [1 .. last -> New] :
        /\ \A m \in New : \E j \in 1 .. last : a[j] = m
        /\ \A j, k \in 1 .. last : j < k => a[j] < a[k]
        /\ \A j \in 1 .. last : u[j] = buf[a[j]]
  BY <1>4, <1>6, <1>7, <1>8, Zenon
<1>10. Picks(buf, n + 1, past, u)
  <2>1. Len(u) = last
    BY <1>2
  <2> HIDE DEF last
  <2> QED
    BY <1>9, <2>1 DEF Picks, New
<1> QED
  BY <1>10 DEF u

\* Replay lists what is beyond past.
LEMMA ReplayPicks ==
    ASSUME NEW S, NEW r, r.count \in Nat, Snapshot(r) \in Seq(S), Len(Snapshot(r)) = r.count,
           NEW past
    PROVE  /\ Replay(r, past) \in Seq(S)
           /\ Picks(Snapshot(r), r.count, past, Replay(r, past))
<1> DEFINE buf == Snapshot(r)
           n == r.count
<1>1. PICK result : Rows(buf, past, n, result) /\ Replay(r, past) = result[n]
  BY ReplayRows
<1>2. n \in Nat /\ \A i \in 1 .. n : buf[i] \in S
  BY ElementOfSeq
<1>3. \A i \in 0 .. n : result[i] = IF i = 0 THEN <<>>
                ELSE IF buf[i].seq > past THEN Append(result[i - 1], buf[i])
                ELSE result[i - 1]
  BY <1>1 DEF Rows
<1> HIDE DEF buf, n
<1> DEFINE T == {i \in 0 .. n : result[i] \in Seq(S) /\ Picks(buf, i, past, result[i])}
<1>4. 0 \in T
  <2>1. result[0] = <<>>
    BY <1>2, <1>3
  <2>2. <<>> \in Seq(S) /\ Len(<<>>) = 0
    BY EmptySeq
  <2>3. Picks(buf, 0, past, <<>>)
    <3>1. /\ 1 .. Len(<<>>) = {} /\ {i \in 1 .. 0 : buf[i].seq > past} = {}
      BY <2>2
    <3> DEFINE none == [i \in {} |-> 0]
    <3>2. none \in [{} -> {}]
      OBVIOUS
    <3> HIDE DEF none
    <3> QED
      BY <3>1, <3>2, Zenon DEF Picks
  <2>4. 0 \in 0 .. n
    BY <1>2
  <2> QED
    BY <2>1, <2>2, <2>3, <2>4
<1>5. ASSUME NEW i \in 0 .. n - 1, i \in T PROVE i + 1 \in T
  <2>1. i + 1 \in 1 .. n /\ i + 1 \in 0 .. n /\ i \in Nat /\ buf[i + 1] \in S
    BY <1>2
  <2>2. result[i] \in Seq(S) /\ Picks(buf, i, past, result[i])
    BY <1>5
  <2>3. result[i + 1] = IF buf[i + 1].seq > past THEN Append(result[i], buf[i + 1])
                        ELSE result[i]
    <3>1. i + 1 # 0 /\ (i + 1) - 1 = i
      BY <2>1
    <3> QED
      BY <1>3, <2>1, <3>1
  <2>4. CASE buf[i + 1].seq > past
    <3>1. Append(result[i], buf[i + 1]) \in Seq(S)
      BY <2>1, <2>2, AppendProperties
    <3>2. Picks(buf, i + 1, past, Append(result[i], buf[i + 1]))
      BY <2>1, <2>2, <2>4, PicksTake
    <3> QED
      BY <2>1, <2>3, <2>4, <3>1, <3>2
  <2>5. CASE ~(buf[i + 1].seq > past)
    BY <2>1, <2>2, <2>3, <2>5, PicksSkip
  <2> QED
    BY <2>4, <2>5
<1>6. n \in T
  <2> HIDE DEF T
  <2>1. 0 .. n \subseteq T
    BY <1>2, <1>4, <1>5, UpTo
  <2> QED
    BY <1>2, <2>1
<1> QED
  BY <1>1, <1>6 DEF buf, n

\* What the ring holds is a part of what was pushed.
LEMMA RecentIsPushed ==
    ASSUME RInv
    PROVE  /\ Snapshot(ring) = Recent
           /\ Recent \in Seq(Entries) /\ Len(Recent) = ring.count
           /\ \A i \in 1 .. ring.count :
                  /\ Len(pushed) - ring.count + i \in 1 .. Len(pushed)
                  /\ Recent[i] = pushed[Len(pushed) - ring.count + i]
<1> DEFINE n == Len(pushed)
           k == ring.count
<1>1. /\ pushed \in Seq(Entries) /\ n \in Nat /\ k \in Nat /\ k <= n
  BY CapacityIsPositive, LenProperties DEF RInv, RingTypeOK
<1>2. Recent = SubSeq(pushed, n - k + 1, n)
  BY DEF Recent, RInv
<1>3. Snapshot(ring) = Recent
  BY RInvHoldsRecent DEF HoldsRecent
<1>4. /\ SubSeq(pushed, n - k + 1, n) \in Seq(Entries)
      /\ Len(SubSeq(pushed, n - k + 1, n)) = k
      /\ \A i \in 1 .. k : SubSeq(pushed, n - k + 1, n)[i] = pushed[n - k + i]
  BY SMTT(30), <1>1, SubSeqProperties
<1>5. \A i \in 1 .. k : n - k + i \in 1 .. n
  BY <1>1
<1> QED
  BY <1>2, <1>3, <1>4, <1>5

\* Replay gives, in order, the recent events beyond past.
LEMMA ReplayIsSelected ==
    ASSUME RInv, NEW past
    PROVE  /\ Replay(ring, past) \in Seq(Entries)
           /\ Picks(Recent, ring.count, past, Replay(ring, past))
<1>1. ring.count \in Nat
  BY CapacityIsPositive DEF RInv, RingTypeOK
<1> QED
  BY <1>1, RecentIsPushed, ReplayPicks

LEMMA RInvReplay == RInv => ReplayIsMissed
<1> SUFFICES ASSUME RInv, NEW past \in {0} \cup {e.seq : e \in Entries}
             PROVE  LET replay == Replay(ring, past)
                        missed == {i \in DOMAIN Recent : Recent[i].seq > past}
                    IN  \E at \in [DOMAIN replay -> missed] :
                            /\ \A m \in missed : \E j \in DOMAIN replay : at[j] = m
                            /\ \A j, k \in DOMAIN replay : j < k => at[j] < at[k]
                            /\ \A j \in DOMAIN replay : replay[j] = Recent[at[j]]
  BY DEF ReplayIsMissed
<1>1. DOMAIN Recent = 1 .. ring.count
  BY RecentIsPushed, LenProperties
<1>2. DOMAIN Replay(ring, past) = 1 .. Len(Replay(ring, past))
  BY ReplayIsSelected, LenProperties
<1> DEFINE replay == Replay(ring, past)
           missed == {i \in 1 .. ring.count : Recent[i].seq > past}
<1>3. PICK at \in [1 .. Len(replay) -> missed] :
         /\ \A m \in missed : \E j \in 1 .. Len(replay) : at[j] = m
         /\ \A j, k \in 1 .. Len(replay) : j < k => at[j] < at[k]
         /\ \A j \in 1 .. Len(replay) : replay[j] = Recent[at[j]]
  BY ReplayIsSelected, Zenon DEF Picks
<1> HIDE DEF replay
<1>4. at \in [DOMAIN replay -> {i \in DOMAIN Recent : Recent[i].seq > past}]
  BY <1>1, <1>2 DEF replay
<1>5. /\ \A m \in {i \in DOMAIN Recent : Recent[i].seq > past} :
            \E j \in DOMAIN replay : at[j] = m
      /\ \A j, k \in DOMAIN replay : j < k => at[j] < at[k]
      /\ \A j \in DOMAIN replay : replay[j] = Recent[at[j]]
  BY <1>1, <1>2, <1>3 DEF replay
<1> QED
  BY <1>4, <1>5, Zenon DEF replay

\* A client that comes late is replayed each recent event it has not seen,
\* nothing else, and in order (ringbuffer.go Replay).
THEOREM RingReplaysMissed == RingSpec => []ReplayIsMissed
  BY RInvInit, RInvStep, RInvReplay, PTL DEF RingSpec
-----------------------------------------------------------------------------
(* The hub over the bus and the ring *)

LiveOnes == {k \in Conns : conn[k] = "live"}

\* The feeder's channel and those of the live connections are channels, and
\* their ids hold them; one connection is open at a time.
Attached ==
    /\ feed # NoChan => feed \in Channels /\ registry[Feeder] = feed
    /\ conn \in [Conns -> {"none", "replayed", "live", "gone"}]
    /\ line \in [Conns -> Channels \cup {NoChan}]
    /\ \A k \in LiveOnes : line[k] \in Channels /\ registry[k] = line[k]
    /\ \A k, l \in Conns : {conn[k], conn[l]} \subseteq {"replayed", "live"} => k = l

LEMMA AttachedStarts == JoinInit => Attached
  BY DEF JoinInit, Attached, LiveOnes

\* Every step of the hub is one of the bus.
LEMMA HubStepsBus == Attached /\ [HubNext]_hubVars => [BusNext]_busVars
<1> SUFFICES ASSUME Attached, [HubNext]_hubVars PROVE [BusNext]_busVars
  OBVIOUS
<1> USE LateJoinAssumption DEF Attached
<1>1. ASSUME NEW c \in Channels, SubscribeFeeder(c) PROVE BusNext
  BY <1>1 DEF SubscribeFeeder, BusNext
<1>2. CASE Feed
  BY <1>2 DEF Feed, BusNext
<1>3. ASSUME NEW k \in Conns, Connect(k) PROVE UNCHANGED busVars
  BY <1>3 DEF Connect
<1>4. ASSUME NEW k \in Conns, NEW c \in Channels, GoLive(k, c) PROVE BusNext
  BY <1>4 DEF GoLive, BusNext
<1>5. ASSUME NEW k \in Conns, Deliver(k) PROVE BusNext
  BY <1>5 DEF Deliver, BusNext, LiveOnes
<1>6. ASSUME NEW k \in Conns, Disconnect(k) PROVE BusNext
  BY <1>6 DEF Disconnect, BusNext
<1>7. ASSUME NEW c \in Channels, Close(c) PROVE BusNext
  BY <1>7 DEF BusNext
<1>8. ASSUME NEW p \in Publishers, NEW t \in Types, Stamp(p, t) PROVE BusNext
  BY <1>8 DEF BusNext
<1>9. ASSUME NEW p \in Publishers, Publishing(p) PROVE BusNext
  BY <1>9 DEF BusNext
<1>10. CASE UNCHANGED hubVars
  BY <1>10 DEF hubVars
<1> QED
  BY <1>1, <1>2, <1>3, <1>4, <1>5, <1>6, <1>7, <1>8, <1>9, <1>10 DEF HubNext

\* Only the hub itself detaches the feeder or a client.
LEMMA AttachedStep ==
    ASSUME BusTypeOK, Attached, [HubNext]_hubVars
    PROVE  Attached'
<1> USE LateJoinAssumption, EventBusAssumption
<1>1. CASE UNCHANGED <<registry, feed, conn, line>>
  BY <1>1 DEF Attached, LiveOnes
<1>2. ASSUME NEW c \in Channels, SubscribeFeeder(c) PROVE Attached'
  BY <1>2 DEF SubscribeFeeder, Subscribe, Attached, LiveOnes, BusTypeOK
<1>3. ASSUME NEW k \in Conns, Connect(k) PROVE Attached'
  <2>1. /\ conn' = [conn EXCEPT ![k] = "replayed"]
        /\ registry' = registry /\ feed' = feed /\ line' = line
    BY <1>3 DEF Connect, busVars
  <2>2. \A l \in Conns : conn[l] \notin {"replayed", "live"}
    BY <1>3 DEF Connect, Connected
  <2> QED
    BY <2>1, <2>2 DEF Attached, LiveOnes
<1>4. ASSUME NEW k \in Conns, NEW c \in Channels, GoLive(k, c) PROVE Attached'
  <2>1. /\ conn' = [conn EXCEPT ![k] = "live"] /\ conn[k] = "replayed"
        /\ registry' = [registry EXCEPT ![k] = c]
        /\ feed' = feed /\ line' = [line EXCEPT ![k] = c]
    BY <1>4 DEF GoLive, Subscribe
  <2>2. \A l \in Conns : l # k => conn[l] \notin {"replayed", "live"}
    BY <2>1 DEF Attached
  <2>3. /\ conn' \in [Conns -> {"none", "replayed", "live", "gone"}]
        /\ line' \in [Conns -> Channels \cup {NoChan}]
    BY <2>1 DEF Attached
  <2>4. /\ \A l \in Conns : conn'[l] \in {"replayed", "live"} => l = k
        /\ line'[k] = c /\ registry'[k] = c /\ registry'[Feeder] = registry[Feeder]
    BY <2>1, <2>2 DEF Attached, BusTypeOK
  <2> QED
    BY <2>1, <2>3, <2>4 DEF Attached, LiveOnes
<1>5. ASSUME NEW k \in Conns, Disconnect(k) PROVE Attached'
  <2>1. /\ conn' = [conn EXCEPT ![k] = "gone"]
        /\ registry' = [registry EXCEPT ![k] = NoChan]
        /\ feed' = feed /\ line' = line
    BY <1>5 DEF Disconnect, Unregister
  <2> QED
    BY <2>1 DEF Attached, LiveOnes, BusTypeOK
<1>6. CASE Feed
  BY <1>1, <1>6 DEF Feed, Hear, joinVars
<1>7. ASSUME NEW k \in Conns, Deliver(k) PROVE Attached'
  BY <1>1, <1>7 DEF Deliver, Hear
<1>8. ASSUME NEW c \in Channels, Close(c), UNCHANGED joinVars PROVE Attached'
  BY <1>1, <1>8 DEF Close, joinVars
<1>9. ASSUME NEW p \in Publishers, NEW t \in Types, Stamp(p, t), UNCHANGED joinVars
      PROVE  Attached'
  BY <1>1, <1>9 DEF Stamp, joinVars
<1>10. ASSUME NEW p \in Publishers, Publishing(p), UNCHANGED joinVars PROVE Attached'
  BY <1>1, <1>10 DEF Publishing, Lock, Send, Unlock, joinVars
<1>11. CASE UNCHANGED hubVars
  BY <1>1, <1>11 DEF hubVars, busVars, joinVars
<1> QED
  BY <1>2, <1>3, <1>4, <1>5, <1>6, <1>7, <1>8, <1>9, <1>10, <1>11 DEF HubNext

LEMMA HubAttached == HubSpec => [](BusTypeOK /\ Attached)
<1>1. JoinInit => BusTypeOK
  BY IInvInit DEF JoinInit, IInv
<1>2. BusTypeOK /\ Attached /\ [HubNext]_hubVars => BusTypeOK'
  BY HubStepsBus, TypeStep
<1> QED
  BY <1>1, <1>2, AttachedStarts, AttachedStep, PTL DEF HubSpec

\* The feeder and the dashboards use the bus as any subscriber does: what holds
\* of the bus holds under the hub (web/ws.go HandleWebSocket, web/router.go).
THEOREM HubImplementsBus == HubSpec => BusSpec
<1>1. JoinInit => BusInit
  BY DEF JoinInit
<1> QED
  BY <1>1, HubAttached, HubStepsBus, PTL DEF HubSpec, BusSpec

LEMMA HubBus == HubSpec => [](BusInv /\ Attached)
  BY HubAttached, HubImplementsBus, BusInvariant, PTL
-----------------------------------------------------------------------------
(* What was pushed and received was heard on the bus *)

\* A channel that was not made yet has carried nothing.
NewIsEmpty == \A c \in Channels : chan[c] = "new" => queue[c] = <<>> /\ heard[c] = <<>>

\* The clock gives out no 0.
FromOne == \A e \in Published : e.seq >= 1

RingIsHeard == pushed = IF feed = NoChan THEN <<>> ELSE heard[feed]

GotIsHeard ==
    /\ got \in Seq(Event)
    /\ \A e \in EventsIn(got) : \E c \in Channels : e \in EventsIn(heard[c])

\* What a Take does to the channels.
LEMMA TakeMoves ==
    ASSUME BusTypeOK, NEW c \in Channels, Take(c)
    PROVE  /\ queue[c] \in Seq(Event) /\ queue[c] # <<>> /\ heard[c] \in Seq(Event)
           /\ Head(queue[c]) \in Event /\ Head(queue[c]) \in EventsIn(queue[c])
           /\ queue'[c] = Tail(queue[c]) /\ heard'[c] = Append(heard[c], Head(queue[c]))
           /\ \A d \in Channels : d # c => queue'[d] = queue[d] /\ heard'[d] = heard[d]
<1>1. /\ queue[c] \in Seq(Event) /\ queue[c] # <<>> /\ heard[c] \in Seq(Event)
      /\ queue'[c] = Tail(queue[c]) /\ heard'[c] = Append(heard[c], Head(queue[c]))
      /\ \A d \in Channels : d # c => queue'[d] = queue[d] /\ heard'[d] = heard[d]
  BY DEF Take, BusTypeOK
<1>2. Head(queue[c]) \in Event
  BY <1>1, HeadTailProperties
<1>3. Head(queue[c]) \in EventsIn(queue[c])
  BY <1>1, <1>2, EventsInChanged
<1> QED
  BY <1>1, <1>2, <1>3

\* Appending keeps what was there, and adds the event.
LEMMA AppendKeeps ==
    ASSUME NEW s \in Seq(Event), NEW e \in Event
    PROVE  /\ EventsIn(s) \subseteq EventsIn(Append(s, e))
           /\ e \in EventsIn(Append(s, e))
<1>1. /\ Append(s, e) \in Seq(Event) /\ Len(Append(s, e)) = Len(s) + 1
      /\ \A i \in 1 .. Len(s) : Append(s, e)[i] = s[i]
      /\ Append(s, e)[Len(s) + 1] = e
  BY AppendProperties
<1>2. /\ DOMAIN s = 1 .. Len(s) /\ Len(s) \in Nat
      /\ DOMAIN Append(s, e) = 1 .. (Len(s) + 1)
  BY <1>1, LenProperties
<1>3. ASSUME NEW i \in 1 .. Len(s) PROVE s[i] \in EventsIn(Append(s, e))
  BY <1>1, <1>2 DEF EventsIn
<1> QED
  BY <1>1, <1>2, <1>3 DEF EventsIn

\* Nothing heard is forgotten.
LEMMA HeardGrows ==
    ASSUME BusTypeOK, [BusNext]_busVars, NEW c \in Channels
    PROVE  EventsIn(heard[c]) \subseteq EventsIn(heard'[c])
<1>1. ASSUME NEW d \in Channels, Take(d)
      PROVE  EventsIn(heard[c]) \subseteq EventsIn(heard'[c])
  <2>1. CASE c = d
    BY <1>1, <2>1, TakeMoves, AppendKeeps
  <2>2. CASE c # d
    BY <1>1, <2>2, TakeMoves
  <2> QED
    BY <2>1, <2>2
<1>2. UNCHANGED heard \/ \E d \in Channels : Take(d)
  BY DEF BusNext, Publishing, Stamp, Lock, Send, Unlock, Subscribe, Unregister, Close,
         Shutdown, Receive, Hear, Merge, busVars
<1> QED
  BY <1>1, <1>2

LEMMA NewIsEmptyStep ==
    ASSUME BusTypeOK, NoPanic, NewIsEmpty, [BusNext]_busVars
    PROVE  NewIsEmpty'
<1>1. CASE UNCHANGED <<chan, queue, heard>>
  BY <1>1 DEF NewIsEmpty
<1>2. ASSUME NEW p \in Publishers, NEW s \in SubIds, Send(p, s) PROVE NewIsEmpty'
  <2>1. registry[s] # NoChan /\ chan[registry[s]] = "open" /\ registry[s] \in Channels
    BY <1>2 DEF Send, NoPanic, BusTypeOK
  <2>2. \A c \in Channels : c # registry[s] => queue'[c] = queue[c]
    BY <1>2, <2>1 DEF Send, BusTypeOK
  <2> QED
    BY <1>2, <2>1, <2>2 DEF Send, NewIsEmpty
<1>3. ASSUME NEW c \in Channels, Take(c), UNCHANGED chan PROVE NewIsEmpty'
  BY <1>3, TakeMoves DEF NewIsEmpty
<1>4. ASSUME NEW s \in SubIds, NEW c \in Channels, Subscribe(s, c) PROVE NewIsEmpty'
  BY <1>4 DEF Subscribe, NewIsEmpty, BusTypeOK
<1>5. ASSUME NEW c \in Channels, Close(c) PROVE NewIsEmpty'
  BY <1>5 DEF Close, NewIsEmpty, BusTypeOK
<1>6. CASE Shutdown
  BY <1>6 DEF Shutdown, NewIsEmpty, BusTypeOK
<1>7. \/ UNCHANGED <<chan, queue, heard>>
      \/ \E p \in Publishers, s \in SubIds : Send(p, s)
      \/ \E c \in Channels : Take(c) /\ UNCHANGED chan
      \/ \E s \in SubIds, c \in Channels : Subscribe(s, c)
      \/ \E c \in Channels : Close(c)
      \/ Shutdown
  BY DEF BusNext, Publishing, Stamp, Lock, Unlock, Unregister, Receive, Hear, Merge, busVars
<1> QED
  BY <1>1, <1>2, <1>3, <1>4, <1>5, <1>6, <1>7

LEMMA FromOneStep ==
    ASSUME BusTypeOK, NoPanic, FromOne, [BusNext]_busVars
    PROVE  FromOne'
<1>1. CASE Published' \subseteq Published
  BY <1>1 DEF FromOne
<1>2. ASSUME NEW p \in Publishers, NEW t \in Types, Stamp(p, t) PROVE FromOne'
  <2> DEFINE new == [seq |-> lamport + 1, from |-> p, type |-> t]
  <2>1. new.seq = lamport + 1 /\ lamport \in Nat
    BY EventBusAssumption DEF BusTypeOK
  <2>2. Published' \subseteq Published \cup {new}
    BY <1>2, StampPublishes
  <2> HIDE DEF new
  <2> QED
    BY <2>1, <2>2 DEF FromOne
<1> QED
  BY <1>1, <1>2, OnlyStampPublishes

\* The client and the feeder do not share a channel.
LEMMA LinesDiffer ==
    ASSUME BusInv, Attached, NEW k \in LiveOnes
    PROVE  line[k] \in Channels /\ line[k] # NoChan /\ (feed # NoChan => line[k] # feed)
  BY LateJoinAssumption, EventBusAssumption
  DEF BusInv, IInv, OneIdPerChannel, Attached, LiveOnes

\* The ring was pushed what the feeder heard.
LEMMA RingIsHeardStep ==
    ASSUME BusInv, Attached, NewIsEmpty, RingIsHeard, [HubNext]_hubVars
    PROVE  RingIsHeard'
<1> USE EventBusAssumption
<1>1. CASE UNCHANGED <<heard, feed, pushed>>
  BY <1>1 DEF RingIsHeard
<1>2. ASSUME NEW c \in Channels, SubscribeFeeder(c) PROVE RingIsHeard'
  BY <1>2 DEF SubscribeFeeder, Subscribe, RingIsHeard, NewIsEmpty, ringVars
<1>3. CASE Feed
  <2>1. feed \in Channels /\ feed # NoChan /\ Take(feed) /\ feed' = feed
        /\ pushed' = Append(pushed, Head(queue[feed]))
    BY <1>3 DEF Feed, Hear, Push, Attached, joinVars
  <2>2. heard'[feed] = Append(heard[feed], Head(queue[feed]))
    BY <2>1, TakeMoves DEF BusInv, IInv
  <2> QED
    BY <2>1, <2>2 DEF RingIsHeard
<1>4. ASSUME NEW k \in Conns, Deliver(k) PROVE RingIsHeard'
  <2>1. /\ k \in LiveOnes /\ Take(line[k]) /\ feed' = feed /\ pushed' = pushed
    BY <1>4 DEF Deliver, Hear, LiveOnes, ringVars
  <2>2. line[k] \in Channels /\ (feed # NoChan => feed \in Channels /\ line[k] # feed)
    BY <2>1, LinesDiffer DEF Attached
  <2>3. feed # NoChan => heard'[feed] = heard[feed]
    BY <2>1, <2>2, TakeMoves DEF BusInv, IInv
  <2> QED
    BY <2>1, <2>3 DEF RingIsHeard
<1>5. ASSUME ~Feed, \A k \in Conns : ~Deliver(k), \A c \in Channels : ~SubscribeFeeder(c)
      PROVE  UNCHANGED <<heard, feed, pushed>>
  <2>1. ASSUME NEW k \in Conns, Connect(k) PROVE UNCHANGED <<heard, feed, pushed>>
    BY <2>1 DEF Connect, busVars, ringVars
  <2>2. ASSUME NEW k \in Conns, NEW c \in Channels, GoLive(k, c)
        PROVE  UNCHANGED <<heard, feed, pushed>>
    BY <2>2 DEF GoLive, Subscribe, ringVars
  <2>3. ASSUME NEW k \in Conns, Disconnect(k) PROVE UNCHANGED <<heard, feed, pushed>>
    BY <2>3 DEF Disconnect, Unregister, ringVars
  <2>4. ASSUME NEW c \in Channels, Close(c), UNCHANGED <<ringVars, joinVars>>
        PROVE  UNCHANGED <<heard, feed, pushed>>
    BY <2>4 DEF Close, ringVars, joinVars
  <2>5. ASSUME NEW p \in Publishers, UNCHANGED <<ringVars, joinVars>>,
               Publishing(p) \/ \E t \in Types : Stamp(p, t)
        PROVE  UNCHANGED <<heard, feed, pushed>>
    BY <2>5 DEF Publishing, Lock, Send, Unlock, Stamp, ringVars, joinVars
  <2>6. CASE UNCHANGED hubVars
    BY <2>6 DEF hubVars, busVars, ringVars, joinVars
  <2> QED
    BY <1>5, <2>1, <2>2, <2>3, <2>4, <2>5, <2>6 DEF HubNext
<1> QED
  BY <1>1, <1>2, <1>3, <1>4, <1>5

\* What is published is an event the ring may hold.
LEMMA PublishedIsEntry ==
    ASSUME BusInv, FromOne, NEW e \in Published
    PROVE  e \in Event /\ e \in Entries /\ e.seq \in 1 .. MaxSeq
<1>1. e \in Event
  <2>1. ASSUME NEW p \in Publishers, pub[p].at # "idle" PROVE pub[p].event \in Event
    BY <2>1, PubCases DEF BusInv, IInv, BusTypeOK, Idle, Stamped, Sending
  <2>2. ASSUME NEW c \in Channels
        PROVE  EventsIn(queue[c]) \subseteq Event /\ EventsIn(heard[c]) \subseteq Event
    <3>1. \A s \in Seq(Event) : EventsIn(s) \subseteq Event
      BY LenProperties, ElementOfSeq DEF EventsIn
    <3> QED
      BY <3>1 DEF BusInv, IInv, BusTypeOK
  <2> QED
    BY <2>1, <2>2, PublishedCases
<1>2. e.seq \in 1 .. MaxSeq
  BY <1>1, EventBusAssumption DEF BusInv, IInv, BusTypeOK, ClockIsAhead, FromOne, Event
<1>3. e \in [seq : 1 .. MaxSeq, from : Publishers, type : Types]
  BY <1>1, <1>2 DEF Event
<1> QED
  BY <1>1, <1>2, <1>3, LateJoinAssumption

\* Every step of the hub is one of the ring.
LEMMA HubStepsRing == BusInv /\ Attached /\ FromOne /\ [HubNext]_hubVars => [RingNext]_ringVars
<1> SUFFICES ASSUME BusInv, Attached, FromOne, [HubNext]_hubVars PROVE [RingNext]_ringVars
  OBVIOUS
<1>1. CASE Feed
  <2>1. feed \in Channels /\ Take(feed) /\ Push(Head(queue[feed]))
    BY <1>1 DEF Feed, Hear, Attached
  <2>2. Head(queue[feed]) \in EventsIn(queue[feed])
    BY <2>1, TakeMoves DEF BusInv, IInv
  <2>3. Head(queue[feed]) \in Published
    BY <2>1, <2>2, PublishedCases
  <2> QED
    BY <2>1, <2>3, PublishedIsEntry DEF RingNext
<1>2. CASE UNCHANGED hubVars
  BY <1>2 DEF hubVars
<1> QED
  BY <1>1, <1>2
  DEF HubNext, SubscribeFeeder, Connect, GoLive, Deliver, Disconnect

\* The highest id the client has seen is no lower than any.
LEMMA NewestIsAbove ==
    ASSUME got \in Seq(Event), \A e \in EventsIn(got) : e.seq \in 0 .. MaxSeq
    PROVE  Newest \in 0 .. MaxSeq /\ \A e \in EventsIn(got) : e.seq <= Newest
<1> DEFINE T == {n \in 0 .. MaxSeq : \A i \in DOMAIN got : got[i].seq <= n}
<1>1. \A i \in DOMAIN got : got[i].seq \in 0 .. MaxSeq
  BY DEF EventsIn
<1>2. MaxSeq \in T
  BY <1>1, EventBusAssumption
<1>3. PICK n \in T : \A m \in T : n <= m
  <2>1. T \in SUBSET Nat
    BY EventBusAssumption
  <2> HIDE DEF T
  <2> QED
    BY <1>2, <2>1, LeastOf
<1>4. n = 0 \/ \E i \in DOMAIN got : got[i].seq = n
  <2> SUFFICES ASSUME n # 0, \A i \in DOMAIN got : got[i].seq # n PROVE FALSE
    OBVIOUS
  <2>1. n - 1 \in T
    BY <1>1, EventBusAssumption
  <2> QED
    BY <1>3, <2>1, EventBusAssumption
<1>5. \E m \in 0 .. MaxSeq : /\ m = 0 \/ \E i \in DOMAIN got : got[i].seq = m
                             /\ \A i \in DOMAIN got : got[i].seq <= m
  BY <1>3, <1>4
<1>6. Newest \in 0 .. MaxSeq /\ \A i \in DOMAIN got : got[i].seq <= Newest
  BY <1>5, Zenon DEF Newest
<1> QED
  BY <1>6 DEF EventsIn

\* The events of a replay: they were pushed, in the order of the replay.
LEMMA ReplayWasPushed ==
    ASSUME RInv, RingTypeOK, NEW n
    PROVE  \E at \in [1 .. Len(Replay(ring, n)) -> 1 .. Len(pushed)] :
              /\ \A j, k \in 1 .. Len(Replay(ring, n)) : j < k => at[j] < at[k]
              /\ \A j \in 1 .. Len(Replay(ring, n)) :
                    Replay(ring, n)[j] = pushed[at[j]] /\ Replay(ring, n)[j].seq > n
<1> DEFINE R == Replay(ring, n)
           Missed == {i \in 1 .. ring.count : Recent[i].seq > n}
           base == Len(pushed) - ring.count
<1>1. PICK to \in [1 .. Len(R) -> Missed] :
         /\ \A j, k \in 1 .. Len(R) : j < k => to[j] < to[k]
         /\ \A j \in 1 .. Len(R) : R[j] = Recent[to[j]]
  BY ReplayIsSelected, Zenon DEF Picks
<1>2. base \in Int /\ ring.count \in Nat
  BY CapacityIsPositive, LenProperties DEF RingTypeOK
<1> DEFINE at == [j \in 1 .. Len(R) |-> base + to[j]]
<1>3. \A i \in Missed : /\ i \in 1 .. ring.count /\ base + i \in 1 .. Len(pushed)
                         /\ Recent[i] = pushed[base + i] /\ Recent[i].seq > n
  BY RecentIsPushed
<1> HIDE DEF R, Missed, base
<1>4. ASSUME NEW j \in 1 .. Len(R)
      PROVE  /\ at[j] = base + to[j] /\ to[j] \in Int /\ at[j] \in 1 .. Len(pushed)
             /\ R[j] = pushed[at[j]] /\ R[j].seq > n
  <2>1. to[j] \in Missed
    OBVIOUS
  <2> QED
    BY <1>1, <1>3, <2>1
<1>5. at \in [1 .. Len(R) -> 1 .. Len(pushed)]
  BY <1>4
<1>6. \A j, k \in 1 .. Len(R) : j < k => at[j] < at[k]
  BY <1>1, <1>2, <1>4
<1> HIDE DEF at
<1> QED
  BY <1>4, <1>5, <1>6 DEF R

\* A client that holds everything up to n and is replayed what lies beyond.
LEMMA OrderedConcat ==
    ASSUME NEW s \in Seq(Event), NEW t \in Seq(Event), Ordered(s), Ordered(t),
           \A e \in EventsIn(s), f \in EventsIn(t) : e.seq < f.seq
    PROVE  Ordered(s \o t)
<1>1. /\ s \o t \in Seq(Event) /\ Len(s \o t) = Len(s) + Len(t)
      /\ \A i \in 1 .. Len(s) + Len(t) :
            (s \o t)[i] = IF i <= Len(s) THEN s[i] ELSE t[i - Len(s)]
  BY ConcatProperties
<1>2. /\ DOMAIN s = 1 .. Len(s) /\ DOMAIN t = 1 .. Len(t)
      /\ DOMAIN (s \o t) = 1 .. (Len(s) + Len(t))
      /\ Len(s) \in Nat /\ Len(t) \in Nat
  BY <1>1, LenProperties
<1>3. ASSUME NEW i \in 1 .. (Len(s) + Len(t)), NEW j \in 1 .. (Len(s) + Len(t)), i < j,
             (s \o t)[i].from = (s \o t)[j].from
      PROVE  (s \o t)[i].seq < (s \o t)[j].seq
  <2>1. CASE j <= Len(s)
    BY <1>1, <1>2, <1>3, <2>1 DEF Ordered
  <2>2. CASE i <= Len(s) /\ ~(j <= Len(s))
    <3>1. i \in 1 .. Len(s) /\ j - Len(s) \in 1 .. Len(t)
      BY <1>2, <2>2
    <3>2. s[i] \in EventsIn(s) /\ t[j - Len(s)] \in EventsIn(t)
      BY <1>2, <3>1 DEF EventsIn
    <3> QED
      BY <1>1, <2>2, <3>2
  <2>3. CASE ~(i <= Len(s))
    <3>1. /\ i - Len(s) \in 1 .. Len(t) /\ j - Len(s) \in 1 .. Len(t)
          /\ i - Len(s) < j - Len(s) /\ ~(j <= Len(s))
      BY <1>2, <1>3, <2>3
    <3> QED
      BY <1>1, <1>2, <1>3, <2>3, <3>1 DEF Ordered
  <2> QED
    BY <1>2, <2>1, <2>2, <2>3
<1> QED
  BY <1>2, <1>3 DEF Ordered

LEMMA OrderedPart ==
    ASSUME NEW s \in Seq(Event), NEW t \in Seq(Event), Ordered(s \o t)
    PROVE  Ordered(s)
<1>1. /\ Len(s \o t) = Len(s) + Len(t)
      /\ \A i \in 1 .. Len(s) + Len(t) :
            (s \o t)[i] = IF i <= Len(s) THEN s[i] ELSE t[i - Len(s)]
      /\ s \o t \in Seq(Event)
  BY ConcatProperties
<1>2. /\ DOMAIN s = 1 .. Len(s) /\ DOMAIN (s \o t) = 1 .. (Len(s) + Len(t))
      /\ Len(s) \in Nat /\ Len(t) \in Nat
  BY <1>1, LenProperties
<1> QED
  BY <1>1, <1>2 DEF Ordered
-----------------------------------------------------------------------------
(* What the client receives *)

\* Everything but the order: who is attached, what was heard and pushed.
HubBase ==
    /\ BusInv /\ Attached /\ NewIsEmpty /\ FromOne
    /\ RInv /\ RingIsHeard /\ GotIsHeard

\* A replay holds events the feeder heard, beyond what the client has seen,
\* each publisher in order.
LEMMA ReplayFits ==
    ASSUME HubBase, NEW n, feed # NoChan
    PROVE  LET R == Replay(ring, n) IN
           /\ R \in Seq(Event) /\ Ordered(R)
           /\ \A e \in EventsIn(R) : e \in EventsIn(heard[feed]) /\ e.seq > n
<1> DEFINE R == Replay(ring, n)
<1>1. /\ R \in Seq(Entries) /\ DOMAIN R = 1 .. Len(R) /\ Len(R) \in Nat
  BY ReplayIsSelected, LenProperties DEF HubBase
<1>2. PICK at \in [1 .. Len(R) -> 1 .. Len(pushed)] :
         /\ \A j, k \in 1 .. Len(R) : j < k => at[j] < at[k]
         /\ \A j \in 1 .. Len(R) : R[j] = pushed[at[j]] /\ R[j].seq > n
  BY ReplayWasPushed DEF HubBase, RInv
<1>3. feed \in Channels /\ pushed = heard[feed]
  BY DEF HubBase, Attached, RingIsHeard
<1>4. /\ heard[feed] \in Seq(Event) /\ queue[feed] \in Seq(Event)
      /\ DOMAIN pushed = 1 .. Len(pushed)
      /\ \A i \in 1 .. Len(pushed) : pushed[i] \in Event
  BY <1>3, LenProperties, ElementOfSeq DEF HubBase, BusInv, IInv, BusTypeOK
<1>5. Ordered(pushed)
  BY <1>3, <1>4, OrderedPart DEF HubBase, BusInv, OrderInv, Stream
<1> HIDE DEF R
<1>6. ASSUME NEW j \in 1 .. Len(R)
      PROVE  /\ at[j] \in DOMAIN pushed /\ R[j] = pushed[at[j]]
             /\ R[j] \in EventsIn(heard[feed]) /\ R[j].seq > n /\ R[j] \in Event
  BY <1>2, <1>3, <1>4 DEF EventsIn
<1>7. R \in Seq(Event)
  <2>1. R \in [1 .. Len(R) -> Event]
    BY <1>1, <1>6, LenProperties
  <2> QED
    BY <1>1, <2>1, SeqDef
<1>8. Ordered(R)
  BY <1>1, <1>2, <1>5, <1>6 DEF Ordered
<1>9. \A e \in EventsIn(R) : e \in EventsIn(heard[feed]) /\ e.seq > n
  BY <1>1, <1>6 DEF EventsIn
<1> QED
  BY <1>7, <1>8, <1>9 DEF R

LEMMA GotIsBelow ==
    ASSUME HubBase
    PROVE  /\ \A e \in EventsIn(got) : e \in Published /\ e.seq \in 1 .. MaxSeq
           /\ Newest \in 0 .. MaxSeq
           /\ \A e \in EventsIn(got) : e.seq <= Newest
<1>1. ASSUME NEW e \in EventsIn(got) PROVE e \in Published /\ e.seq \in 1 .. MaxSeq
  <2>1. e \in Published
    BY PublishedCases DEF HubBase, GotIsHeard
  <2> QED
    BY <2>1, PublishedIsEntry DEF HubBase
<1>2. \A e \in EventsIn(got) : e.seq \in 0 .. MaxSeq
  BY <1>1
<1> QED
  BY <1>1, <1>2, NewestIsAbove DEF HubBase, GotIsHeard

\* A client only receives what was heard on the bus.
LEMMA GotIsHeardStep ==
    ASSUME HubBase, [HubNext]_hubVars
    PROVE  GotIsHeard'
<1>1. BusTypeOK /\ [BusNext]_busVars
  BY HubStepsBus DEF HubBase, BusInv, IInv
<1>2. \A e \in EventsIn(got) : \E c \in Channels : e \in EventsIn(heard'[c])
  BY <1>1, HeardGrows DEF HubBase, GotIsHeard
<1>3. got \in Seq(Event)
  BY DEF HubBase, GotIsHeard
<1>4. CASE UNCHANGED got
  BY <1>2, <1>3, <1>4 DEF GotIsHeard, EventsIn
<1>5. ASSUME NEW k \in Conns, Connect(k) PROVE GotIsHeard'
  <2> DEFINE R == Replay(ring, Newest)
  <2>1. feed # NoChan /\ got' = got \o R /\ heard' = heard
    BY <1>5 DEF Connect, busVars
  <2>2. R \in Seq(Event) /\ \A e \in EventsIn(R) : e \in EventsIn(heard[feed])
    BY <2>1, ReplayFits
  <2>3. feed \in Channels
    BY <2>1 DEF HubBase, Attached
  <2> HIDE DEF R
  <2>4. got' \in Seq(Event) /\ EventsIn(got') \subseteq EventsIn(got) \cup EventsIn(R)
    BY <1>3, <2>1, <2>2, StreamMoves
  <2>5. ASSUME NEW e \in EventsIn(got') PROVE \E c \in Channels : e \in EventsIn(heard'[c])
    BY <1>2, <2>1, <2>2, <2>3, <2>4
  <2> QED
    BY <2>4, <2>5 DEF GotIsHeard, EventsIn
<1>6. ASSUME NEW k \in Conns, Deliver(k) PROVE GotIsHeard'
  <2> DEFINE e == Head(queue[line[k]])
  <2>1. /\ k \in LiveOnes /\ Take(line[k]) /\ got' = Append(got, e)
    BY <1>6 DEF Deliver, Hear, LiveOnes
  <2>2. line[k] \in Channels
    BY <2>1 DEF HubBase, Attached
  <2>3. e \in Event /\ heard[line[k]] \in Seq(Event) /\ heard'[line[k]] = Append(heard[line[k]], e)
    BY <1>1, <2>1, <2>2, TakeMoves
  <2>4. e \in EventsIn(heard'[line[k]])
    BY <2>3, AppendKeeps
  <2> HIDE DEF e
  <2>5. got' \in Seq(Event) /\ EventsIn(got') \subseteq EventsIn(got) \cup {e}
    BY <1>3, <2>1, <2>3, EventsInChanged, AppendProperties
  <2> QED
    BY <1>2, <2>2, <2>4, <2>5 DEF GotIsHeard, EventsIn
<1>7. ASSUME NEW k \in Conns, NEW c \in Channels, GoLive(k, c) PROVE UNCHANGED got
  BY <1>7 DEF GoLive
<1>8. ASSUME NEW k \in Conns, Disconnect(k) PROVE UNCHANGED got
  BY <1>8 DEF Disconnect
<1>9. ASSUME NEW c \in Channels, SubscribeFeeder(c) PROVE UNCHANGED got
  BY <1>9 DEF SubscribeFeeder
<1>10. Feed \/ UNCHANGED joinVars \/ UNCHANGED hubVars => UNCHANGED got
  BY DEF Feed, joinVars, hubVars
<1> QED
  BY <1>4, <1>5, <1>6, <1>7, <1>8, <1>9, <1>10 DEF HubNext

LEMMA HubBaseInvariant == HubSpec => []HubBase
<1>1. JoinInit => NewIsEmpty /\ FromOne /\ RInv /\ RingIsHeard /\ GotIsHeard
  <2> SUFFICES ASSUME JoinInit PROVE NewIsEmpty /\ FromOne /\ RInv /\ RingIsHeard /\ GotIsHeard
    OBVIOUS
  <2>1. BusInit /\ RingInit /\ feed = NoChan /\ got = <<>>
    BY DEF JoinInit
  <2>2. NewIsEmpty
    BY <2>1 DEF BusInit, NewIsEmpty
  <2>3. Published = {}
    <3>1. \A p \in Publishers : pub[p].at = "idle"
      BY <2>1 DEF BusInit, NotPublishing
    <3>2. \A c \in Channels : EventsIn(queue[c]) = {} /\ EventsIn(heard[c]) = {}
      BY <2>1 DEF BusInit, EventsIn
    <3> QED
      BY <3>1, <3>2, PublishedCases
  <2>4. RingIsHeard
    BY <2>1 DEF RingInit, RingIsHeard
  <2>5. GotIsHeard
    BY <2>1, EmptySeq DEF GotIsHeard, EventsIn
  <2> QED
    BY <2>1, <2>2, <2>3, <2>4, <2>5, RInvInit DEF FromOne
<1>2. HubBase /\ [HubNext]_hubVars
        => (NewIsEmpty /\ FromOne /\ RInv /\ RingIsHeard /\ GotIsHeard)'
  <2> SUFFICES ASSUME HubBase, [HubNext]_hubVars
               PROVE  (NewIsEmpty /\ FromOne /\ RInv /\ RingIsHeard /\ GotIsHeard)'
    OBVIOUS
  <2>1. BusTypeOK /\ NoPanic /\ [BusNext]_busVars /\ [RingNext]_ringVars
    BY HubStepsBus, HubStepsRing DEF HubBase, BusInv, IInv
  <2> QED
    BY <2>1, NewIsEmptyStep, FromOneStep, RInvStep, RingIsHeardStep, GotIsHeardStep DEF HubBase
<1> QED
  BY <1>1, <1>2, HubBus, PTL DEF HubSpec, HubBase

\* The feeder keeps the ring as any writer does: what holds of the ring holds
\* under the hub (web/router.go, nervous/ringbuffer.go).
THEOREM HubImplementsRing == HubSpec => RingSpec
<1>1. JoinInit => RingInit
  BY DEF JoinInit
<1>2. HubBase /\ [HubNext]_hubVars => [RingNext]_ringVars
  BY HubStepsRing DEF HubBase
<1> QED
  BY <1>1, <1>2, HubBaseInvariant, PTL DEF HubSpec, RingSpec

\* A stream holds both of its parts.
LEMMA StreamHolds ==
    ASSUME NEW h \in Seq(Event), NEW q \in Seq(Event)
    PROVE  EventsIn(h) \cup EventsIn(q) \subseteq EventsIn(h \o q)
<1>1. /\ h \o q \in Seq(Event) /\ Len(h \o q) = Len(h) + Len(q)
      /\ \A i \in 1 .. Len(h) + Len(q) :
            (h \o q)[i] = IF i <= Len(h) THEN h[i] ELSE q[i - Len(h)]
  BY ConcatProperties
<1>2. /\ DOMAIN h = 1 .. Len(h) /\ DOMAIN q = 1 .. Len(q)
      /\ DOMAIN (h \o q) = 1 .. (Len(h) + Len(q))
      /\ Len(h) \in Nat /\ Len(q) \in Nat
  BY <1>1, LenProperties
<1>3. ASSUME NEW i \in 1 .. Len(h) PROVE h[i] \in EventsIn(h \o q)
  <2>1. i \in DOMAIN (h \o q) /\ (h \o q)[i] = h[i]
    BY <1>1, <1>2
  <2> QED
    BY <2>1 DEF EventsIn
<1>4. ASSUME NEW i \in 1 .. Len(q) PROVE q[i] \in EventsIn(h \o q)
  <2>1. Len(h) + i \in DOMAIN (h \o q) /\ (h \o q)[Len(h) + i] = q[i]
    BY <1>1, <1>2
  <2> QED
    BY <2>1 DEF EventsIn
<1> QED
  BY <1>2, <1>3, <1>4 DEF EventsIn

\* The invariant about the order: what the client has and what waits for it are
\* in order, and so is an event that is on its way to it.
InOrder ==
    /\ Ordered(got)
    /\ \A k \in LiveOnes : Ordered(got \o queue[line[k]])
    /\ \A p \in Publishers : pub[p].at = "sending" /\ pub[p].left \cap LiveOnes # {} =>
          \A e \in EventsIn(got) : e.from = p => e.seq < pub[p].event.seq

\* A step that changes neither the client nor what waits for it, and sends no
\* event on its way to it.
LEMMA OrderUntouched ==
    ASSUME InOrder, UNCHANGED <<got, conn, line>>,
           \A k \in LiveOnes : queue'[line[k]] = queue[line[k]],
           \A p \in Publishers : pub'[p].at = "sending" =>
               /\ pub[p].at = "sending" /\ pub'[p].event = pub[p].event
               /\ pub'[p].left \subseteq pub[p].left
    PROVE  InOrder'
<1>1. LiveOnes' = LiveOnes /\ got' = got
  BY DEF LiveOnes
<1>2. \A k \in LiveOnes : Ordered((got \o queue[line[k]])')
  BY DEF InOrder
<1>3. ASSUME NEW p \in Publishers, pub'[p].at = "sending", pub'[p].left \cap LiveOnes # {},
             NEW e \in EventsIn(got), e.from = p
      PROVE  e.seq < pub'[p].event.seq
  BY <1>3 DEF InOrder
<1>4. EventsIn(got)' = EventsIn(got)
  BY <1>1 DEF EventsIn
<1> QED
  BY <1>1, <1>2, <1>3, <1>4 DEF InOrder, Ordered

\* The event of a publisher that is about to send is newer than all of its
\* events the client has.
LEMMA LockKeepsInOrder ==
    ASSUME HubBase, InOrder, NEW p \in Publishers, Lock(p), UNCHANGED joinVars
    PROVE  InOrder'
<1>1. /\ got' = got /\ conn' = conn /\ line' = line /\ queue' = queue
      /\ LiveOnes' = LiveOnes
  BY DEF Lock, joinVars, LiveOnes
<1>2. /\ pub[p].at = "stamped" /\ pub'[p].event = pub[p].event
      /\ \A q \in Publishers : q # p => pub'[q] = pub[q]
  BY DEF Lock, HubBase, BusInv, IInv, BusTypeOK
<1>3. ASSUME NEW e \in EventsIn(got), e.from = p PROVE e.seq < pub[p].event.seq
  <2>1. PICK c \in Channels : e \in EventsIn(heard[c])
    BY DEF HubBase, GotIsHeard
  <2>2. e \in EventsIn(Stream(c))
    BY <2>1, StreamHolds DEF HubBase, BusInv, IInv, BusTypeOK, Stream
  <2> QED
    BY <1>2, <1>3, <2>2 DEF HubBase, BusInv, OrderInv, NextIsNewest, Awaits
<1>4. ASSUME NEW q \in Publishers, pub'[q].at = "sending", pub'[q].left \cap LiveOnes # {},
             NEW e \in EventsIn(got), e.from = q
      PROVE  e.seq < pub'[q].event.seq
  BY <1>2, <1>3, <1>4 DEF InOrder
<1>5. EventsIn(got)' = EventsIn(got)
  BY <1>1 DEF EventsIn
<1> QED
  BY <1>1, <1>4, <1>5 DEF InOrder, Ordered

\* A live client is sent an event newer than all of its publisher's.
LEMMA SendKeepsInOrder ==
    ASSUME HubBase, InOrder, NEW p \in Publishers, NEW s \in SubIds, Send(p, s),
           UNCHANGED joinVars
    PROVE  InOrder'
<1>1. /\ got' = got /\ conn' = conn /\ line' = line /\ LiveOnes' = LiveOnes
      /\ got \in Seq(Event)
  BY DEF joinVars, LiveOnes, HubBase, GotIsHeard
<1>2. /\ pub[p] \in Sending /\ pub[p].at = "sending" /\ s \in pub[p].left
      /\ pub[p].event.from = p
      /\ registry[s] # NoChan /\ registry[s] \in Channels
  BY PubCases
  DEF Send, HubBase, BusInv, IInv, BusTypeOK, NoPanic, OrderInv, NextIsNewest
<1>3. \A q \in Publishers : pub'[q].at = "sending" =>
         /\ pub[q].at = "sending" /\ pub'[q].event = pub[q].event
         /\ pub'[q].left \subseteq pub[q].left
  <2>1. pub' = [pub EXCEPT ![p] = [pub[p] EXCEPT !.left = pub[p].left \ {s}]]
    BY DEF Send
  <2>2. \A q \in Publishers : q # p => pub'[q] = pub[q]
    BY <2>1 DEF HubBase, BusInv, IInv, BusTypeOK
  <2>3. pub'[p].event = pub[p].event /\ pub'[p].left = pub[p].left \ {s}
    BY <1>2, <2>1, Zenon DEF HubBase, BusInv, IInv, BusTypeOK, Sending
  <2> QED
    BY <1>2, <2>2, <2>3
<1>4. /\ \A c \in Channels : c # registry[s] => queue'[c] = queue[c]
      /\ \/ queue'[registry[s]] = queue[registry[s]]
         \/ queue'[registry[s]] = Append(queue[registry[s]], pub[p].event)
  BY <1>2 DEF Send, HubBase, BusInv, IInv, BusTypeOK
<1>5. CASE \A k \in LiveOnes : queue'[line[k]] = queue[line[k]]
  BY <1>1, <1>3, <1>5, OrderUntouched
<1>6. ASSUME NEW k \in LiveOnes, queue'[line[k]] # queue[line[k]] PROVE InOrder'
  <2>1. line[k] \in Channels /\ registry[k] = line[k] /\ k \in Conns
    BY DEF HubBase, Attached, LiveOnes
  <2>2. line[k] = registry[s] /\ queue'[line[k]] = Append(queue[line[k]], pub[p].event)
    BY <1>4, <1>6, <2>1
  <2>3. s = k
    BY <1>2, <2>1, <2>2, LateJoinAssumption DEF HubBase, BusInv, IInv, OneIdPerChannel
  <2>4. \A l \in LiveOnes : l = k
    BY DEF HubBase, Attached, LiveOnes
  <2> DEFINE q == queue[line[k]]
             e == pub[p].event
  <2>5. q \in Seq(Event) /\ e \in Event /\ e.from = p
    BY <1>2, <2>1 DEF HubBase, BusInv, IInv, BusTypeOK, Sending
  <2>6. \A f \in EventsIn(got) : f.from = p => f.seq < e.seq
    BY <1>2, <2>3 DEF InOrder
  <2>7. \A f \in EventsIn(q) : f.from = p => f.seq < e.seq
    <3>1. Awaits(p, line[k])
      BY <1>2, <2>2 DEF Awaits
    <3>2. EventsIn(q) \subseteq EventsIn(Stream(line[k]))
      BY <2>1, StreamHolds DEF HubBase, BusInv, IInv, BusTypeOK, Stream
    <3> QED
      BY <1>2, <2>1, <3>1, <3>2 DEF HubBase, BusInv, OrderInv, NextIsNewest
  <2>8. Ordered(got \o q)
    BY DEF InOrder
  <2> HIDE DEF q, e
  <2>9. /\ got \o q \in Seq(Event) /\ EventsIn(got \o q) \subseteq EventsIn(got) \cup EventsIn(q)
        /\ got \o Append(q, e) = Append(got \o q, e)
    BY <1>1, <2>5, StreamMoves
  <2>10. Ordered(Append(got \o q, e))
    BY <2>5, <2>6, <2>7, <2>8, <2>9, NewestMayFollow
  <2>11. \A l \in LiveOnes : Ordered(got \o queue'[line[l]])
    BY <2>2, <2>4, <2>9, <2>10 DEF q, e
  <2>12. ASSUME NEW r \in Publishers, pub'[r].at = "sending", pub'[r].left \cap LiveOnes # {},
                NEW f \in EventsIn(got), f.from = r
         PROVE  f.seq < pub'[r].event.seq
    BY <1>3, <2>12 DEF InOrder
  <2>13. EventsIn(got)' = EventsIn(got)
    BY <1>1 DEF EventsIn
  <2> QED
    BY <1>1, <2>11, <2>12, <2>13 DEF InOrder, Ordered
<1> QED
  BY <1>5, <1>6

\* What a client that connects is sent lies beyond what it has.
LEMMA ConnectKeepsInOrder ==
    ASSUME HubBase, InOrder, NEW k \in Conns, Connect(k)
    PROVE  InOrder'
<1> DEFINE R == Replay(ring, Newest)
<1>1. /\ feed # NoChan /\ got' = got \o R /\ pub' = pub
      /\ conn' = [conn EXCEPT ![k] = "replayed"]
  BY DEF Connect, busVars
<1>2. LiveOnes' = {}
  BY <1>1 DEF Connect, Connected, LiveOnes, HubBase, Attached
<1>3. R \in Seq(Event) /\ Ordered(R) /\ \A f \in EventsIn(R) : f \in Event /\ f.seq > Newest
  <2>1. R \in Seq(Event) /\ Ordered(R) /\ \A f \in EventsIn(R) : f.seq > Newest
    BY <1>1, ReplayFits
  <2>2. EventsIn(R) \subseteq Event
    BY <2>1, LenProperties, ElementOfSeq DEF EventsIn
  <2> QED
    BY <2>1, <2>2
<1>4. got \in Seq(Event) /\ Ordered(got)
  BY DEF HubBase, GotIsHeard, InOrder
<1> HIDE DEF R
<1>5. \A e \in EventsIn(got), f \in EventsIn(R) : e.seq < f.seq
  BY <1>3, GotIsBelow, EventBusAssumption DEF Event
<1>6. Ordered(got \o R)
  BY <1>3, <1>4, <1>5, OrderedConcat
<1> QED
  BY <1>1, <1>2, <1>6 DEF InOrder, Ordered

\* A client goes live on an empty channel, while nobody sends.
LEMMA GoLiveKeepsInOrder ==
    ASSUME HubBase, InOrder, NEW k \in Conns, NEW c \in Channels, GoLive(k, c)
    PROVE  InOrder'
<1>1. /\ conn[k] = "replayed" /\ conn' = [conn EXCEPT ![k] = "live"]
      /\ line' = [line EXCEPT ![k] = c] /\ got' = got
      /\ chan[c] = "new" /\ queue' = queue /\ pub' = pub /\ Unlocked
  BY DEF GoLive, Subscribe
<1>2. /\ LiveOnes' = {k} /\ line'[k] = c
  BY <1>1 DEF LiveOnes, HubBase, Attached
<1>3. queue'[c] = <<>> /\ got \in Seq(Event)
  BY <1>1 DEF HubBase, NewIsEmpty, GotIsHeard
<1>4. got \o <<>> = got
  BY <1>3, ConcatEmptySeq
<1>5. \A p \in Publishers : pub'[p].at # "sending"
  BY <1>1 DEF Unlocked
<1> QED
  BY <1>1, <1>2, <1>3, <1>4, <1>5 DEF InOrder, Ordered

\* A delivery takes the next event from the channel to the client.
LEMMA DeliverKeepsInOrder ==
    ASSUME HubBase, InOrder, NEW k \in Conns, Deliver(k)
    PROVE  InOrder'
<1> DEFINE q == queue[line[k]]
           e == Head(q)
<1>1. /\ k \in LiveOnes /\ Take(line[k]) /\ got' = Append(got, e)
      /\ LiveOnes' = LiveOnes /\ line' = line /\ pub' = pub
  BY DEF Deliver, Hear, LiveOnes
<1>2. line[k] \in Channels /\ registry[k] = line[k] /\ \A l \in LiveOnes : l = k
  BY <1>1 DEF HubBase, Attached, LiveOnes
<1>3. /\ q \in Seq(Event) /\ q # <<>> /\ e \in EventsIn(q) /\ e \in Event
      /\ queue'[line[k]] = Tail(q) /\ heard[line[k]] \in Seq(Event)
  BY <1>1, <1>2, TakeMoves DEF HubBase, BusInv, IInv
<1>4. got \in Seq(Event)
  BY DEF HubBase, GotIsHeard
<1>5. e \in EventsIn(Stream(line[k]))
  BY <1>3, StreamHolds DEF Stream
<1>6. Ordered(got \o q)
  BY <1>1 DEF InOrder
<1>7. ASSUME NEW p \in Publishers, pub[p].at = "sending", pub[p].left \cap LiveOnes # {},
             e.from = p
      PROVE  e.seq < pub[p].event.seq
  <2>1. k \in pub[p].left
    BY <1>2, <1>7
  <2>2. Awaits(p, line[k])
    BY <1>2, <1>7, <2>1 DEF Awaits
  <2> QED
    BY <1>2, <1>5, <1>7, <2>2 DEF HubBase, BusInv, OrderInv, NextIsNewest
<1> HIDE DEF q, e
<1>8. got' \o queue'[line[k]] = got \o q
  <2>1. Append(got, e) \o Tail(q) = got \o q
    BY <1>3, <1>4, StreamMoves DEF e
  <2> QED
    BY <1>1, <1>3, <2>1
<1>9. Ordered(got')
  <2>1. got' \in Seq(Event) /\ Tail(q) \in Seq(Event)
    BY <1>1, <1>3, <1>4, AppendProperties, HeadTailProperties
  <2> QED
    BY <1>3, <1>6, <1>8, <2>1, OrderedPart
<1>10. EventsIn(got') \subseteq EventsIn(got) \cup {e}
  BY <1>1, <1>3, <1>4, EventsInChanged
<1>11. \A l \in LiveOnes : Ordered(got' \o queue'[line[l]])
  BY <1>2, <1>6, <1>8
<1>12. ASSUME NEW p \in Publishers, pub[p].at = "sending", pub[p].left \cap LiveOnes # {},
              NEW f \in EventsIn(got'), f.from = p
       PROVE  f.seq < pub[p].event.seq
  BY <1>7, <1>10, <1>12 DEF InOrder
<1>13. EventsIn(got)' = EventsIn(got')
  BY DEF EventsIn
<1>14. \A l \in LiveOnes' : Ordered((got \o queue[line[l]])')
  BY <1>1, <1>11
<1>15. ASSUME NEW p \in Publishers, pub'[p].at = "sending", pub'[p].left \cap LiveOnes' # {},
              NEW f \in EventsIn(got)', f.from = p
       PROVE  f.seq < pub'[p].event.seq
  BY <1>1, <1>12, <1>13, <1>15
<1> QED
  BY <1>9, <1>14, <1>15 DEF InOrder, Ordered

LEMMA InOrderStep ==
    ASSUME HubBase, InOrder, [HubNext]_hubVars
    PROVE  InOrder'
<1>1. ASSUME UNCHANGED <<got, conn, line, pub>>,
             \A k \in LiveOnes : queue'[line[k]] = queue[line[k]]
      PROVE  InOrder'
  BY <1>1, OrderUntouched
<1>2. ASSUME NEW c \in Channels, SubscribeFeeder(c) PROVE InOrder'
  BY <1>1, <1>2 DEF SubscribeFeeder, Subscribe
<1>3. CASE Feed
  <2>1. /\ UNCHANGED <<got, conn, line, pub>> /\ Take(feed) /\ feed \in Channels
        /\ feed # NoChan
    BY <1>3 DEF Feed, Hear, joinVars, HubBase, Attached
  <2>2. \A k \in LiveOnes : line[k] \in Channels /\ line[k] # feed
    BY <2>1, LinesDiffer DEF HubBase
  <2>3. \A d \in Channels : d # feed => queue'[d] = queue[d]
    BY <2>1, TakeMoves DEF HubBase, BusInv, IInv
  <2> QED
    BY <1>1, <2>1, <2>2, <2>3
<1>4. ASSUME NEW k \in Conns, Disconnect(k) PROVE InOrder'
  <2>1. /\ conn' = [conn EXCEPT ![k] = "gone"] /\ conn[k] = "live"
        /\ got' = got /\ pub' = pub
    BY <1>4 DEF Disconnect, Unregister
  <2>2. LiveOnes' = {}
    BY <2>1 DEF LiveOnes, HubBase, Attached
  <2> QED
    BY <2>1, <2>2 DEF InOrder, Ordered
<1>5. ASSUME NEW c \in Channels, Close(c), UNCHANGED joinVars PROVE InOrder'
  BY <1>1, <1>5 DEF Close, joinVars
<1>6. ASSUME NEW p \in Publishers, NEW t \in Types, Stamp(p, t), UNCHANGED joinVars
      PROVE  InOrder'
  <2>1. /\ UNCHANGED <<got, conn, line, queue>>
        /\ pub'[p].at = "stamped" /\ \A q \in Publishers : q # p => pub'[q] = pub[q]
    BY <1>6 DEF Stamp, joinVars, HubBase, BusInv, IInv, BusTypeOK
  <2> QED
    BY <2>1, OrderUntouched
<1>7. ASSUME NEW p \in Publishers, Unlock(p), UNCHANGED joinVars PROVE InOrder'
  <2>1. /\ UNCHANGED <<got, conn, line, queue>>
        /\ pub'[p].at = "idle" /\ \A q \in Publishers : q # p => pub'[q] = pub[q]
    BY <1>7 DEF Unlock, NotPublishing, joinVars, HubBase, BusInv, IInv, BusTypeOK
  <2> QED
    BY <2>1, OrderUntouched
<1>8. CASE UNCHANGED hubVars
  BY <1>1, <1>8 DEF hubVars, busVars, joinVars
<1> QED
  BY <1>2, <1>3, <1>4, <1>5, <1>6, <1>7, <1>8, LockKeepsInOrder, SendKeepsInOrder,
     ConnectKeepsInOrder, GoLiveKeepsInOrder, DeliverKeepsInOrder
  DEF HubNext, Publishing

\* Whoever publishes, drops, disconnects and comes back: a dashboard receives no
\* event twice, and those of a publisher in their order (web/ws.go
\* HandleWebSocket).
THEOREM HubKeepsClientOrder == HubSpec => []ClientOrder
<1>1. JoinInit => InOrder
  <2> SUFFICES ASSUME JoinInit PROVE InOrder
    OBVIOUS
  <2>1. got = <<>> /\ LiveOnes = {}
    BY DEF JoinInit, LiveOnes
  <2> QED
    BY <2>1 DEF InOrder, Ordered
<1>2. HubBase /\ InOrder /\ [HubNext]_hubVars => InOrder'
  BY InOrderStep
<1>3. InOrder => ClientOrder
  BY DEF InOrder, Ordered, ClientOrder
<1> QED
  BY <1>1, <1>2, <1>3, HubBaseInvariant, PTL DEF HubSpec
=============================================================================
