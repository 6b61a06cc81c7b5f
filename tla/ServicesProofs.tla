--------------------------- MODULE ServicesProofs ---------------------------
(***************************************************************************)
(* Proofs about services that do not meet: the tool-use executor, plugins  *)
(* and refactoring transactions, for any tools, plugins, files, calls and  *)
(* limits.                                                                 *)
(***************************************************************************)
EXTENDS ToolLoop, Plugins, Refactor, TLAPS

-----------------------------------------------------------------------------
(***************************************************************************)
(* ToolLoop.  The ring holds the last six names that were dispatched, the  *)
(* newest name of a slot being the one that counts (RingFollows); read     *)
(* from slot 0 on, it repeats a period exactly when the names do, because  *)
(* each period that is looked for divides six (RepeatIsSeen).              *)
(***************************************************************************)
RingFollows ==
    loop = "running" =>
        /\ patternIdx = Len(made)
        /\ \A i \in 1..Len(made) :
              i > Len(made) - PatternRingSize =>
                  patternRing[(i - 1) % PatternRingSize] = made[i]

LoopInv == LoopTypeOK /\ RingFollows /\ PatternCaught

(* A batch is a sequence of calls. *)
LEMMA BatchIsSequence ==
    ASSUME NEW b \in Batches
    PROVE  /\ b \in Seq(Calls) /\ DOMAIN b = 1..Len(b)
           /\ Len(b) \in Nat
           /\ \A k \in 1..Len(b) : b[k] \in Calls
<1>1. PICK n \in 1..MaxBatch : b \in [1..n -> Calls]
  BY DEF Batches
<1>2. b \in Seq(Calls) /\ Len(b) = n /\ n \in Nat
  BY <1>1, ToolLoopAssumption DEF ToolLoopAssumption
<1> QED BY <1>1, <1>2

(* What is dispatched is a sequence of names. *)
LEMMA DispatchedIsSequence ==
    ASSUME NEW b \in Batches, made \in Seq(Tools)
    PROVE  /\ Dispatched(b) \in Seq(Tools)
           /\ Len(Dispatched(b)) = Len(made) + Len(b)
           /\ \A i \in 1..Len(made) : Dispatched(b)[i] = made[i]
           /\ \A k \in 1..Len(b) : Dispatched(b)[Len(made) + k] = b[k].name
<1> DEFINE names == [i \in DOMAIN b |-> b[i].name]
<1>1. /\ b \in Seq(Calls) /\ DOMAIN b = 1..Len(b) /\ Len(b) \in Nat
      /\ \A k \in 1..Len(b) : b[k].name \in Tools
  BY BatchIsSequence DEF Calls
<1>2. names \in Seq(Tools) /\ Len(names) = Len(b)
  BY <1>1
<1>3. \A k \in 1..Len(b) : names[k] = b[k].name
  BY <1>1
<1> HIDE DEF names
<1>4. Dispatched(b) = made \o names
  BY DEF Dispatched, names
<1>5. names \in Seq(Tools) /\ made \o names \in Seq(Tools)
      /\ Len(made \o names) = Len(made) + Len(names)
  BY <1>2
<1>6. \A i \in 1..Len(made) : (made \o names)[i] = made[i]
  BY <1>2
<1>7. ASSUME NEW k \in 1..Len(b)
      PROVE  (made \o names)[Len(made) + k] = b[k].name
  <2>1. (made \o names)[Len(made) + k] = names[k]
    BY <1>1, <1>2
  <2> QED BY <1>3, <2>1
<1> QED BY <1>2, <1>4, <1>5, <1>6, <1>7

(* The ring after a batch: a slot that a call of the batch falls on has the *)
(* last of those calls, every other slot is as it was.                      *)
LEMMA PushedSlots ==
    ASSUME NEW b \in Batches, patternIdx \in Nat,
           patternRing \in [PatternSlots -> Tools \cup {NoTool}]
    PROVE  /\ Pushed(b) \in [PatternSlots -> Tools \cup {NoTool}]
           /\ \A k \in 1..Len(b) :
                 k > Len(b) - PatternRingSize =>
                     Pushed(b)[SlotOf(k)] = b[k].name
           /\ \A i \in PatternSlots :
                 (\A k \in 1..Len(b) : SlotOf(k) # i) =>
                     Pushed(b)[i] = patternRing[i]
<1>1. /\ DOMAIN b = 1..Len(b) /\ Len(b) \in Nat
      /\ \A k \in 1..Len(b) : b[k].name \in Tools
  BY BatchIsSequence DEF Calls
<1>2. \A k \in 1..Len(b) : SlotOf(k) \in PatternSlots
  BY <1>1 DEF SlotOf, PatternSlots, PatternRingSize
<1>3. ASSUME NEW k \in 1..Len(b), k > Len(b) - PatternRingSize
      PROVE  LastIn(b, SlotOf(k)) = k
  <2>1. \A j \in 1..Len(b) : SlotOf(j) = SlotOf(k) => j <= k
    BY <1>1, <1>3 DEF SlotOf, PatternRingSize
  <2>2. \A m \in 1..Len(b) :
           (/\ SlotOf(m) = SlotOf(k)
            /\ \A j \in 1..Len(b) : SlotOf(j) = SlotOf(k) => j <= m)
           => m = k
    BY <2>1, <1>1
  <2> QED BY <1>1, <2>1, <2>2 DEF LastIn
<1>4. ASSUME NEW k \in 1..Len(b)
      PROVE  LastIn(b, SlotOf(k)) \in 1..Len(b)
  <2> DEFINE n == Len(b)
             Same(j) == j \in 1..n /\ SlotOf(j) = SlotOf(k)
  <2>1. \E m \in 1..n :
           /\ Same(m)
           /\ \A j \in 1..n : SlotOf(j) = SlotOf(k) => j <= m
    <3>1. \E m \in 1..n : m > n - PatternRingSize /\ SlotOf(m) = SlotOf(k)
      <4> DEFINE m == n - ((n - k) % PatternRingSize)
      <4>1. /\ m \in 1..n /\ m > n - PatternRingSize
            /\ (patternIdx + m - 1) % 6 = (patternIdx + k - 1) % 6
        BY <1>1 DEF PatternRingSize
      <4> QED BY <4>1 DEF SlotOf, PatternRingSize
    <3>2. PICK m \in 1..n : m > n - PatternRingSize /\ SlotOf(m) = SlotOf(k)
      BY <3>1
    <3>3. \A j \in 1..n : SlotOf(j) = SlotOf(k) => j <= m
      BY <1>1, <3>2 DEF SlotOf, PatternRingSize
    <3> QED BY <3>2, <3>3
  <2> QED BY <1>1, <2>1 DEF LastIn
<1>5. \A i \in PatternSlots :
         Pushed(b)[i] = IF \E k \in 1..Len(b) : SlotOf(k) = i
                        THEN b[LastIn(b, i)].name ELSE patternRing[i]
  BY <1>1 DEF Pushed
<1>6. \A i \in PatternSlots : Pushed(b)[i] \in Tools \cup {NoTool}
  BY <1>1, <1>4, <1>5
<1>7. Pushed(b) \in [PatternSlots -> Tools \cup {NoTool}]
  BY <1>6 DEF Pushed
<1> QED BY <1>2, <1>3, <1>5, <1>7

(* If the ring holds the last names of s and s ends in a repetition, the    *)
(* ring shows it, wherever it has wrapped.                                  *)
LEMMA RepeatIsSeen ==
    ASSUME NEW s \in Seq(Tools), NEW r \in [PatternSlots -> Tools \cup {NoTool}],
           Len(s) >= PatternRingSize,
           \A i \in 1..Len(s) :
               i > Len(s) - PatternRingSize => r[(i - 1) % PatternRingSize] = s[i],
           Repeats(s)
    PROVE  DetectPattern(r)
<1> DEFINE n == Len(s)
<1>1. n \in Nat /\ n >= 6
  BY DEF PatternRingSize
<1>2. PICK p \in 1..3 : \A i \in (n - 5)..(n - p) : s[i] = s[i + p]
  <2>1. PICK p \in 1..3 : \A i \in (n - PatternRingSize + 1)..(n - p) : s[i] = s[i + p]
    BY Zenon DEF Repeats
  <2>2. n - PatternRingSize + 1 = n - 5
    BY <1>1 DEF PatternRingSize
  <2>3. \A i \in (n - 5)..(n - p) : s[i] = s[i + p]
    BY Zenon, <2>1, <2>2
  <2>. QED  BY Zenon, <2>3
<1> DEFINE q == n % 6
<1>3. q \in 0..5
  BY <1>1
<1>4. ASSUME NEW j \in 0..5
      PROVE  r[(q + j) % 6] = s[n - 5 + j]
  <2> DEFINE i == n - 5 + j
  <2>1. i \in 1..n /\ i > n - PatternRingSize
    BY <1>1 DEF PatternRingSize
  <2>2. (i - 1) % PatternRingSize = (q + j) % 6
    BY <1>1 DEF PatternRingSize
  <2> HIDE DEF i
  <2>3. r[(i - 1) % PatternRingSize] = s[i]
    BY <2>1
  <2> QED BY <2>2, <2>3 DEF i
<1>5. ASSUME NEW j \in 0..(5 - p)
      PROVE  r[(q + j) % 6] = r[(q + (j + p)) % 6]
  <2>1. s[n - 5 + j] = s[(n - 5 + j) + p]
    BY <1>1, <1>2
  <2>2. (n - 5 + j) + p = n - 5 + (j + p) /\ j + p \in 0..5 /\ j \in 0..5
    BY <1>1
  <2>3. r[(q + (j + p)) % 6] = s[n - 5 + (j + p)]
    BY <1>4, <2>2
  <2>4. r[(q + j) % 6] = s[n - 5 + j]
    BY <1>4, <2>2
  <2> QED BY <2>1, <2>2, <2>3, <2>4
<1> HIDE DEF q
<1>6. CASE p = 1
  <2>1. \A j \in 0..4 : r[(q + j) % 6] = r[(q + (j + 1)) % 6]
    BY <1>5, <1>6
  <2>2. /\ r[q % 6] = r[(q + 1) % 6] /\ r[(q + 1) % 6] = r[(q + 2) % 6]
        /\ r[(q + 2) % 6] = r[(q + 3) % 6] /\ r[(q + 3) % 6] = r[(q + 4) % 6]
        /\ r[(q + 4) % 6] = r[(q + 5) % 6]
    BY <1>3, <2>1
  <2>3. /\ r[1] = r[0] /\ r[2] = r[0] /\ r[3] = r[0] /\ r[4] = r[0]
        /\ r[5] = r[0]
    <3>1. CASE q = 0
      BY <2>2, <3>1
    <3>2. CASE q = 1
      BY <2>2, <3>2
    <3>3. CASE q = 2
      BY <2>2, <3>3
    <3>4. CASE q = 3
      BY <2>2, <3>4
    <3>5. CASE q = 4
      BY <2>2, <3>5
    <3>6. CASE q = 5
      BY <2>2, <3>6
    <3> QED BY <1>3, <3>1, <3>2, <3>3, <3>4, <3>5, <3>6
  <2>4. \A i \in 1..5 : r[i] = r[i % 1]
    BY <2>3
  <2> QED BY <1>6, <2>4 DEF DetectPattern, PatternRingSize
<1>7. CASE p = 2
  <2>1. \A j \in 0..3 : r[(q + j) % 6] = r[(q + (j + 2)) % 6]
    BY <1>5, <1>7
  <2>2. /\ r[q % 6] = r[(q + 2) % 6] /\ r[(q + 1) % 6] = r[(q + 3) % 6]
        /\ r[(q + 2) % 6] = r[(q + 4) % 6] /\ r[(q + 3) % 6] = r[(q + 5) % 6]
    BY <1>3, <2>1
  <2>3. r[2] = r[0] /\ r[4] = r[0] /\ r[3] = r[1] /\ r[5] = r[1]
    <3>1. CASE q = 0
      BY <2>2, <3>1
    <3>2. CASE q = 1
      BY <2>2, <3>2
    <3>3. CASE q = 2
      BY <2>2, <3>3
    <3>4. CASE q = 3
      BY <2>2, <3>4
    <3>5. CASE q = 4
      BY <2>2, <3>5
    <3>6. CASE q = 5
      BY <2>2, <3>6
    <3> QED BY <1>3, <3>1, <3>2, <3>3, <3>4, <3>5, <3>6
  <2>4. \A i \in 2..5 : r[i] = r[i % 2]
    BY <2>3
  <2> QED BY <1>7, <2>4 DEF DetectPattern, PatternRingSize
<1>8. CASE p = 3
  <2>1. \A j \in 0..2 : r[(q + j) % 6] = r[(q + (j + 3)) % 6]
    BY <1>5, <1>8
  <2>2. /\ r[q % 6] = r[(q + 3) % 6] /\ r[(q + 1) % 6] = r[(q + 4) % 6]
        /\ r[(q + 2) % 6] = r[(q + 5) % 6]
    BY <1>3, <2>1
  <2>3. r[3] = r[0] /\ r[4] = r[1] /\ r[5] = r[2]
    <3>1. CASE q = 0
      BY <2>2, <3>1
    <3>2. CASE q = 1
      BY <2>2, <3>2
    <3>3. CASE q = 2
      BY <2>2, <3>3
    <3>4. CASE q = 3
      BY <2>2, <3>4
    <3>5. CASE q = 4
      BY <2>2, <3>5
    <3>6. CASE q = 5
      BY <2>2, <3>6
    <3> QED BY <1>3, <3>1, <3>2, <3>3, <3>4, <3>5, <3>6
  <2>4. \A i \in 3..5 : r[i] = r[i % 3]
    BY <2>3
  <2> QED BY <1>8, <2>4 DEF DetectPattern, PatternRingSize
<1> QED BY <1>6, <1>7, <1>8

-----------------------------------------------------------------------------
(* What a batch that is dispatched leaves behind.                           *)
LEMMA DispatchKeepsRing ==
    ASSUME NEW b \in Batches, LoopTypeOK, RingFollows, loop = "running",
           Track(b), made' = Dispatched(b)
    PROVE  /\ patternIdx' = Len(made')
           /\ \A i \in 1..Len(made') :
                 i > Len(made') - PatternRingSize =>
                     patternRing'[(i - 1) % PatternRingSize] = made'[i]
<1> DEFINE n == Len(made)
<1>1. /\ made \in Seq(Tools) /\ n \in Nat /\ patternIdx = n
      /\ patternRing \in [PatternSlots -> Tools \cup {NoTool}]
  BY DEF LoopTypeOK, RingFollows
<1>2. Len(b) \in Nat
  BY BatchIsSequence
<1>3. /\ Len(made') = n + Len(b)
      /\ \A i \in 1..n : made'[i] = made[i]
      /\ \A k \in 1..Len(b) : made'[n + k] = b[k].name
  BY <1>1, DispatchedIsSequence
<1>4. /\ \A k \in 1..Len(b) :
            k > Len(b) - PatternRingSize =>
                patternRing'[SlotOf(k)] = b[k].name
      /\ \A i \in PatternSlots :
            (\A k \in 1..Len(b) : SlotOf(k) # i) =>
                patternRing'[i] = patternRing[i]
  BY <1>1, PushedSlots DEF Track
<1> HIDE DEF n
<1>5. ASSUME NEW i \in 1..(n + Len(b)), i > n + Len(b) - PatternRingSize
      PROVE  patternRing'[(i - 1) % PatternRingSize] = made'[i]
  <2>1. CASE i > n
    <3> DEFINE k == i - n
    <3>1. k \in 1..Len(b) /\ k > Len(b) - PatternRingSize /\ n + k = i
      BY <1>1, <1>2, <1>5, <2>1 DEF PatternRingSize
    <3>2. SlotOf(k) = (i - 1) % PatternRingSize
      BY <1>1, <3>1 DEF SlotOf
    <3> QED BY <1>3, <1>4, <3>1, <3>2
  <2>2. CASE i <= n
    <3>1. i \in 1..n /\ i > n - PatternRingSize
      BY <1>1, <1>2, <1>5, <2>2 DEF PatternRingSize
    <3>2. (i - 1) % PatternRingSize \in PatternSlots
      BY <3>1, <1>1 DEF PatternSlots, PatternRingSize
    <3>3. \A k \in 1..Len(b) : SlotOf(k) # (i - 1) % PatternRingSize
      BY <1>1, <1>2, <1>5, <2>2 DEF SlotOf, PatternRingSize
    <3>4. patternRing[(i - 1) % PatternRingSize] = made[i]
      BY <3>1 DEF RingFollows, n
    <3> QED BY <1>3, <1>4, <3>1, <3>2, <3>3, <3>4
  <2> QED BY <1>1, <1>2, <2>1, <2>2
<1>6. patternIdx' = n + Len(b)
  BY <1>1 DEF Track
<1>7. Len(made') = n + Len(b)
  BY <1>3
<1>8. ASSUME NEW i \in 1..Len(made'), i > Len(made') - PatternRingSize
      PROVE  patternRing'[(i - 1) % PatternRingSize] = made'[i]
  <2>1. i \in 1..(n + Len(b)) /\ i > n + Len(b) - PatternRingSize
    BY <1>1, <1>2, <1>7, <1>8 DEF PatternRingSize
  <2> QED BY <1>5, <2>1
<1> QED BY <1>6, <1>7, <1>8

(* A batch that is dispatched does not complete a repetition.               *)
LEMMA DispatchCatches ==
    ASSUME NEW b \in Batches, LoopTypeOK, RingFollows, loop = "running",
           Track(b), made' = Dispatched(b), ~Detected
    PROVE  PatternCaught'
<1>1. made' \in Seq(Tools)
  BY DispatchedIsSequence DEF LoopTypeOK
<1>2. patternRing' \in [PatternSlots -> Tools \cup {NoTool}]
  BY PushedSlots DEF Track, LoopTypeOK
<1>3. ASSUME Len(made') >= PatternRingSize, Repeats(made')
      PROVE  FALSE
  <2>1. DetectPattern(patternRing')
    BY <1>1, <1>2, <1>3, DispatchKeepsRing, RepeatIsSeen
  <2> QED BY <1>3, <2>1, DispatchKeepsRing DEF Detected
<1> QED BY <1>3 DEF PatternCaught

(* A turn is appended and the conversation cut: still messages.             *)
LEMMA ConversationTyped ==
    ASSUME NEW b \in Batches, messages \in Seq(Messages),
           iteration \in 1..MaxRounds
    PROVE  Truncated(messages \o Turn(b)) \in Seq(Messages)
<1> DEFINE n == 1 + (IF OneResult THEN 1 ELSE Len(b))
           ms == messages \o Turn(b)
<1>1. n \in Nat
  BY BatchIsSequence
<1>2. Turn(b) \in [1..n -> Messages]
  BY ToolLoopAssumption DEF Turn, Messages, ToolLoopAssumption
<1>3. Turn(b) \in Seq(Messages)
  BY <1>1, <1>2
<1>4. ms \in Seq(Messages)
  BY <1>3
<1> HIDE DEF ms
<1>5. TooLong(ms) => Truncated(ms) \in Seq(Messages)
  <2> SUFFICES ASSUME TooLong(ms) PROVE Truncated(ms) \in Seq(Messages)
    OBVIOUS
  <2>1. MaxMessages \in Nat /\ MaxMessages > 0 /\ Len(ms) \in Nat
        /\ Len(ms) > MaxMessages
    BY <1>4, ToolLoopAssumption DEF TooLong, ToolLoopAssumption
  <2>2. Head(ms) \in Messages
    BY <1>4, <2>1
  <2>3. SubSeq(ms, Len(ms) - MaxMessages + 2, Len(ms)) \in Seq(Messages)
    BY <1>4, <2>1
  <2>4. <<Head(ms)>> \in Seq(Messages)
    BY <2>2
  <2>5. <<Head(ms)>> \o SubSeq(ms, Len(ms) - MaxMessages + 2, Len(ms)) \in Seq(Messages)
    BY <2>3, <2>4
  <2>6. Truncated(ms) = <<Head(ms)>> \o SubSeq(ms, Len(ms) - MaxMessages + 2, Len(ms))
    BY Zenon DEF Truncated
  <2> QED BY <2>5, <2>6
<1>6. ~TooLong(ms) => Truncated(ms) = ms
  BY Zenon DEF Truncated
<1>7. Truncated(ms) \in Seq(Messages)
  BY <1>4, <1>5, <1>6
<1> QED BY <1>7 DEF ms

-----------------------------------------------------------------------------
(* The first state.                                                         *)
LEMMA LoopInitInv == LoopInit => LoopInv
<1> SUFFICES ASSUME LoopInit PROVE LoopInv
  OBVIOUS
<1>1. messages \in Seq(Messages)
  BY ToolLoopAssumption DEF LoopInit, Messages, ToolLoopAssumption
<1>2. made = <<>> /\ made \in Seq(Tools) /\ Len(made) = 0
  BY DEF LoopInit
<1>3. lastCall \in Seq(Calls)
  BY DEF LoopInit
<1>4. LoopTypeOK
  BY <1>1, <1>2, <1>3, ToolLoopAssumption
     DEF LoopInit, LoopTypeOK, ToolLoopAssumption
<1>5. RingFollows
  BY <1>2 DEF LoopInit, RingFollows
<1>6. PatternCaught
  BY <1>2 DEF PatternCaught, PatternRingSize
<1> QED BY <1>4, <1>5, <1>6 DEF LoopInv

(* Every step; the run is over after any of them but a dispatch.            *)
LEMMA LoopStep ==
    ASSUME LoopInv, [LoopNext]_loopVars
    PROVE  LoopInv'
<1> USE DEF LoopInv
<1>a. /\ MaxRounds \in Nat /\ iteration \in 1..(MaxRounds + 1)
      /\ MaxIterations \in Nat
  BY ToolLoopAssumption DEF ToolLoopAssumption, LoopTypeOK
<1>b. ASSUME NEW b \in Batches, Remember(b)
      PROVE  lastCall' \in Seq(Calls)
  BY <1>b, BatchIsSequence DEF Remember
<1>c. ASSUME NEW text \in BOOLEAN, Asks, Heard(text)
      PROVE  iteration \in 1..MaxRounds /\ lastText' \in 0..MaxRounds
  BY <1>a, <1>c DEF Asks, Heard, LoopTypeOK
<1>d. ASSUME NEW b \in Batches, Track(b)
      PROVE  /\ patternRing' \in [PatternSlots -> Tools \cup {NoTool}]
             /\ patternIdx' \in Nat
  BY <1>d, BatchIsSequence, PushedSlots DEF Track, LoopTypeOK
<1>e. ASSUME UNCHANGED made, loop' # "running"
      PROVE  RingFollows' /\ PatternCaught'
  BY <1>e DEF RingFollows, PatternCaught, Repeats
<1>1. CASE CompletionFails
  <2>1. loop' # "running" /\ LoopTypeOK'
    BY <1>1, <1>a DEF CompletionFails, Asks, Reply, Ended, LoopTypeOK
  <2> QED BY <1>1, <1>e, <2>1 DEF CompletionFails, Ended
<1>2. CASE OutOfIterations
  <2>1. loop' # "running" /\ LoopTypeOK'
    BY <1>2, <1>a DEF OutOfIterations, Reply, Ended, LoopTypeOK
  <2> QED BY <1>2, <1>e, <2>1 DEF OutOfIterations, Ended
<1>3. ASSUME NEW text \in BOOLEAN, Unreadable(text)
      PROVE  LoopInv'
  <2>1. loop' # "running" /\ LoopTypeOK'
    BY <1>3, <1>c DEF Unreadable, Ended, LoopTypeOK
  <2> QED BY <1>3, <1>e, <2>1 DEF Unreadable, Ended
<1>4. ASSUME NEW text \in BOOLEAN, Answer(text)
      PROVE  LoopInv'
  <2>1. loop' # "running" /\ LoopTypeOK'
    BY <1>4, <1>c DEF Answer, Reply, Ended, LoopTypeOK
  <2> QED BY <1>4, <1>e, <2>1 DEF Answer, Ended
<1>5. ASSUME NEW text \in BOOLEAN, NEW b \in Batches, Cycle(b, text)
      PROVE  LoopInv'
  <2>1. loop' # "running" /\ LoopTypeOK'
    BY <1>5, <1>c DEF Cycle, Reply, Ended, LoopTypeOK
  <2> QED BY <1>5, <1>e, <2>1 DEF Cycle, Ended
<1>6. ASSUME NEW text \in BOOLEAN, NEW b \in Batches, CapReached(b, text)
      PROVE  LoopInv'
  <2>1. loop' # "running" /\ LoopTypeOK'
    BY <1>6, <1>b, <1>c DEF CapReached, ReplyText, Reply, Ended, LoopTypeOK
  <2> QED BY <1>6, <1>e, <2>1 DEF CapReached, Ended
<1>7. ASSUME NEW text \in BOOLEAN, NEW b \in Batches, PatternFound(b, text)
      PROVE  LoopInv'
  <2>1. loop' # "running" /\ LoopTypeOK'
    BY <1>7, <1>b, <1>c, <1>d
       DEF PatternFound, ReplyText, Reply, Ended, LoopTypeOK
  <2> QED BY <1>7, <1>e, <2>1 DEF PatternFound, Ended
<1>8. ASSUME NEW text \in BOOLEAN, NEW b \in Batches, Dispatch(b, text)
      PROVE  LoopInv'
  <2>1. iteration \in 1..MaxRounds /\ lastText' \in 0..MaxRounds
    BY <1>8, <1>c DEF Dispatch
  <2>2. loop = "running" /\ loop' = "running" /\ Track(b) /\ ~Detected
        /\ made' = Dispatched(b) /\ Remember(b)
    BY <1>8 DEF Dispatch, Asks
  <2>3. total' \in Nat
    BY <1>8, BatchIsSequence DEF Dispatch, LoopTypeOK
  <2>4. messages' \in Seq(Messages)
    BY <1>8, <2>1, ConversationTyped DEF Dispatch, LoopTypeOK
  <2>5. made' \in Seq(Tools)
    BY <2>2, DispatchedIsSequence DEF LoopTypeOK
  <2>6. iteration' \in 1..(MaxRounds + 1) /\ UNCHANGED <<loop, answer>>
    BY <1>8, <1>a, <2>1 DEF Dispatch
  <2>7. LoopTypeOK'
    BY <1>b, <1>d, <2>1, <2>2, <2>3, <2>4, <2>5, <2>6 DEF LoopTypeOK
  <2>8. RingFollows'
    BY <2>2, DispatchKeepsRing DEF RingFollows
  <2>9. PatternCaught'
    BY <2>2, DispatchCatches
  <2> QED BY <2>7, <2>8, <2>9
<1>9. ASSUME NEW text \in BOOLEAN, NEW b \in Batches, FormatFails(b, text)
      PROVE  LoopInv'
  <2>1. iteration \in 1..MaxRounds /\ lastText' \in 0..MaxRounds
    BY <1>9, <1>c DEF FormatFails
  <2>2. loop = "running" /\ loop' = "failed" /\ Track(b) /\ ~Detected
        /\ made' = Dispatched(b) /\ Remember(b)
        /\ UNCHANGED <<iteration, messages, answer>>
    BY <1>9 DEF FormatFails, Asks
  <2>3. total' \in Nat
    BY <1>9, BatchIsSequence DEF FormatFails, LoopTypeOK
  <2>4. made' \in Seq(Tools)
    BY <2>2, DispatchedIsSequence DEF LoopTypeOK
  <2>5. LoopTypeOK'
    BY <1>b, <1>d, <2>1, <2>2, <2>3, <2>4 DEF LoopTypeOK
  <2>6. RingFollows'
    BY <2>2 DEF RingFollows
  <2>7. PatternCaught'
    BY <2>2, DispatchCatches
  <2> QED BY <2>5, <2>6, <2>7
<1>10. CASE UNCHANGED loopVars
  BY <1>10 DEF loopVars, LoopTypeOK, RingFollows, PatternCaught, Repeats
<1> QED
  BY <1>1, <1>2, <1>3, <1>4, <1>5, <1>6, <1>7, <1>8, <1>9, <1>10 DEF LoopNext

(* The variables of a run keep their types.                                 *)
THEOREM LoopTyped == LoopSpec => []LoopTypeOK
<1>1. LoopInv => LoopTypeOK
  BY DEF LoopInv
<1> QED BY <1>1, LoopInitInv, LoopStep, PTL DEF LoopSpec

(* The calls a run dispatches never end in a repeating pattern, for any     *)
(* number of tools and any sizes of batches (executor.go:340-376).          *)
THEOREM LoopCatchesPatterns == LoopSpec => []PatternCaught
<1>1. LoopInv => PatternCaught
  BY DEF LoopInv
<1> QED BY <1>1, LoopInitInv, LoopStep, PTL DEF LoopSpec
-----------------------------------------------------------------------------
(* Plugins.                                                                *)

Process == [plugin: Plugins, alive: BOOLEAN, restarts: Nat, watched: BOOLEAN]
Runtime == [status: {"absent", "loaded", "enabled", "disabled", "error"},
            tools: {"none", "placeholder", "proxy"}, proc: Nat, hooked: BOOLEAN]

Stages == {"idle", "load", "register", "disable", "unload", "clean", "fetch", "enable"}
Call == [pc: Stages, plugin: Plugins \cup {NoPlugin}, enabled: BOOLEAN, path: BOOLEAN]

\* Every variable that the promises rest on keeps its shape.
PluginsTypeOK ==
    /\ server \in {"down", "restoring", "up"}
    /\ restore \subseteq Plugins
    /\ mem \in [Plugins -> Runtime]
    /\ saved \in [Plugins -> {"none", "enabled", "disabled"}]
    /\ procs \in Seq(Process)
    /\ install \in [Installers -> Call]
    /\ wanted \in [Plugins -> {"off", "on", "unsure"}]

\* Calls run only while the server serves, and RestoreEnabledPlugins only
\* before: what it has left has not been enabled by anybody else.
StartInv ==
    /\ \A c \in Installers :
          install[c].pc # "idle" => install[c].plugin \in Plugins /\ server = "up"
    /\ \A p \in restore : /\ server = "restoring"
                          /\ mem[p].status \in {"absent", "loaded"}
                          /\ wanted[p] # "off"

\* The row of a plugin that the last call switched off does not say "enabled".
WantedInv ==
    \A p \in Plugins :
        wanted[p] = "off" => saved[p] # "enabled" /\ mem[p].status # "enabled"

\* The tools, the process and the callbacks of a plugin are those of its status.
ToolsMatch(p) ==
    mem[p].tools = CASE mem[p].status = "absent" -> "none"
                     [] mem[p].status = "enabled" /\ p \in Running -> "proxy"
                     [] OTHER -> "placeholder"
ProcMatches(p) == (mem[p].proc # 0) <=> (mem[p].status = "enabled" /\ p \in Running)
HooksMatch(p) == mem[p].hooked <=> (mem[p].status = "enabled" /\ CalledBack(p))

Matches(p) == ToolsMatch(p) /\ ProcMatches(p) /\ HooksMatch(p)

PluginsInv ==
    /\ PluginsTypeOK
    /\ StartInv
    /\ WantedInv
    /\ \A p \in Plugins : Matches(p)

\* Stopping a process leaves the list of processes one.
LEMMA StopProcType ==
    ASSUME NEW ps \in Seq(Process), NEW i \in Nat
    PROVE  StopProc(ps, i) \in Seq(Process)
<1>1. CASE i \in 1 .. Len(ps)
  <2>1. ps[i] \in Process
    BY <1>1
  <2>2. [ps[i] EXCEPT !.alive = FALSE] \in Process
    BY <2>1 DEF Process
  <2>3. StopProc(ps, i) = [ps EXCEPT ![i] = [ps[i] EXCEPT !.alive = FALSE]]
    BY <1>1 DEF StopProc
  <2>. QED  BY <1>1, <2>2, <2>3
<1>2. CASE i \notin 1 .. Len(ps)
  <2>1. DOMAIN ps = 1 .. Len(ps)
    OBVIOUS
  <2>2. [ps EXCEPT ![i] = [ps[i] EXCEPT !.alive = FALSE]] = ps
    BY <1>2, <2>1
  <2>3. StopProc(ps, i) \in {ps, [ps EXCEPT ![i] = [ps[i] EXCEPT !.alive = FALSE]]}
    BY DEF StopProc
  <2>. QED  BY <2>2, <2>3
<1>. QED  BY <1>1, <1>2

\* What a method of the manager leaves of the plugins: it changes one of them,
\* and that one matches its status.
Touched(p) ==
    /\ mem' \in [Plugins -> Runtime] /\ procs' \in Seq(Process)
    /\ saved' \in [Plugins -> {"none", "enabled", "disabled"}]
    /\ \A q \in Plugins \ {p} : mem'[q] = mem[q] /\ saved'[q] = saved[q]
    /\ Matches(p)'

\* EnablePlugin when it works: a process and proxies for the tools of a plugin
\* that runs one, the placeholders for any other, and callbacks.
LEMMA EnableWorksTouches ==
    ASSUME PluginsTypeOK, NEW p \in Plugins, EnableWorks(p)
    PROVE  Touched(p) /\ mem'[p].status = "enabled"
<1>1. CalledBack(p) \in BOOLEAN
  BY DEF CalledBack
<1>2. PICK r \in Runtime :
        /\ mem' = [mem EXCEPT ![p] = r] /\ procs' \in Seq(Process)
        /\ r.status = "enabled" /\ r.hooked = CalledBack(p)
        /\ r.tools = IF p \in Running THEN "proxy" ELSE "placeholder"
        /\ (r.proc # 0) <=> (p \in Running)
  <2>1. CASE Runs(p)
    <3>. DEFINE r == [status |-> "enabled", tools |-> "proxy",
                      proc |-> Len(procs) + 1, hooked |-> CalledBack(p)]
    <3>1. Len(procs) \in Nat /\ Started(p) \in Process /\ procs \in Seq(Process)
      BY DEF PluginsTypeOK, Started, Process
    <3>2. p \in Running /\ procs' \in Seq(Process) /\ mem' = [mem EXCEPT ![p] = r]
      BY <2>1, <3>1 DEF Runs
    <3>3. r \in Runtime /\ r.proc # 0
      BY <1>1, <3>1 DEF Runtime
    <3>4. r.status = "enabled" /\ r.hooked = CalledBack(p) /\ r.tools = "proxy"
      OBVIOUS
    <3>. HIDE DEF r
    <3>. QED  BY <3>2, <3>3, <3>4
  <2>2. CASE OnlyMarked(p)
    <3>. DEFINE r == [status |-> "enabled", tools |-> "placeholder",
                      proc |-> 0, hooked |-> CalledBack(p)]
    <3>1. p \notin Running /\ procs' \in Seq(Process) /\ mem' = [mem EXCEPT ![p] = r]
      BY <2>2 DEF OnlyMarked, PluginsTypeOK
    <3>2. r \in Runtime /\ r.proc = 0
      BY <1>1 DEF Runtime
    <3>3. r.status = "enabled" /\ r.hooked = CalledBack(p) /\ r.tools = "placeholder"
      OBVIOUS
    <3>. HIDE DEF r
    <3>. QED  BY <3>1, <3>2, <3>3
  <2>. QED  BY <2>1, <2>2 DEF EnableWorks
<1>3. saved' \in {saved, [saved EXCEPT ![p] = "enabled"]}
  BY DEF EnableWorks
<1>4. /\ mem' \in [Plugins -> Runtime] /\ saved' \in [Plugins -> {"none", "enabled", "disabled"}]
      /\ \A q \in Plugins \ {p} : mem'[q] = mem[q] /\ saved'[q] = saved[q]
      /\ mem'[p] = r
  BY <1>2, <1>3 DEF PluginsTypeOK
<1>5. ToolsMatch(p)' /\ ProcMatches(p)'
  BY <1>2, <1>4 DEF ToolsMatch, ProcMatches
<1>6. HooksMatch(p)'
  BY <1>2, <1>4, Zenon DEF HooksMatch, CalledBack
<1>. QED  BY <1>2, <1>4, <1>5, <1>6 DEF Touched, Matches

\* EnablePlugin when it fails, for a plugin that is not enabled.
LEMMA EnableFailsTouches ==
    ASSUME PluginsInv, NEW p \in Plugins, EnableFails(p),
           mem[p].status \notin {"absent", "enabled"}
    PROVE  Touched(p) /\ mem'[p].status = "error" /\ saved' = saved
<1>. USE DEF PluginsInv
<1>1. [Started(p) EXCEPT !.alive = FALSE] \in Process
  BY DEF Started, Process
<1>2. procs' \in Seq(Process)
  BY SMTT(30), <1>1 DEF EnableFails, PluginsTypeOK
<1>3. mem' = [mem EXCEPT ![p] = [mem[p] EXCEPT !.status = "error"]] /\ saved' = saved
  BY DEF EnableFails
<1>4. mem[p] \in Runtime
  BY DEF PluginsTypeOK
<1>5. [mem[p] EXCEPT !.status = "error"] \in Runtime
  BY <1>4 DEF Runtime
<1>6. /\ mem' \in [Plugins -> Runtime]
      /\ \A q \in Plugins \ {p} : mem'[q] = mem[q]
  BY <1>3, <1>5 DEF PluginsTypeOK
<1>7. /\ mem'[p].status = "error" /\ mem'[p].tools = mem[p].tools
      /\ mem'[p].proc = mem[p].proc /\ mem'[p].hooked = mem[p].hooked
  BY <1>3, <1>4 DEF PluginsTypeOK, Runtime
<1>8. mem[p].tools = "placeholder" /\ mem[p].proc = 0
  BY <1>4 DEF Matches, ToolsMatch, ProcMatches, Runtime
<1>9. ToolsMatch(p)' /\ ProcMatches(p)'
  BY <1>7, <1>8 DEF ToolsMatch, ProcMatches
<1>10. HooksMatch(p)'
  <2>1. ~mem[p].hooked
    BY Zenon DEF Matches, HooksMatch
  <2>. QED  BY <1>7, <2>1, Zenon DEF HooksMatch
<1>. QED  BY <1>2, <1>3, <1>6, <1>7, <1>9, <1>10 DEF Touched, Matches, PluginsTypeOK

\* LoadPlugin, DisablePlugin and UnloadPlugin: no process, no callbacks, and
\* placeholders or nothing for tools.
LEMMA Rested ==
    ASSUME PluginsTypeOK, NEW p \in Plugins, NEW r \in {Absent, Loaded, Disabled(p)},
           mem' = [mem EXCEPT ![p] = r]
    PROVE  /\ mem' \in [Plugins -> Runtime]
           /\ \A q \in Plugins \ {p} : mem'[q] = mem[q]
           /\ mem'[p].status \in {"absent", "loaded", "disabled"}
           /\ Matches(p)'
<1>1. /\ Absent = [status |-> "absent", tools |-> "none", proc |-> 0, hooked |-> FALSE]
      /\ Loaded = [status |-> "loaded", tools |-> "placeholder", proc |-> 0, hooked |-> FALSE]
      /\ Disabled(p) = [status |-> "disabled", tools |-> "placeholder", proc |-> 0,
                        hooked |-> FALSE]
  <2>1. Loaded = [status |-> "loaded", tools |-> "placeholder", proc |-> 0, hooked |-> FALSE]
    BY DEF Loaded
  <2>2. Disabled(p) = [Loaded EXCEPT !.status = "disabled"]
    BY DEF Disabled
  <2>. QED  BY <2>1, <2>2 DEF Absent
<1>2. r \in Runtime
  <2>1. /\ [status |-> "absent", tools |-> "none", proc |-> 0, hooked |-> FALSE] \in Runtime
        /\ [status |-> "loaded", tools |-> "placeholder", proc |-> 0, hooked |-> FALSE] \in Runtime
        /\ [status |-> "disabled", tools |-> "placeholder", proc |-> 0, hooked |-> FALSE] \in Runtime
    BY DEF Runtime
  <2>. QED  BY <1>1, <2>1
<1>3. mem' \in [Plugins -> Runtime] /\ mem'[p] = r /\ \A q \in Plugins \ {p} : mem'[q] = mem[q]
  BY <1>2 DEF PluginsTypeOK
<1>4. r.status \in {"absent", "loaded", "disabled"} /\ r.proc = 0 /\ ~r.hooked
      /\ r.tools = IF r.status = "absent" THEN "none" ELSE "placeholder"
  BY <1>1
<1>5. ToolsMatch(p)' /\ ProcMatches(p)'
  BY <1>3, <1>4 DEF ToolsMatch, ProcMatches
<1>6. HooksMatch(p)'
  BY <1>3, <1>4 DEF HooksMatch
<1>. QED  BY <1>3, <1>4, <1>5, <1>6 DEF Matches

\* DisablePlugin and UnloadPlugin: the plugin is off in the map, and in the
\* store if the store wrote it.
LEMMA OffTouches ==
    ASSUME PluginsTypeOK, NEW p \in Plugins, DisablePlugin(p) \/ UnloadPlugin(p)
    PROVE  /\ Touched(p)
           /\ mem'[p].status \in {"absent", "loaded", "disabled"}
           /\ \/ saved'[p] # "enabled" /\ wanted' = [wanted EXCEPT ![p] = "off"]
              \/ wanted' = [wanted EXCEPT ![p] = "unsure"]
<1>1. mem[p].proc \in Nat
  BY DEF PluginsTypeOK, Runtime
<1>2. procs' \in Seq(Process)
  <2>1. procs' = StopProc(procs, mem[p].proc) /\ procs \in Seq(Process)
    BY DEF DisablePlugin, UnloadPlugin, PluginsTypeOK
  <2>. QED  BY <1>1, <2>1, StopProcType
<1>3. PICK r \in {Absent, Disabled(p)} : mem' = [mem EXCEPT ![p] = r]
  BY DEF DisablePlugin, UnloadPlugin
<1>4. /\ mem' \in [Plugins -> Runtime]
      /\ \A q \in Plugins \ {p} : mem'[q] = mem[q]
      /\ mem'[p].status \in {"absent", "loaded", "disabled"}
      /\ Matches(p)'
  BY <1>3, Rested
<1>5. PICK row \in {"disabled", "none"} : Off(p, row)
  BY DEF DisablePlugin, UnloadPlugin
<1>6. /\ saved' \in [Plugins -> {"none", "enabled", "disabled"}]
      /\ \A q \in Plugins \ {p} : saved'[q] = saved[q]
      /\ \/ saved'[p] # "enabled" /\ wanted' = [wanted EXCEPT ![p] = "off"]
         \/ wanted' = [wanted EXCEPT ![p] = "unsure"]
  BY <1>5 DEF Off, PluginsTypeOK
<1>. QED  BY <1>2, <1>4, <1>6 DEF Touched

\* A call that runs finds the server up and nothing left to restore.
LEMMA UpIsRestored ==
    ASSUME PluginsInv, server = "up"
    PROVE  restore = {}
BY DEF PluginsInv, StartInv, PluginsTypeOK

\* A call that is on its way is about a plugin.
CallsNameAPlugin ==
    \A c \in Installers : install[c].pc # "idle" => install[c].plugin \in Plugins

\* Where a call of install_plugin or upgrade_plugin goes next.
LEMMA CallMoves ==
    ASSUME PluginsInv, NEW c \in Installers,
           \/ InstallEnds(c)
           \/ /\ install[c].pc # "idle"
              /\ \E x \in Stages : install' = [install EXCEPT ![c].pc = x]
           \/ \E p \in Plugins, kind \in {"path", "url", "release"} : Fetched(c, p, kind)
    PROVE  install' \in [Installers -> Call] /\ CallsNameAPlugin'
<1>. USE DEF PluginsInv
<1>1. install \in [Installers -> Call] /\ CallsNameAPlugin /\ install[c] \in Call
  BY DEF PluginsTypeOK, StartInv, CallsNameAPlugin
<1>2. ASSUME NEW r \in Call, install' = [install EXCEPT ![c] = r],
             r.pc # "idle" => r.plugin \in Plugins
      PROVE  install' \in [Installers -> Call] /\ CallsNameAPlugin'
  BY <1>1, <1>2 DEF CallsNameAPlugin
<1>3. CASE InstallEnds(c)
  <2>1. NoInstall \in Call /\ NoInstall.pc = "idle"
    BY DEF NoInstall, Call, Stages
  <2>. QED  BY <1>2, <1>3, <2>1 DEF InstallEnds
<1>4. ASSUME NEW x \in Stages, install[c].pc # "idle",
             install' = [install EXCEPT ![c].pc = x]
      PROVE  install' \in [Installers -> Call] /\ CallsNameAPlugin'
  <2>1. install' = [install EXCEPT ![c] = [install[c] EXCEPT !.pc = x]]
    BY <1>4
  <2>2. [install[c] EXCEPT !.pc = x] \in Call
    BY <1>1 DEF Call
  <2>3. [install[c] EXCEPT !.pc = x].plugin \in Plugins
    BY <1>1, <1>4 DEF CallsNameAPlugin, Call
  <2>. QED  BY <1>2, <2>1, <2>2, <2>3
<1>5. ASSUME NEW p \in Plugins, NEW kind \in {"path", "url", "release"}, Fetched(c, p, kind)
      PROVE  install' \in [Installers -> Call] /\ CallsNameAPlugin'
  <2>. DEFINE r == [install[c] EXCEPT !.pc = "load", !.plugin = p, !.path = kind = "path"]
  <2>1. install' = [install EXCEPT ![c] = r]
    BY <1>5 DEF Fetched
  <2>2. r \in Call /\ r.plugin = p
    BY <1>1 DEF Call, Stages
  <2>. HIDE DEF r
  <2>. QED  BY <1>2, <2>1, <2>2
<1>. QED  BY <1>3, <1>4, <1>5

\* A method that a call runs while the server serves keeps the promises, if
\* what is enabled by it is wanted.
LEMMA MethodKeeps ==
    ASSUME PluginsInv, NEW p \in Plugins, Touched(p), server = "up",
           UNCHANGED <<server, restore>>,
           install' \in [Installers -> Call], CallsNameAPlugin',
           wanted' \in [Plugins -> {"off", "on", "unsure"}],
           \A q \in Plugins \ {p} : wanted'[q] = wanted[q],
           wanted'[p] = "off" => saved'[p] # "enabled" /\ mem'[p].status # "enabled"
    PROVE  PluginsInv'
<1>1. \A q \in Plugins \ {p} : Matches(q)'
  BY DEF PluginsInv, Matches, ToolsMatch, ProcMatches, HooksMatch, Touched
<1>2. WantedInv'
  BY DEF PluginsInv, WantedInv, Touched
<1>3. PluginsTypeOK'
  BY DEF PluginsInv, PluginsTypeOK, Touched
<1>4. StartInv'
  BY UpIsRestored DEF StartInv, CallsNameAPlugin
<1>. QED  BY <1>1, <1>2, <1>3, <1>4 DEF PluginsInv, Touched

\* A step that leaves the map, and in the store at most forgets, keeps them.
LEMMA QuietKeeps ==
    ASSUME PluginsInv, UNCHANGED <<server, restore, mem, wanted>>, procs' \in Seq(Process),
           saved' \in [Plugins -> {"none", "enabled", "disabled"}],
           \A q \in Plugins : saved'[q] \in {saved[q], "none"},
           \/ UNCHANGED install
           \/ server = "up" /\ install' \in [Installers -> Call] /\ CallsNameAPlugin'
    PROVE  PluginsInv'
<1>1. PluginsTypeOK'
  BY DEF PluginsInv, PluginsTypeOK
<1>2. StartInv'
  BY DEF PluginsInv, StartInv, CallsNameAPlugin
<1>3. WantedInv'
  BY DEF PluginsInv, WantedInv
<1>4. \A q \in Plugins : Matches(q)'
  BY DEF PluginsInv, Matches, ToolsMatch, ProcMatches, HooksMatch
<1>. QED  BY <1>1, <1>2, <1>3, <1>4 DEF PluginsInv

\* EnablePlugin, whether it works or not, as enable_plugin and upgrade_plugin
\* call it.
LEMMA EnableKeeps ==
    ASSUME PluginsInv, NEW p \in Plugins, server = "up",
           mem[p].status \notin {"absent", "enabled"},
           \/ EnableWorks(p) /\ wanted' = [wanted EXCEPT ![p] = "on"]
           \/ EnableFails(p) /\ UNCHANGED wanted,
           UNCHANGED <<server, restore>>,
           install' \in [Installers -> Call], CallsNameAPlugin'
    PROVE  PluginsInv'
<1>0. wanted \in [Plugins -> {"off", "on", "unsure"}]
  BY DEF PluginsInv, PluginsTypeOK
<1>1. CASE EnableWorks(p) /\ wanted' = [wanted EXCEPT ![p] = "on"]
  <2>1. Touched(p)
    BY <1>1, EnableWorksTouches DEF PluginsInv
  <2>2. /\ wanted' \in [Plugins -> {"off", "on", "unsure"}] /\ wanted'[p] = "on"
        /\ \A q \in Plugins \ {p} : wanted'[q] = wanted[q]
    BY <1>0, <1>1
  <2>. QED  BY <2>1, <2>2, MethodKeeps
<1>2. CASE EnableFails(p) /\ UNCHANGED wanted
  <2>1. Touched(p) /\ mem'[p].status = "error" /\ saved' = saved
    BY <1>2, EnableFailsTouches
  <2>2. wanted'[p] = "off" => saved'[p] # "enabled" /\ mem'[p].status # "enabled"
    BY <1>2, <2>1 DEF PluginsInv, WantedInv
  <2>. QED  BY <1>0, <1>2, <2>1, <2>2, MethodKeeps
<1>. QED  BY <1>1, <1>2

\* DisablePlugin and UnloadPlugin as the calls make them.
LEMMA OffKeeps ==
    ASSUME PluginsInv, NEW p \in Plugins, server = "up",
           DisablePlugin(p) \/ UnloadPlugin(p),
           UNCHANGED <<server, restore>>,
           install' \in [Installers -> Call], CallsNameAPlugin'
    PROVE  PluginsInv'
<1>0. wanted \in [Plugins -> {"off", "on", "unsure"}]
  BY DEF PluginsInv, PluginsTypeOK
<1>1. /\ Touched(p) /\ mem'[p].status \in {"absent", "loaded", "disabled"}
      /\ \/ saved'[p] # "enabled" /\ wanted' = [wanted EXCEPT ![p] = "off"]
         \/ wanted' = [wanted EXCEPT ![p] = "unsure"]
  BY OffTouches DEF PluginsInv
<1>2. /\ wanted' \in [Plugins -> {"off", "on", "unsure"}]
      /\ \A q \in Plugins \ {p} : wanted'[q] = wanted[q]
      /\ wanted'[p] = "off" => saved'[p] # "enabled" /\ mem'[p].status # "enabled"
  BY <1>0, <1>1
<1>. QED  BY <1>1, <1>2, MethodKeeps

LEMMA PluginsStart ==
    PluginsInit => PluginsInv
<1>. SUFFICES ASSUME PluginsInit PROVE PluginsInv
  OBVIOUS
<1>. USE DEF PluginsInit
<1>1. NoInstall \in Call /\ NoInstall.pc = "idle"
  BY DEF NoInstall, Call, Stages
<1>2. Absent \in Runtime /\ Absent.status = "absent" /\ Absent.tools = "none"
      /\ Absent.proc = 0 /\ ~Absent.hooked
  BY DEF Absent, Runtime
<1>3. PluginsTypeOK
  BY <1>1, <1>2 DEF PluginsTypeOK
<1>4. StartInv /\ WantedInv
  BY <1>1, <1>2 DEF StartInv, WantedInv
<1>5. \A p \in Plugins : Matches(p)
  BY <1>2 DEF Matches, ToolsMatch, ProcMatches, HooksMatch
<1>. QED  BY <1>3, <1>4, <1>5 DEF PluginsInv

\* The steps of the server and of the processes.
LEMMA ServerKeeps ==
    ASSUME PluginsInv,
           \/ \E i \in DOMAIN procs : ProcCrashes(i) \/ Monitor(i)
           \/ \E S \in SUBSET Plugins : ServerStarts(S)
           \/ Serves \/ ServerEnds
    PROVE  PluginsInv'
<1>0. PluginsTypeOK /\ procs \in Seq(Process)
  BY DEF PluginsInv, PluginsTypeOK
<1>1. ASSUME NEW i \in DOMAIN procs, ProcCrashes(i)
      PROVE  PluginsInv'
  <2>1. procs' = [procs EXCEPT ![i] = [procs[i] EXCEPT !.alive = FALSE]]
    BY <1>1 DEF ProcCrashes
  <2>2. procs[i] \in Process
    BY <1>0, <1>1
  <2>3. [procs[i] EXCEPT !.alive = FALSE] \in Process
    BY <2>2 DEF Process
  <2>4. procs' \in Seq(Process)
    BY <1>0, <2>1, <2>3
  <2>. QED  BY <1>0, <1>1, <2>4, QuietKeeps DEF ProcCrashes, PluginsTypeOK
<1>2. ASSUME NEW i \in DOMAIN procs, Monitor(i)
      PROVE  PluginsInv'
  <2>1. PICK again \in BOOLEAN :
          procs' = [procs EXCEPT ![i] = [procs[i] EXCEPT !.alive = again, !.watched = again,
                                                         !.restarts = @ + 1]]
    BY <1>2 DEF Monitor
  <2>2. procs[i] \in Process
    BY <1>0, <1>2
  <2>3. [procs[i] EXCEPT !.alive = again, !.watched = again, !.restarts = @ + 1] \in Process
    <3>1. procs[i].restarts + 1 \in Nat
      BY <2>2 DEF Process
    <3>. QED  BY <2>2, <3>1 DEF Process
  <2>4. procs' \in Seq(Process)
    BY <1>0, <2>1, <2>3
  <2>. QED  BY <1>0, <1>2, <2>4, QuietKeeps DEF Monitor, PluginsTypeOK
<1>3. ASSUME NEW S \in SUBSET Plugins, ServerStarts(S)
      PROVE  PluginsInv'
  <2>1. Absent \in Runtime /\ Absent.status = "absent" /\ Absent.tools = "none"
        /\ Absent.proc = 0 /\ ~Absent.hooked
    BY DEF Absent, Runtime
  <2>2. Loaded \in Runtime /\ Loaded.status = "loaded" /\ Loaded.tools = "placeholder"
        /\ Loaded.proc = 0 /\ ~Loaded.hooked
    BY DEF Loaded, Runtime
  <2>3. mem' \in [Plugins -> Runtime] /\ \A p \in Plugins : mem'[p] \in {Absent, Loaded}
    BY <1>3, <2>1, <2>2 DEF ServerStarts
  <2>4. PluginsTypeOK'
    BY <1>0, <1>3, <2>3 DEF ServerStarts, PluginsTypeOK
  <2>5. StartInv'
    BY <1>3, <2>1, <2>2, <2>3 DEF ServerStarts, PluginsInv, StartInv, WantedInv
  <2>6. WantedInv'
    BY <1>3, <2>1, <2>2, <2>3 DEF ServerStarts, PluginsInv, WantedInv
  <2>7. \A p \in Plugins : ToolsMatch(p)' /\ ProcMatches(p)'
    BY <2>1, <2>2, <2>3 DEF ToolsMatch, ProcMatches
  <2>8. \A p \in Plugins : HooksMatch(p)'
    BY <2>1, <2>2, <2>3 DEF HooksMatch
  <2>. QED  BY <2>4, <2>5, <2>6, <2>7, <2>8 DEF PluginsInv, Matches
<1>4. CASE Serves
  <2>1. PluginsTypeOK' /\ StartInv'
    BY <1>0, <1>4 DEF Serves, PluginsInv, PluginsTypeOK, StartInv
  <2>2. WantedInv' /\ \A p \in Plugins : Matches(p)'
    BY <1>4 DEF Serves, PluginsInv, WantedInv, Matches, ToolsMatch, ProcMatches, HooksMatch
  <2>. QED  BY <2>1, <2>2 DEF PluginsInv
<1>5. CASE ServerEnds
  <2>1. Absent \in Runtime /\ Absent.status = "absent" /\ Absent.tools = "none"
        /\ Absent.proc = 0 /\ ~Absent.hooked
    BY DEF Absent, Runtime
  <2>2. NoInstall \in Call /\ NoInstall.pc = "idle"
    BY DEF NoInstall, Call, Stages
  <2>3. PluginsTypeOK'
    BY <1>0, <1>5, <2>1, <2>2 DEF ServerEnds, PluginsTypeOK
  <2>4. StartInv' /\ WantedInv'
    BY <1>5, <2>1, <2>2 DEF ServerEnds, PluginsInv, StartInv, WantedInv
  <2>5. \A p \in Plugins : Matches(p)'
    BY <1>5, <2>1 DEF ServerEnds, Matches, ToolsMatch, ProcMatches, HooksMatch
  <2>. QED  BY <2>3, <2>4, <2>5 DEF PluginsInv
<1>. QED  BY <1>1, <1>2, <1>3, <1>4, <1>5

\* RestoreEnabledPlugins: the row says "enabled", so it is wanted.
LEMMA RestoreKeeps ==
    ASSUME PluginsInv, NEW p \in Plugins, Restore(p)
    PROVE  PluginsInv'
<1>1. /\ server = "restoring" /\ p \in restore /\ restore' = restore \ {p}
      /\ UNCHANGED <<server, install, wanted>>
      /\ PluginsTypeOK /\ mem[p].status \in {"absent", "loaded"} /\ wanted[p] # "off"
  BY DEF Restore, PluginsInv, StartInv
<1>2. CASE UNCHANGED <<mem, saved, procs>>
  <2>1. PluginsTypeOK' /\ StartInv' /\ WantedInv'
    BY <1>1, <1>2 DEF PluginsInv, PluginsTypeOK, StartInv, WantedInv
  <2>2. \A q \in Plugins : Matches(q)'
    BY <1>2 DEF PluginsInv, Matches, ToolsMatch, ProcMatches, HooksMatch
  <2>. QED  BY <2>1, <2>2 DEF PluginsInv
<1>3. CASE Touched(p)
  <2>1. PluginsTypeOK' /\ StartInv' /\ WantedInv'
    BY <1>1, <1>3 DEF Touched, PluginsInv, PluginsTypeOK, StartInv, WantedInv
  <2>2. \A q \in Plugins \ {p} : Matches(q)'
    BY <1>3 DEF Touched, PluginsInv, Matches, ToolsMatch, ProcMatches, HooksMatch
  <2>. QED  BY <1>3, <2>1, <2>2 DEF PluginsInv, Touched
<1>. QED  BY <1>1, <1>2, <1>3, EnableWorksTouches, EnableFailsTouches DEF Restore

\* enable_plugin, disable_plugin and uninstall_plugin.
LEMMA CallsKeep ==
    ASSUME PluginsInv, NEW p \in Plugins, Enable(p) \/ Disable(p) \/ Uninstall(p)
    PROVE  PluginsInv'
<1>1. /\ server = "up" /\ UNCHANGED <<server, restore, install>>
      /\ install' \in [Installers -> Call] /\ CallsNameAPlugin'
  BY DEF Enable, Disable, Uninstall, PluginsInv, PluginsTypeOK, StartInv, CallsNameAPlugin
<1>2. CASE Enable(p)
  BY <1>1, <1>2, EnableKeeps DEF Enable
<1>3. CASE DisablePlugin(p) \/ UnloadPlugin(p)
  BY <1>1, <1>3, OffKeeps
<1>4. CASE UnloadRefused(p)
  BY <1>1, <1>4, QuietKeeps DEF UnloadRefused, PluginsInv, PluginsTypeOK
<1>. QED  BY <1>2, <1>3, <1>4 DEF Disable, Uninstall

\* install_plugin and upgrade_plugin, begun.
LEMMA CallsStart ==
    ASSUME PluginsInv, NEW c \in Installers, NEW p \in Plugins, Install(c, p) \/ Upgrade(c, p)
    PROVE  PluginsInv'
<1>1. /\ server = "up" /\ UNCHANGED <<server, restore, mem, wanted, saved, procs>>
      /\ procs \in Seq(Process) /\ saved \in [Plugins -> {"none", "enabled", "disabled"}]
      /\ install \in [Installers -> Call] /\ CallsNameAPlugin
  BY DEF Install, Upgrade, PluginsInv, PluginsTypeOK, StartInv, CallsNameAPlugin
<1>2. CASE Install(c, p)
  BY <1>1, <1>2, CallMoves, QuietKeeps DEF Install
<1>3. CASE Upgrade(c, p)
  <2>1. PICK b \in BOOLEAN, x \in {"disable", "unload", "clean"} :
          install' = [install EXCEPT ![c] = [NoInstall EXCEPT !.plugin = p, !.enabled = b,
                                                              !.pc = x]]
    BY <1>3 DEF Upgrade
  <2>. DEFINE r == [NoInstall EXCEPT !.plugin = p, !.enabled = b, !.pc = x]
  <2>2. r \in Call /\ r.plugin = p
    BY DEF NoInstall, Call, Stages
  <2>3. install' = [install EXCEPT ![c] = r]
    BY <2>1
  <2>. HIDE DEF r
  <2>4. install' \in [Installers -> Call] /\ CallsNameAPlugin'
    BY <1>1, <2>2, <2>3 DEF CallsNameAPlugin
  <2>. QED  BY <1>1, <2>4, QuietKeeps
<1>. QED  BY <1>2, <1>3

\* The steps of a call that installs or upgrades, one method of the manager
\* each, with the steps of every other call in between.
LEMMA InstallKeeps ==
    ASSUME PluginsInv, NEW c \in Installers, InstallStep(c)
    PROVE  PluginsInv'
<1>0. PICK p \in Plugins : p = install[c].plugin
  BY DEF InstallStep, InstallLoad, InstallRegister, UpgradeDisable, UpgradeUnload, UpgradeClean,
         UpgradeFetch, UpgradeEnable, PluginsInv, StartInv
<1>1. /\ install[c].pc # "idle" /\ server = "up" /\ UNCHANGED <<server, restore>>
      /\ PluginsTypeOK
      /\ wanted \in [Plugins -> {"off", "on", "unsure"}]
      /\ procs \in Seq(Process) /\ saved \in [Plugins -> {"none", "enabled", "disabled"}]
  BY DEF InstallStep, InstallLoad, InstallRegister, UpgradeDisable, UpgradeUnload, UpgradeClean,
         UpgradeFetch, UpgradeEnable, PluginsInv, StartInv, PluginsTypeOK
<1>2. install' \in [Installers -> Call] /\ CallsNameAPlugin'
  <2>1. \/ InstallEnds(c)
        \/ \E x \in Stages : install' = [install EXCEPT ![c].pc = x]
        \/ \E kind \in {"path", "url", "release"} : Fetched(c, p, kind)
    BY <1>0 DEF InstallStep, InstallLoad, InstallRegister, UpgradeDisable, UpgradeUnload,
           UpgradeClean, UpgradeFetch, UpgradeEnable, Stages
  <2>. QED  BY <1>1, <2>1, CallMoves
<1>3. ASSUME UNCHANGED <<mem, wanted, saved, procs>> PROVE PluginsInv'
  BY <1>1, <1>2, <1>3, QuietKeeps
<1>4. ASSUME DisablePlugin(p) \/ UnloadPlugin(p) PROVE PluginsInv'
  BY <1>1, <1>2, <1>4, OffKeeps
<1>5. CASE InstallLoad(c)
  <2>1. CASE mem[p].status = "absent" /\ LoadPlugin(p)
    <3>1. Touched(p) /\ mem'[p].status \in {"absent", "loaded", "disabled"}
          /\ UNCHANGED <<saved, wanted>>
      <4>1. PICK r \in {Absent, Loaded, Disabled(p)} : mem' = [mem EXCEPT ![p] = r]
        BY <2>1 DEF LoadPlugin
      <4>2. /\ mem' \in [Plugins -> Runtime] /\ \A q \in Plugins \ {p} : mem'[q] = mem[q]
            /\ mem'[p].status \in {"absent", "loaded", "disabled"} /\ Matches(p)'
        BY <1>1, <4>1, Rested
      <4>. QED  BY <1>1, <1>5, <4>2 DEF InstallLoad, Touched
    <3>2. wanted'[p] = "off" => saved'[p] # "enabled" /\ mem'[p].status # "enabled"
      BY <1>1, <3>1 DEF PluginsInv, WantedInv
    <3>. QED  BY <1>1, <1>2, <3>1, <3>2, MethodKeeps
  <2>. QED  BY <1>0, <1>3, <1>5, <2>1 DEF InstallLoad
<1>6. CASE InstallRegister(c)
  BY <1>3, <1>6 DEF InstallRegister
<1>7. CASE UpgradeDisable(c)
  BY <1>0, <1>3, <1>4, <1>7 DEF UpgradeDisable
<1>8. CASE UpgradeUnload(c)
  BY <1>0, <1>3, <1>4, <1>8 DEF UpgradeUnload, UnloadRefused
<1>9. CASE UpgradeClean(c)
  <2>1. UNCHANGED <<mem, wanted, procs>> /\ saved' \in {saved, [saved EXCEPT ![p] = "none"]}
    BY <1>0, <1>9 DEF UpgradeClean
  <2>2. /\ saved' \in [Plugins -> {"none", "enabled", "disabled"}]
        /\ \A q \in Plugins : saved'[q] \in {saved[q], "none"}
    BY <1>1, <2>1
  <2>. QED  BY <1>1, <1>2, <2>1, <2>2, QuietKeeps
<1>10. CASE UpgradeFetch(c)
  BY <1>3, <1>10 DEF UpgradeFetch
<1>11. CASE UpgradeEnable(c)
  <2>1. CASE mem[p].status \in {"absent", "enabled"}
    BY <1>0, <1>3, <1>11, <2>1 DEF UpgradeEnable
  <2>2. CASE mem[p].status \notin {"absent", "enabled"}
    BY <1>0, <1>1, <1>2, <1>11, <2>2, EnableKeeps DEF UpgradeEnable
  <2>. QED  BY <2>1, <2>2
<1>. QED  BY <1>5, <1>6, <1>7, <1>8, <1>9, <1>10, <1>11 DEF InstallStep

LEMMA PluginsStep ==
    PluginsInv /\ [PluginsNext]_pluginVars => PluginsInv'
<1>1. ASSUME PluginsInv, UNCHANGED pluginVars
      PROVE  PluginsInv'
  BY <1>1, QuietKeeps DEF pluginVars, PluginsInv, PluginsTypeOK
<1>. QED  BY <1>1, ServerKeeps, RestoreKeeps, CallsKeep, CallsStart, InstallKeeps DEF PluginsNext

(* The tools, the process and the callbacks of every plugin are those of    *)
(* its type and status, a process and proxies of an enabled plugin of the   *)
(* types mcp and service alone, whatever the calls that install, upgrade, enable and disable *)
(* it at the same time and however often its process or the server dies     *)
(* (manager.go: LoadPlugin, EnablePlugin, DisablePlugin, UnloadPlugin).      *)
THEOREM PluginsRuntimeMatches == PluginsSpec => []RuntimeMatches
<1>1. PluginsInv => RuntimeMatches
  BY DEF PluginsInv, Matches, ToolsMatch, ProcMatches, HooksMatch, RuntimeMatches
<1>. QED  BY <1>1, PluginsStart, PluginsStep, PTL DEF PluginsSpec

(* A plugin that the last call disabled or uninstalled is not enabled, also *)
(* after a restart of the server, which reads what the store has of it      *)
(* (manager.go: RestoreEnabledPlugins): the rows that are left to restore   *)
(* are wanted, because every step that switches a plugin off either writes  *)
(* its row or leaves it open whether it is off.                             *)
THEOREM PluginsOffStayOff == PluginsSpec => []OffStaysOff
<1>1. PluginsInv => OffStaysOff
  BY DEF PluginsInv, WantedInv, OffStaysOff
<1>. QED  BY <1>1, PluginsStart, PluginsStep, PTL DEF PluginsSpec
-----------------------------------------------------------------------------
(* Refactoring transactions.                                               *)

EditPcs == {"idle", "get", "snapshot", "read", "write", "mark", "note", "return"}
TxStates == {"new", "open", "committing", "committed", "undoing", "restoring", "undone"}
Owners == Txs \cup {Plain}
Edit == [pc: EditPcs, by: Owners, files: Seq(Files), n: Nat, read: SUBSET Owners]

\* The variables of the manager and of the calls keep their types.
RefactorTypeOK ==
    /\ content \in [Files -> SUBSET Owners]
    /\ active \subseteq Txs
    /\ tx \in [Txs -> TxStates]
    /\ captured \in [Txs -> SUBSET Files]
    /\ snapshots \in [Txs -> [Files -> SUBSET Owners]]
    /\ left \in [Txs -> SUBSET Files]
    /\ busy \in [Editors -> Edit]
    /\ mingled \subseteq Txs

\* What a call r of a transaction has captured before it writes, and what it
\* has in hand.  A call of a transaction that is being undone has not got
\* further than asking for it.
GoodEdit(r) ==
    /\ r.pc # "idle" => r.n \in 1 .. Len(r.files)
    /\ r.pc \in {"get", "snapshot", "mark", "note"} => r.by # Plain
    /\ r.by # Plain => tx[r.by] # "new"
    /\ \A t \in r.read \ {r.by} : t # Plain => t \in mingled
    /\ (r.by # Plain /\ r.by \notin mingled) =>
          /\ tx[r.by] \in {"open", "committing"} =>
                /\ r.pc \in {"get", "snapshot"} =>
                      \A i \in 1 .. r.n - 1 : r.files[i] \in captured[r.by]
                /\ r.pc \in {"read", "write"} =>
                      \A i \in 1 .. Len(r.files) : r.files[i] \in captured[r.by]
          /\ tx[r.by] \in {"undoing", "restoring", "undone"} => r.pc = "get"

EditsInv == \A e \in Editors : GoodEdit(busy[e])

ActiveInv == \A t \in active : tx[t] = "open"

\* Nobody has captured the edits of a transaction that is on its own ...
SnapshotsInv == \A t \in Txs \ mingled : \A u \in Txs, f \in Files : t \notin snapshots[u][f]

\* ... and they are where it can undo them, or are gone.
ContentInv ==
    \A t \in Txs \ mingled : \A f \in Files :
        t \in content[f] =>
            /\ tx[t] \in {"new", "open", "committing", "undoing"} => f \in captured[t]
            /\ tx[t] = "restoring" => f \in left[t]
            /\ tx[t] # "undone"

RefactorInv ==
    RefactorTypeOK /\ EditsInv /\ ActiveInv /\ SnapshotsInv /\ ContentInv

LEMMA NoEditIsGood ==
    NoEdit \in Edit /\ GoodEdit(NoEdit)
<1>1. <<>> \in Seq(Files)
  OBVIOUS
<1>2. NoEdit \in Edit
  BY <1>1 DEF NoEdit, Edit, EditPcs, Owners
<1>3. NoEdit.pc = "idle" /\ NoEdit.by = Plain /\ NoEdit.read = {}
  BY DEF NoEdit
<1>. QED  BY <1>2, <1>3 DEF GoodEdit

LEMMA RefactorStart ==
    RefactorInit => RefactorInv
<1>. SUFFICES ASSUME RefactorInit PROVE RefactorInv
  OBVIOUS
<1>1. RefactorTypeOK
  BY NoEditIsGood DEF RefactorInit, RefactorTypeOK, TxStates, NoSnapshots
<1>2. EditsInv
  BY NoEditIsGood DEF RefactorInit, EditsInv
<1>3. ActiveInv /\ SnapshotsInv /\ ContentInv
  BY DEF RefactorInit, ActiveInv, SnapshotsInv, ContentInv, NoSnapshots
<1>. QED  BY <1>1, <1>2, <1>3 DEF RefactorInv

\* A step of one call leaves the other calls good.
LEMMA EditMoves ==
    ASSUME RefactorInv, NEW e \in Editors, NEW r \in Edit, GoodEdit(r)',
           busy' = [busy EXCEPT ![e] = r], UNCHANGED tx,
           mingled \subseteq mingled', \A u \in Txs : captured[u] \subseteq captured'[u]
    PROVE  busy' \in [Editors -> Edit] /\ EditsInv'
<1>1. busy \in [Editors -> Edit] /\ \A d \in Editors : busy[d] \in Edit /\ GoodEdit(busy[d])
  BY DEF RefactorInv, RefactorTypeOK, EditsInv
<1>2. ASSUME NEW d \in Editors \ {e}
      PROVE  GoodEdit(busy[d])'
  <2>1. PICK q \in Edit : q = busy[d]
    BY <1>1, <1>2
  <2>2. busy'[d] = q /\ GoodEdit(q) /\ (q.by # Plain => q.by \in Txs)
    BY <1>1, <1>2, <2>1 DEF Edit, Owners
  <2>3. GoodEdit(q)'
    BY <2>2 DEF GoodEdit
  <2>. QED  BY <2>2, <2>3
<1>3. busy'[e] = r /\ busy' \in [Editors -> Edit]
  BY <1>1
<1>. QED  BY <1>2, <1>3 DEF EditsInv

\* A step of a call that touches neither files nor transactions.
LEMMA EditKeeps ==
    ASSUME RefactorInv, NEW e \in Editors, NEW r \in Edit, GoodEdit(r)',
           busy' = [busy EXCEPT ![e] = r], UNCHANGED <<content, txVars>>,
           mingled \subseteq mingled', mingled' \subseteq Txs
    PROVE  RefactorInv'
<1>1. busy' \in [Editors -> Edit] /\ EditsInv'
  BY EditMoves DEF txVars
<1>2. RefactorTypeOK'
  BY <1>1 DEF RefactorInv, RefactorTypeOK, txVars
<1>3. ActiveInv' /\ SnapshotsInv' /\ ContentInv'
  BY DEF RefactorInv, ActiveInv, SnapshotsInv, ContentInv, txVars
<1>. QED  BY <1>1, <1>2, <1>3 DEF RefactorInv

\* Where a call stands that goes on to the next file or the next step.
LEMMA GoesOn ==
    ASSUME RefactorInv, NEW e \in Editors, NEW again \in EditPcs, NEW next \in EditPcs,
           GoOn(e, again, next), busy[e].pc # "idle"
    PROVE  \E r \in Edit :
              /\ busy' = [busy EXCEPT ![e] = r]
              /\ r.by = busy[e].by /\ r.files = busy[e].files /\ r.read = busy[e].read
              /\ r.n \in 1 .. Len(r.files)
              /\ \/ r.pc = again /\ r.n = busy[e].n + 1
                 \/ r.pc = next /\ busy[e].n = Len(r.files)
<1>. DEFINE b == busy[e]
            m == IF b.n < Len(b.files) THEN b.n + 1 ELSE 1
            pc == IF b.n < Len(b.files) THEN again ELSE next
            r == [b EXCEPT !.pc = pc, !.n = m]
<1>1. b \in Edit /\ b.n \in 1 .. Len(b.files) /\ Len(b.files) \in Nat
  BY DEF RefactorInv, RefactorTypeOK, EditsInv, GoodEdit, Edit
<1>2. m \in 1 .. Len(b.files) /\ pc \in EditPcs
  BY <1>1
<1>3. busy' = [busy EXCEPT ![e] = r]
  BY DEF GoOn
<1>4. r \in Edit /\ r.by = b.by /\ r.files = b.files /\ r.read = b.read /\ r.n = m /\ r.pc = pc
  <2>. HIDE DEF m, pc
  <2>1. m \in Nat
    BY <1>1, <1>2
  <2>. QED  BY <1>1, <1>2, <2>1 DEF Edit
<1>5. \/ pc = again /\ m = b.n + 1
      \/ pc = next /\ b.n = Len(b.files)
  BY <1>1
<1>. HIDE DEF r, m, pc
<1>. QED  BY <1>2, <1>3, <1>4, <1>5

\* The steps of a call that touch no file and no transaction.
LEMMA QuietEdits ==
    ASSUME RefactorInv, NEW e \in Editors,
           \/ \E b \in Owners, fs \in Targets : StartEdit(e, b, fs)
           \/ GetTransaction(e) \/ Read(e) \/ WriteFails(e) \/ GetMarked(e)
           \/ MarkModified(e) \/ Returns(e)
    PROVE  RefactorInv'
<1>. DEFINE b == busy[e]
<1>0. /\ b \in Edit /\ GoodEdit(b) /\ mingled \subseteq Txs /\ active \subseteq Txs
      /\ captured \in [Txs -> SUBSET Files]
      /\ \A t \in active : tx[t] = "open"
  BY DEF RefactorInv, RefactorTypeOK, EditsInv, ActiveInv
<1>1. ASSUME Leave(e), UNCHANGED <<content, txVars>>,
             mingled \subseteq mingled', mingled' \subseteq Txs
      PROVE  RefactorInv'
  <2>1. GoodEdit(NoEdit)'
    <3>1. NoEdit.pc = "idle" /\ NoEdit.by = Plain /\ NoEdit.read = {}
      BY DEF NoEdit
    <3>. QED  BY <3>1 DEF GoodEdit
  <2>. QED  BY <1>1, <2>1, NoEditIsGood, EditKeeps DEF Leave
<1>2. ASSUME NEW by \in Owners, NEW fs \in Targets, StartEdit(e, by, fs)
      PROVE  RefactorInv'
  <2>. DEFINE r == [NoEdit EXCEPT !.by = by, !.files = fs,
                                  !.pc = IF by = Plain THEN "read" ELSE "get"]
  <2>1. fs \in Seq(Files) /\ Len(fs) \in Nat /\ 1 <= Len(fs)
    <3>1. CASE fs \in {<<f>> : f \in Files}
      <4>1. PICK f \in Files : fs = <<f>>
        BY <3>1
      <4>. QED  BY <4>1
    <3>2. CASE fs \in Files \X Files
      <4>1. PICK f \in Files, g \in Files : fs = <<f, g>>
        BY <3>2
      <4>. QED  BY <4>1
    <3>. QED  BY <3>1, <3>2 DEF Targets
  <2>2. PICK x \in {"read", "get"} : x = IF by = Plain THEN "read" ELSE "get"
    OBVIOUS
  <2>3. r = [NoEdit EXCEPT !.by = by, !.files = fs, !.pc = x]
    BY <2>2
  <2>4. r \in Edit /\ r.by = by /\ r.files = fs /\ r.n = 1 /\ r.read = {} /\ r.pc = x
    <3>. HIDE DEF r
    <3>1. NoEdit \in Edit /\ NoEdit.n = 1 /\ NoEdit.read = {}
      BY NoEditIsGood DEF NoEdit
    <3>. QED  BY <2>1, <2>3, <3>1 DEF Edit, EditPcs
  <2>5. busy' = [busy EXCEPT ![e] = r] /\ UNCHANGED <<content, txVars, mingled>>
        /\ (by # Plain => tx[by] # "new")
    BY <1>2 DEF StartEdit
  <2>. HIDE DEF r
  <2>6. PICK k \in Edit : k = r
    BY <2>4
  <2>7. GoodEdit(k)
    <3>1. /\ k.pc = IF by = Plain THEN "read" ELSE "get"
          /\ k.by = by /\ k.n = 1 /\ k.read = {}
          /\ Len(k.files) \in Nat /\ 1 <= Len(k.files)
      BY <2>1, <2>2, <2>4, <2>6
    <3>2. k.n \in 1 .. Len(k.files)
      BY <3>1
    <3>3. k.n - 1 = 0 /\ 1 .. 0 = {}
      BY <3>1
    <3>. QED  BY <2>5, <3>1, <3>2, <3>3 DEF GoodEdit
  <2>8. GoodEdit(k)'
    BY <2>5, <2>7 DEF GoodEdit, txVars
  <2>. QED  BY <1>0, <2>5, <2>6, <2>8, EditKeeps
<1>3. CASE GetTransaction(e)
  <2>1. UNCHANGED <<content, txVars, mingled>> /\ b.pc = "get"
    BY <1>3 DEF GetTransaction
  <2>2. CASE b.by \in active
    <3>1. PICK r \in Edit : r = [b EXCEPT !.pc = "snapshot"]
      BY <1>0 DEF Edit, EditPcs
    <3>2. busy' = [busy EXCEPT ![e] = r]
      BY <1>3, <2>2, <3>1 DEF GetTransaction, GoTo
    <3>3. r.pc = "snapshot" /\ r.by = b.by /\ r.files = b.files /\ r.n = b.n /\ r.read = b.read
      BY <1>0, <3>1 DEF Edit
    <3>4. tx[b.by] = "open"
      BY <1>0, <2>2
    <3>5. GoodEdit(r)
      BY <1>0, <2>1, <3>3, <3>4 DEF GoodEdit
    <3>6. GoodEdit(r)'
      BY <2>1, <3>5 DEF GoodEdit, txVars
    <3>. QED  BY <1>0, <2>1, <3>2, <3>6, EditKeeps
  <2>. QED  BY <1>0, <1>1, <1>3, <2>1, <2>2 DEF GetTransaction
<1>4. CASE Read(e)
  <2>1. UNCHANGED <<content, txVars>> /\ b.pc = "read"
    BY <1>4 DEF Read
  <2>2. CASE /\ busy' = [busy EXCEPT ![e].pc = "write", ![e].read = content[File(e)]]
             /\ mingled' = mingled \cup Foreign(b.by, content[File(e)])
    <3>1. b.n \in 1 .. Len(b.files) /\ b.files \in Seq(Files)
      BY <1>0, <2>1 DEF GoodEdit, Edit
    <3>2. File(e) \in Files
      BY <3>1 DEF File
    <3>3. content[File(e)] \in SUBSET Owners
      BY <3>2 DEF RefactorInv, RefactorTypeOK
    <3>4. PICK r \in Edit : r = [b EXCEPT !.pc = "write", !.read = content[File(e)]]
      BY <1>0, <3>3 DEF Edit, EditPcs
    <3>5. busy' = [busy EXCEPT ![e] = r]
      BY <2>2, <3>4
    <3>6. r.pc = "write" /\ r.by = b.by /\ r.files = b.files /\ r.n = b.n
          /\ r.read = content[File(e)]
      BY <1>0, <3>4 DEF Edit
    <3>7. mingled \subseteq mingled' /\ mingled' \subseteq Txs
      BY <1>0, <2>2, <3>3 DEF Foreign, Owners
    <3>8. \A t \in r.read \ {r.by} : t # Plain => t \in mingled'
      BY <2>2, <3>6 DEF Foreign
    <3>9. GoodEdit(r)'
      BY <1>0, <2>1, <3>6, <3>7, <3>8 DEF GoodEdit, txVars
    <3>. QED  BY <2>1, <3>5, <3>7, <3>9, EditKeeps
  <2>. QED  BY <1>0, <1>1, <1>4, <2>1, <2>2 DEF Read
<1>5. CASE WriteFails(e)
  BY <1>0, <1>1, <1>5 DEF WriteFails
<1>6. ASSUME GoOn(e, "mark", "return"), b.pc \in {"mark", "note"},
             UNCHANGED <<content, txVars, mingled>>
      PROVE  RefactorInv'
  <2>1. PICK r \in Edit : /\ busy' = [busy EXCEPT ![e] = r]
                          /\ r.by = b.by /\ r.files = b.files /\ r.read = b.read
                          /\ r.n \in 1 .. Len(r.files) /\ r.pc \in {"mark", "return"}
    BY <1>6, GoesOn DEF EditPcs
  <2>2. GoodEdit(r)'
    BY <1>0, <1>6, <2>1 DEF GoodEdit, txVars
  <2>. QED  BY <1>0, <1>6, <2>1, <2>2, EditKeeps
<1>7. CASE GetMarked(e)
  <2>1. UNCHANGED <<content, txVars, mingled>> /\ b.pc = "mark"
    BY <1>7 DEF GetMarked
  <2>2. CASE b.by \in active
    <3>1. PICK r \in Edit : r = [b EXCEPT !.pc = "note"]
      BY <1>0 DEF Edit, EditPcs
    <3>2. busy' = [busy EXCEPT ![e] = r]
      BY <1>7, <2>2, <3>1 DEF GetMarked, GoTo
    <3>3. r.pc = "note" /\ r.by = b.by /\ r.files = b.files /\ r.n = b.n /\ r.read = b.read
      BY <1>0, <3>1 DEF Edit
    <3>4. GoodEdit(r)'
      BY <1>0, <2>1, <3>3 DEF GoodEdit, txVars
    <3>. QED  BY <1>0, <2>1, <3>2, <3>4, EditKeeps
  <2>. QED  BY <1>6, <1>7, <2>1, <2>2 DEF GetMarked
<1>8. CASE MarkModified(e)
  BY <1>0, <1>1, <1>6, <1>8 DEF MarkModified
<1>9. CASE Returns(e)
  BY <1>0, <1>1, <1>9 DEF Returns
<1>. QED  BY <1>2, <1>3, <1>4, <1>5, <1>7, <1>8, <1>9

\* SnapshotFile: what is in the file of other transactions mingles with this
\* one, and of its own there is nothing in a file it has not captured.
LEMMA SnapshotKeeps ==
    ASSUME RefactorInv, NEW e \in Editors, SnapshotFile(e)
    PROVE  RefactorInv'
<1>0. /\ busy[e] \in Edit /\ GoodEdit(busy[e]) /\ busy[e].pc = "snapshot"
      /\ RefactorTypeOK
  BY DEF RefactorInv, RefactorTypeOK, EditsInv, SnapshotFile
<1>1. PICK t \in Txs : t = busy[e].by
  BY <1>0 DEF GoodEdit, Edit, Owners
<1>2. PICK f \in Files : f = File(e)
  BY <1>0 DEF File, GoodEdit, Edit
<1>3. CASE Leave(e) /\ UNCHANGED <<content, txVars, mingled>>
  <2>1. GoodEdit(NoEdit)'
    <3>1. NoEdit.pc = "idle" /\ NoEdit.by = Plain /\ NoEdit.read = {}
      BY DEF NoEdit
    <3>. QED  BY <3>1 DEF GoodEdit
  <2>. QED  BY <1>0, <1>3, <2>1, NoEditIsGood, EditKeeps DEF Leave, RefactorTypeOK
<1>4. CASE /\ ~Gone(t) /\ captured' = [captured EXCEPT ![t] = @ \cup {f}]
           /\ snapshots' = [snapshots EXCEPT ![t][f] = Captured(t, f)]
           /\ mingled' = mingled \cup Foreign(t, content[f])
           /\ GoOn(e, "get", "read")
  <2>1. UNCHANGED <<content, active, tx, left>> /\ tx[t] \notin {"restoring", "committed", "undone"}
        /\ tx[t] # "new" /\ t # Plain
    BY <1>0, <1>1, <1>4, RefactorAssumption DEF SnapshotFile, Gone, GoodEdit
  <2>2. mingled \subseteq mingled' /\ mingled' \subseteq Txs
    BY <1>0, <1>1, <1>4 DEF RefactorTypeOK, Foreign, Owners
  <2>3. captured' \in [Txs -> SUBSET Files] /\ captured'[t] = captured[t] \cup {f}
        /\ \A u \in Txs : captured[u] \subseteq captured'[u]
    BY <1>0, <1>4 DEF RefactorTypeOK
  <2>4. Captured(t, f) \in SUBSET Owners
    BY <1>0 DEF RefactorTypeOK, Captured
  <2>5. snapshots' \in [Txs -> [Files -> SUBSET Owners]]
        /\ \A u \in Txs, g \in Files :
              snapshots'[u][g] = IF u = t /\ g = f THEN Captured(t, f) ELSE snapshots[u][g]
    BY <1>0, <1>4, <2>4 DEF RefactorTypeOK
  <2>6. PICK r \in Edit : /\ busy' = [busy EXCEPT ![e] = r]
                          /\ r.by = t /\ r.files = busy[e].files /\ r.read = busy[e].read
                          /\ r.n \in 1 .. Len(r.files)
                          /\ \/ r.pc = "get" /\ r.n = busy[e].n + 1
                             \/ r.pc = "read" /\ busy[e].n = Len(r.files)
    <3>1. "get" \in EditPcs /\ "read" \in EditPcs /\ busy[e].pc # "idle"
      BY <1>0 DEF EditPcs
    <3>2. GoOn(e, "get", "read")
      BY <1>4
    <3>3. \E r \in Edit :
             /\ busy' = [busy EXCEPT ![e] = r]
             /\ r.by = busy[e].by /\ r.files = busy[e].files /\ r.read = busy[e].read
             /\ r.n \in 1 .. Len(r.files)
             /\ \/ r.pc = "get" /\ r.n = busy[e].n + 1
                \/ r.pc = "read" /\ busy[e].n = Len(r.files)
      BY <3>1, <3>2, GoesOn
    <3>. QED  BY Zenon, <1>1, <3>3
  <2>7. GoodEdit(r)'
    <3>1. ASSUME t \notin mingled'
          PROVE  tx[t] # "undoing" /\ (\A i \in 1 .. busy[e].n : r.files[i] \in captured'[t])
      <4>1. tx[t] # "undoing"
        BY <1>0, <1>1, <2>1, <2>2, <3>1 DEF GoodEdit
      <4>2. tx[t] \in {"open", "committing"}
        BY <1>0, <2>1, <4>1 DEF RefactorTypeOK, TxStates
      <4>3. \A i \in 1 .. busy[e].n - 1 : r.files[i] \in captured[t]
        BY <1>0, <1>1, <2>1, <2>2, <2>6, <3>1, <4>2 DEF GoodEdit
      <4>4. r.files[busy[e].n] = f /\ busy[e].n \in Nat
        BY <1>0, <1>2, <2>6 DEF File, Edit
      <4>. QED  BY <2>3, <4>1, <4>3, <4>4
    <3>2. /\ r.pc \in {"get", "read"} /\ r.by = t /\ tx'[t] # "new"
          /\ r.n \in 1 .. Len(r.files)
      BY <2>1, <2>6
    <3>3. \A u \in r.read \ {r.by} : u # Plain => u \in mingled'
      BY <1>0, <1>1, <2>2, <2>6 DEF GoodEdit
    <3>4. t \notin mingled' =>
              /\ tx'[t] \notin {"undoing", "restoring", "undone"}
              /\ r.pc = "get" => \A i \in 1 .. r.n - 1 : r.files[i] \in captured'[t]
              /\ r.pc = "read" => \A i \in 1 .. Len(r.files) : r.files[i] \in captured'[t]
      <4>1. busy[e].n \in Nat
        BY <1>0 DEF Edit
      <4>. QED  BY <2>1, <2>6, <3>1, <4>1
    <3>. QED  BY <2>1, <3>2, <3>3, <3>4 DEF GoodEdit
  <2>8. busy' \in [Editors -> Edit] /\ EditsInv'
    BY <2>1, <2>2, <2>3, <2>6, <2>7, EditMoves
  <2>9. RefactorTypeOK'
    BY <1>0, <2>1, <2>2, <2>3, <2>5, <2>8 DEF RefactorTypeOK
  <2>10. SnapshotsInv'
    <3>. SUFFICES ASSUME NEW v \in Txs \ mingled' PROVE v \notin Captured(t, f)
      BY <2>2, <2>5 DEF RefactorInv, SnapshotsInv
    <3>1. CASE f \in captured[t]
      BY <2>2, <3>1 DEF RefactorInv, SnapshotsInv, Captured
    <3>2. CASE f \notin captured[t] /\ v # t
      BY <1>4, <3>2, RefactorAssumption DEF Captured, Foreign
    <3>3. CASE f \notin captured[t] /\ v = t
      BY <1>0, <2>1, <2>2, <3>3 DEF RefactorInv, ContentInv, Captured, RefactorTypeOK, TxStates
    <3>. QED  BY <3>1, <3>2, <3>3
  <2>11. ActiveInv' /\ ContentInv'
    BY <2>1, <2>2, <2>3 DEF RefactorInv, ActiveInv, ContentInv
  <2>. QED  BY <2>8, <2>9, <2>10, <2>11 DEF RefactorInv
<1>. QED  BY <1>1, <1>2, <1>3, <1>4 DEF SnapshotFile, txVars

\* writeLines writes what the call has read, and its own.
LEMMA WriteKeeps ==
    ASSUME RefactorInv, NEW e \in Editors, Write(e)
    PROVE  RefactorInv'
<1>0. /\ busy[e] \in Edit /\ GoodEdit(busy[e]) /\ busy[e].pc = "write"
      /\ RefactorTypeOK /\ UNCHANGED <<txVars, mingled>>
  BY DEF RefactorInv, RefactorTypeOK, EditsInv, Write
<1>1. PICK f \in Files : f = File(e)
  BY <1>0 DEF File, GoodEdit, Edit
<1>2. PICK next \in {"return", "mark"} : GoOn(e, "read", next) /\ (next = "mark" => busy[e].by # Plain)
  BY DEF Write
<1>3. PICK r \in Edit : /\ busy' = [busy EXCEPT ![e] = r]
                        /\ r.by = busy[e].by /\ r.files = busy[e].files /\ r.read = busy[e].read
                        /\ r.n \in 1 .. Len(r.files) /\ r.pc \in {"read", next}
  BY <1>0, <1>2, GoesOn DEF EditPcs
<1>4. GoodEdit(r)'
  BY <1>0, <1>2, <1>3 DEF GoodEdit, txVars
<1>5. busy' \in [Editors -> Edit] /\ EditsInv'
  BY <1>0, <1>3, <1>4, EditMoves DEF txVars
<1>6. content' \in [Files -> SUBSET Owners] /\ content'[f] = busy[e].read \cup {busy[e].by}
      /\ \A g \in Files \ {f} : content'[g] = content[g]
  BY <1>0, <1>1 DEF Write, RefactorTypeOK, Edit
<1>7. ContentInv'
  <2>. SUFFICES ASSUME NEW t \in Txs \ mingled, t \in content'[f]
                PROVE  tx[t] \in {"open", "committing", "committed"}
                       /\ (tx[t] \in {"open", "committing"} => f \in captured[t])
    BY <1>0, <1>6 DEF RefactorInv, ContentInv, txVars
  <2>1. t = busy[e].by /\ t # Plain
    BY <1>0, <1>6, RefactorAssumption DEF GoodEdit
  <2>2. tx[t] \in {"open", "committing", "committed"}
    BY <1>0, <2>1 DEF GoodEdit, RefactorTypeOK, TxStates
  <2>3. busy[e].n \in 1 .. Len(busy[e].files) /\ f = busy[e].files[busy[e].n]
    BY <1>0, <1>1 DEF GoodEdit, File
  <2>. QED  BY <1>0, <2>1, <2>2, <2>3 DEF GoodEdit
<1>8. RefactorTypeOK'
  BY <1>0, <1>5, <1>6 DEF RefactorTypeOK, txVars
<1>9. ActiveInv' /\ SnapshotsInv'
  BY <1>0 DEF RefactorInv, ActiveInv, SnapshotsInv, txVars
<1>. QED  BY <1>5, <1>7, <1>8, <1>9 DEF RefactorInv

\* A step of a transaction leaves its calls good, if it loses no capture while
\* they need it and strands none of them.
LEMMA TxMoves ==
    ASSUME RefactorInv, NEW t \in Txs, NEW how \in TxStates \ {"new"},
           tx' = [tx EXCEPT ![t] = how], UNCHANGED busy, mingled \subseteq mingled',
           how \notin {"open", "committing"} \/ captured' = captured,
           how \in {"open", "committing"} => tx[t] \in {"new", "open", "committing"},
           how \in {"undoing", "restoring", "undone"} =>
               \/ t \in mingled'
               \/ tx[t] \in {"undoing", "restoring", "undone"}
               \/ \A e \in Editors : busy[e].by # t,
           \A u \in Txs \ {t} : captured'[u] = captured[u]
    PROVE  EditsInv'
<1>. SUFFICES ASSUME NEW e \in Editors
              PROVE  GoodEdit(busy[e])'
  BY DEF EditsInv
<1>1. PICK b \in Edit : b = busy[e]
  BY DEF RefactorInv, RefactorTypeOK
<1>2. busy'[e] = b /\ GoodEdit(b)
  BY <1>1 DEF RefactorInv, EditsInv
<1>3. tx \in [Txs -> TxStates] /\ tx'[t] = how /\ \A u \in Txs \ {t} : tx'[u] = tx[u]
  BY DEF RefactorInv, RefactorTypeOK
<1>4. b.by # Plain => b.by \in Txs
  BY DEF Edit, Owners
<1>5. CASE b.by # t
  BY <1>1, <1>2, <1>3, <1>4, <1>5 DEF GoodEdit
<1>6. CASE b.by = t
  <2>1. ASSUME t \notin mingled', tx'[t] \in {"open", "committing"}
        PROVE  /\ b.pc \in {"get", "snapshot"} =>
                      \A i \in 1 .. b.n - 1 : b.files[i] \in captured'[t]
               /\ b.pc \in {"read", "write"} =>
                      \A i \in 1 .. Len(b.files) : b.files[i] \in captured'[t]
    BY <1>2, <1>3, <1>6, <2>1, RefactorAssumption DEF GoodEdit
  <2>2. ASSUME t \notin mingled', tx'[t] \in {"undoing", "restoring", "undone"}
        PROVE  b.pc = "get"
    BY <1>1, <1>2, <1>3, <1>6, <2>2, RefactorAssumption DEF GoodEdit
  <2>3. /\ b.pc # "idle" => b.n \in 1 .. Len(b.files)
        /\ b.pc \in {"get", "snapshot", "mark", "note"} => b.by # Plain
        /\ \A u \in b.read \ {b.by} : u # Plain => u \in mingled'
    BY <1>2 DEF GoodEdit
  <2>4. GoodEdit(b)'
    BY <1>3, <1>6, <2>1, <2>2, <2>3 DEF GoodEdit
  <2>. QED  BY <1>2, <2>4
<1>. QED  BY <1>5, <1>6

\* BeginTx, and the calls that commit or roll back.
LEMMA TxKeeps ==
    ASSUME RefactorInv, NEW t \in Txs,
           \/ BeginTx(t) \/ TakeToCommit(t) \/ TakeToUndo(t) \/ Commit(t)
           \/ Rollback(t) \/ RolledBack(t)
    PROVE  RefactorInv'
<1>0. RefactorTypeOK /\ ActiveInv /\ SnapshotsInv /\ ContentInv
  BY DEF RefactorInv
<1>1. CASE BeginTx(t)
  <2>1. EditsInv'
    BY <1>1, TxMoves DEF BeginTx, TxStates
  <2>2. RefactorTypeOK'
    BY <1>0, <1>1 DEF BeginTx, RefactorTypeOK, TxStates
  <2>3. ActiveInv'
    BY <1>0, <1>1 DEF BeginTx, ActiveInv, RefactorTypeOK
  <2>4. SnapshotsInv' /\ ContentInv'
    BY <1>0, <1>1 DEF BeginTx, SnapshotsInv, ContentInv, RefactorTypeOK
  <2>. QED  BY <2>1, <2>2, <2>3, <2>4 DEF RefactorInv
<1>2. CASE TakeToCommit(t)
  <2>0. tx[t] = "open"
    BY <1>0, <1>2 DEF TakeToCommit, TakeTx, ActiveInv
  <2>1. EditsInv'
    BY <1>2, <2>0, TxMoves DEF TakeToCommit, TakeTx, TxStates
  <2>2. RefactorTypeOK'
    BY <1>0, <1>2 DEF TakeToCommit, TakeTx, RefactorTypeOK, TxStates
  <2>3. ActiveInv'
    BY <1>0, <1>2 DEF TakeToCommit, TakeTx, ActiveInv, RefactorTypeOK
  <2>4. SnapshotsInv' /\ ContentInv'
    BY <1>0, <1>2, <2>0 DEF TakeToCommit, TakeTx, SnapshotsInv, ContentInv, RefactorTypeOK
  <2>. QED  BY <2>1, <2>2, <2>3, <2>4 DEF RefactorInv
<1>3. CASE TakeToUndo(t)
  <2>0. tx[t] = "open" /\ mingled \subseteq mingled' /\ mingled' \subseteq Txs
        /\ (t \in mingled' \/ \A e \in Editors : busy[e].by # t)
    BY <1>0, <1>3 DEF TakeToUndo, TakeTx, ActiveInv, RefactorTypeOK
  <2>1. EditsInv'
    BY <1>3, <2>0, TxMoves DEF TakeToUndo, TakeTx, TxStates
  <2>2. RefactorTypeOK'
    BY <1>0, <1>3, <2>0 DEF TakeToUndo, TakeTx, RefactorTypeOK, TxStates
  <2>3. ActiveInv'
    BY <1>0, <1>3 DEF TakeToUndo, TakeTx, ActiveInv, RefactorTypeOK
  <2>4. SnapshotsInv' /\ ContentInv'
    BY <1>0, <1>3, <2>0 DEF TakeToUndo, TakeTx, SnapshotsInv, ContentInv, RefactorTypeOK
  <2>. QED  BY <2>1, <2>2, <2>3, <2>4 DEF RefactorInv
<1>4. ASSUME NEW how \in {"committed", "undone"}, tx' = [tx EXCEPT ![t] = how],
             captured' = [captured EXCEPT ![t] = {}],
             snapshots' = [snapshots EXCEPT ![t] = NoSnapshots],
             UNCHANGED <<content, active, left, busy, mingled>>, tx[t] \in {"committing", "restoring"},
             how = "undone" => tx[t] = "restoring" /\ left[t] = {}
      PROVE  RefactorInv'
  <2>0. how \in TxStates \ {"new"} /\ \A u \in Txs \ {t} : captured'[u] = captured[u]
    BY <1>0, <1>4 DEF TxStates, RefactorTypeOK
  <2>1. EditsInv'
    BY <1>4, <2>0, TxMoves
  <2>2. NoSnapshots \in [Files -> SUBSET Owners] /\ \A f \in Files : NoSnapshots[f] = {}
    BY DEF NoSnapshots
  <2>3. RefactorTypeOK'
    BY <1>0, <1>4, <2>0, <2>2 DEF RefactorTypeOK
  <2>4. ActiveInv'
    BY <1>0, <1>4 DEF ActiveInv, RefactorTypeOK
  <2>5. SnapshotsInv'
    BY <1>0, <1>4, <2>2 DEF SnapshotsInv, RefactorTypeOK
  <2>6. ContentInv'
    BY <1>0, <1>4 DEF ContentInv, RefactorTypeOK
  <2>. QED  BY <2>1, <2>3, <2>4, <2>5, <2>6 DEF RefactorInv
<1>5. CASE Rollback(t)
  <2>1. EditsInv'
    BY <1>5, TxMoves DEF Rollback, TxStates
  <2>2. RefactorTypeOK'
    BY <1>0, <1>5 DEF Rollback, RefactorTypeOK, TxStates
  <2>3. ActiveInv'
    BY <1>0, <1>5 DEF Rollback, ActiveInv, RefactorTypeOK
  <2>4. SnapshotsInv' /\ ContentInv'
    BY <1>0, <1>5 DEF Rollback, SnapshotsInv, ContentInv, RefactorTypeOK
  <2>. QED  BY <2>1, <2>2, <2>3, <2>4 DEF RefactorInv
<1>6. CASE Commit(t)
  BY <1>4, <1>6 DEF Commit
<1>7. CASE RolledBack(t)
  BY <1>4, <1>7 DEF RolledBack
<1>. QED  BY <1>1, <1>2, <1>3, <1>5, <1>6, <1>7

\* A file that is restored holds none of the edits of this transaction, nor of
\* any other that can still undo its own.
LEMMA RestoreFileKeeps ==
    ASSUME RefactorInv, NEW t \in Txs, NEW f \in Files, RestoreFile(t, f) \/ RestoreFails(t, f)
    PROVE  RefactorInv'
<1>0. /\ RefactorTypeOK /\ ActiveInv /\ SnapshotsInv /\ ContentInv /\ EditsInv
      /\ tx[t] = "restoring" /\ left' = [left EXCEPT ![t] = @ \ {f}]
      /\ UNCHANGED <<active, tx, captured, snapshots, busy>>
      /\ mingled \subseteq mingled' /\ mingled' \subseteq Txs
  BY DEF RefactorInv, RestoreFile, RestoreFails, RefactorTypeOK
<1>1. EditsInv'
  BY <1>0 DEF EditsInv, GoodEdit
<1>2. left' \in [Txs -> SUBSET Files] /\ left'[t] = left[t] \ {f}
      /\ \A u \in Txs \ {t} : left'[u] = left[u]
  BY <1>0 DEF RefactorTypeOK
<1>3. CASE RestoreFile(t, f)
  <2>1. content' \in [Files -> SUBSET Owners] /\ content'[f] = snapshots[t][f]
        /\ \A g \in Files \ {f} : content'[g] = content[g]
    BY <1>0, <1>3 DEF RestoreFile, RefactorTypeOK
  <2>2. ContentInv'
    BY <1>0, <1>2, <2>1 DEF ContentInv, SnapshotsInv
  <2>3. RefactorTypeOK' /\ ActiveInv' /\ SnapshotsInv'
    BY <1>0, <1>2, <2>1 DEF RefactorTypeOK, ActiveInv, SnapshotsInv
  <2>. QED  BY <1>1, <2>2, <2>3 DEF RefactorInv
<1>4. CASE RestoreFails(t, f)
  <2>1. UNCHANGED content /\ t \in mingled'
    BY <1>4 DEF RestoreFails
  <2>2. ContentInv'
    BY <1>0, <1>2, <2>1 DEF ContentInv
  <2>3. RefactorTypeOK' /\ ActiveInv' /\ SnapshotsInv'
    BY <1>0, <1>2, <2>1 DEF RefactorTypeOK, ActiveInv, SnapshotsInv
  <2>. QED  BY <1>1, <2>2, <2>3 DEF RefactorInv
<1>. QED  BY <1>3, <1>4

LEMMA RefactorStep ==
    RefactorInv /\ [RefactorNext]_refactorVars => RefactorInv'
<1>1. ASSUME RefactorInv, UNCHANGED refactorVars
      PROVE  RefactorInv'
  BY <1>1 DEF refactorVars, txVars, RefactorInv, RefactorTypeOK, EditsInv, GoodEdit, ActiveInv,
              SnapshotsInv, ContentInv
<1>2. ASSUME RefactorInv, NEW e \in Editors, EditStep(e)
      PROVE  RefactorInv'
  BY <1>2, QuietEdits, SnapshotKeeps, WriteKeeps DEF EditStep
<1>3. ASSUME RefactorInv, NEW e \in Editors, NEW b \in Txs \cup {Plain}, NEW fs \in Targets,
             StartEdit(e, b, fs)
      PROVE  RefactorInv'
  BY <1>3, QuietEdits DEF Owners
<1>. QED  BY <1>1, <1>2, <1>3, TxKeeps, RestoreFileKeeps DEF RefactorNext

(* Rollback leaves nothing of a transaction in any file, for any number of   *)
(* transactions, calls and files, unless another call has had its edits in   *)
(* hand, one of its own calls outlasted it or a file could not be written    *)
(* (transaction.go: SnapshotFile, Commit, Rollback; handlers/refactor.go).   *)
THEOREM RefactorUndoes == RefactorSpec => []UndoneIsGone
<1>1. RefactorInv => UndoneIsGone
  BY DEF RefactorInv, ContentInv, UndoneIsGone
<1>. QED  BY <1>1, RefactorStart, RefactorStep, PTL DEF RefactorSpec
=============================================================================
