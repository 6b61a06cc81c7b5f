------------------------------ MODULE ToolLoop ------------------------------
(***************************************************************************)
(* One run of the tool-use executor (internal/tooluse/executor.go): the    *)
(* model is asked for a completion, the tool calls in its response are     *)
(* dispatched, the turn is appended to the conversation, and the model is  *)
(* asked again, until it answers without a call or one of the guards stops *)
(* the run.                                                                *)
(*                                                                         *)
(* A response is whether it has text, and its batch of calls.  What a call *)
(* does is left out: dispatchCall turns every error into a result.  The    *)
(* usage counters and the published events are left out as well.           *)
(***************************************************************************)
EXTENDS Integers, Sequences

CONSTANTS Tools,          \* tool names
          Arguments,      \* arguments of a call
          NoTool,         \* an empty slot of the pattern ring
          MaxIterations,  \* ExecutorConfig.MaxIterations
          MaxToolCalls,   \* ExecutorConfig.MaxTotalToolCalls, -1 for no cap
          MaxMessages,    \* ExecutorConfig.MaxContextMessages
          AutoContinue,   \* ExecutorConfig.AutoContinue
          Opening,        \* messages before the first completion
          OneResult,      \* the adapter puts a batch's results in one message
          MaxBatch,       \* bound on the calls of one response
          MaxRounds       \* bound on the completions of a run

ASSUME ToolLoopAssumption ==
    /\ NoTool \notin Tools
    /\ MaxIterations \in Nat \ {0}
    /\ MaxToolCalls \in Int \ {0}
    /\ MaxMessages \in Int \ {0}
    /\ Opening \in Nat \ {0}
    /\ MaxBatch \in Nat /\ MaxRounds \in Nat
    /\ AutoContinue \in BOOLEAN /\ OneResult \in BOOLEAN

VARIABLES
    loop,       \* "running", "answered" or "failed"
    iteration,
    lastText,   \* iteration of lastTextResp, 0 when there is none
    lastCall,   \* lastCallKey: a batch of one call, or <<>>
    total,      \* totalToolCalls
    patternRing, patternIdx,
    messages,   \* req.Messages
    answer,     \* iteration of the response the run returned, 0 for none
    made        \* history: the names of the calls dispatched, in order

loopVars == <<loop, iteration, lastText, lastCall, total, patternRing,
              patternIdx, messages, answer, made>>

PatternRingSize == 6
PatternSlots == 0..(PatternRingSize - 1)
Calls == [name: Tools, args: Arguments]
Batches == UNION {[1..n -> Calls] : n \in 1..MaxBatch}
Messages == [kind: {"said", "call", "result"}, turn: 0..MaxRounds]

LoopTypeOK ==
    /\ loop \in {"running", "answered", "failed"}
    /\ iteration \in 1..(MaxRounds + 1)
    /\ lastText \in 0..MaxRounds
    /\ lastCall \in Seq(Calls)
    /\ total \in Nat
    /\ patternRing \in [PatternSlots -> Tools \cup {NoTool}]
    /\ patternIdx \in Nat
    /\ messages \in Seq(Messages)
    /\ answer \in 0..MaxRounds
    /\ made \in Seq(Tools)

LoopInit ==
    /\ loop = "running"
    /\ iteration = 1
    /\ lastText = 0
    /\ lastCall = <<>>
    /\ total = 0
    /\ patternRing = [i \in PatternSlots |-> NoTool]
    /\ patternIdx = 0
    /\ messages = [i \in 1..Opening |-> [kind |-> "said", turn |-> 0]]
    /\ answer = 0
    /\ made = <<>>

-----------------------------------------------------------------------------
(* The model is asked in this iteration. *)
Asks ==
    /\ loop = "running"
    /\ iteration <= MaxIterations \/ AutoContinue
    /\ iteration <= MaxRounds

(* Bookkeeping of a response: text says whether its content is not empty. *)
Heard(text) == lastText' = IF text THEN iteration ELSE lastText

Reply(r) ==
    /\ loop' = "answered"
    /\ answer' = r

(* The guards answer with the last text there was, else with this response. *)
ReplyText == Reply(IF lastText' # 0 THEN lastText' ELSE iteration)

Ended == UNCHANGED <<iteration, total, messages, made>>

(* The completion fails: the last text is the answer if there is one. *)
CompletionFails ==
    /\ Asks
    /\ IF lastText # 0 THEN Reply(lastText)
       ELSE loop' = "failed" /\ UNCHANGED answer
    /\ UNCHANGED <<lastText, lastCall, patternRing, patternIdx>> /\ Ended

(* The adapter cannot read the response: an error, whatever was said. *)
Unreadable(text) ==
    /\ Asks
    /\ Heard(text)
    /\ loop' = "failed"
    /\ UNCHANGED <<answer, lastCall, patternRing, patternIdx>> /\ Ended

(* No calls: the final response. *)
Answer(text) ==
    /\ Asks
    /\ Heard(text)
    /\ Reply(iteration)
    /\ UNCHANGED <<lastCall, patternRing, patternIdx>> /\ Ended

(* The one call of the previous turn again, with the same arguments. *)
SameCall(b) == Len(b) = 1 /\ b = lastCall

Cycle(b, text) ==
    /\ Asks
    /\ Heard(text)
    /\ SameCall(b)
    /\ Reply(iteration)
    /\ UNCHANGED <<lastCall, patternRing, patternIdx>> /\ Ended

(* A batch of several calls forgets the single call before it. *)
Remember(b) == lastCall' = IF Len(b) = 1 THEN b ELSE <<>>

OverCap(b) == MaxToolCalls > 0 /\ total + Len(b) > MaxToolCalls

CapReached(b, text) ==
    /\ Asks
    /\ Heard(text)
    /\ ~SameCall(b) /\ Remember(b)
    /\ OverCap(b)
    /\ ReplyText
    /\ UNCHANGED <<patternRing, patternIdx>> /\ Ended

-----------------------------------------------------------------------------
(* The slot of the ring that call k of a batch is written to, and the last *)
(* of a batch's calls that is written to slot i.                           *)
SlotOf(k) == (patternIdx + k - 1) % PatternRingSize

LastIn(b, i) ==
    CHOOSE k \in DOMAIN b :
        /\ SlotOf(k) = i
        /\ \A j \in DOMAIN b : SlotOf(j) = i => j <= k

Pushed(b) ==
    [i \in PatternSlots |-> IF \E k \in DOMAIN b : SlotOf(k) = i
                     THEN b[LastIn(b, i)].name ELSE patternRing[i]]

Track(b) ==
    /\ patternRing' = Pushed(b)
    /\ patternIdx' = patternIdx + Len(b)

(* detectRepeatingPattern looks at the ring as it lies, not from its oldest *)
(* entry: period 1, 2 or 3, each of which divides the ring's size.          *)
DetectPattern(r) ==
    \E p \in 1..3 : \A i \in p..(PatternRingSize - 1) : r[i] = r[i % p]

(* Mutant of Detected: the ring is looked at only when it has just been filled. *)
DetectedWhenFull ==
    patternIdx' % PatternRingSize = 0 /\ DetectPattern(patternRing')

Detected == patternIdx' >= PatternRingSize /\ DetectPattern(patternRing')

PatternFound(b, text) ==
    /\ Asks
    /\ Heard(text)
    /\ ~SameCall(b) /\ Remember(b)
    /\ ~OverCap(b)
    /\ Track(b)
    /\ Detected
    /\ ReplyText
    /\ Ended

-----------------------------------------------------------------------------
(* FormatTurnMessages: the assistant's message with the calls, then their  *)
(* results.                                                                *)
Turn(b) ==
    LET results == IF OneResult THEN 1 ELSE Len(b) IN
    [i \in 1..(1 + results) |->
        [kind |-> IF i = 1 THEN "call" ELSE "result", turn |-> iteration]]

TooLong(ms) == MaxMessages > 0 /\ Len(ms) > MaxMessages

(* The first message and the newest MaxMessages - 1 others. *)
Truncated(ms) ==
    IF TooLong(ms)
    THEN <<Head(ms)>> \o SubSeq(ms, Len(ms) - MaxMessages + 2, Len(ms))
    ELSE ms

(* dispatchCall: whatever comes of a call, an unknown tool included, is a   *)
(* result, so that a batch is always dispatched to its end.                 *)
Dispatched(b) == made \o [i \in DOMAIN b |-> b[i].name]

(* The batch is dispatched and the turn appended.  A truncation gives the   *)
(* run a new budget of calls.                                               *)
Dispatch(b, text) ==
    /\ Asks
    /\ Heard(text)
    /\ ~SameCall(b) /\ Remember(b)
    /\ ~OverCap(b)
    /\ Track(b)
    /\ ~Detected
    /\ made' = Dispatched(b)
    /\ messages' = Truncated(messages \o Turn(b))
    /\ total' = IF TooLong(messages \o Turn(b)) THEN 0 ELSE total + Len(b)
    /\ iteration' = iteration + 1
    /\ UNCHANGED <<loop, answer>>

(* The turn cannot be formatted: the calls were dispatched, the run fails. *)
FormatFails(b, text) ==
    /\ Asks
    /\ Heard(text)
    /\ ~SameCall(b) /\ Remember(b)
    /\ ~OverCap(b)
    /\ Track(b)
    /\ ~Detected
    /\ made' = Dispatched(b)
    /\ total' = total + Len(b)
    /\ loop' = "failed"
    /\ UNCHANGED <<iteration, messages, answer>>

OutOfIterations ==
    /\ loop = "running"
    /\ iteration > MaxIterations /\ ~AutoContinue
    /\ IF lastText # 0 THEN Reply(lastText)
       ELSE loop' = "failed" /\ UNCHANGED answer
    /\ UNCHANGED <<lastText, lastCall, patternRing, patternIdx>> /\ Ended

-----------------------------------------------------------------------------
LoopNext ==
    \/ CompletionFails
    \/ OutOfIterations
    \/ \E text \in BOOLEAN :
          \/ Unreadable(text)
          \/ Answer(text)
          \/ \E b \in Batches :
                \/ Cycle(b, text)
                \/ CapReached(b, text)
                \/ PatternFound(b, text)
                \/ Dispatch(b, text)
                \/ FormatFails(b, text)

LoopSpec == LoopInit /\ [][LoopNext]_loopVars

-----------------------------------------------------------------------------
(* The names s end in a pattern of one, two or three tools, repeated until *)
(* it fills the ring.                                                      *)
Repeats(s) ==
    \E p \in 1..3 : \A i \in (Len(s) - PatternRingSize + 1)..(Len(s) - p) :
        s[i] = s[i + p]

(* Whatever batches the calls came in, and wherever the ring has wrapped,  *)
(* the calls dispatched so far never end in a repeating pattern: the run   *)
(* stops before the batch that would complete it ("Pattern-based cycle     *)
(* detection", executor.go:340-376).  A pattern that lies inside a batch   *)
(* or ends before its last call is not looked for.                         *)
PatternCaught == Len(made) >= PatternRingSize => ~Repeats(made)

(* The results in the conversation follow the message with their calls:    *)
(* FormatTurnMessages builds a turn as "An assistant message with the raw  *)
(* content blocks (text + tool_use)" and then the results                  *)
(* (adapter_anthropic.go:104-107).                                         *)
ResultsFollowCalls ==
    \A i \in DOMAIN messages :
        messages[i].kind = "result" =>
            \E j \in 1..(i - 1) :
                messages[j].kind = "call" /\ messages[j].turn = messages[i].turn
=============================================================================
