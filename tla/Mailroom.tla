------------------------------ MODULE Mailroom ------------------------------
(***************************************************************************)
(* AgentMail (internal/agentmail): the outbound queue of the postbox, the  *)
(* mailroom, which takes batches from it and hands each mail to an         *)
(* adapter, retries or quarantines it, the tracker of acknowledgements     *)
(* with its deadlines and partition locks, and the calls send_mail and     *)
(* ack_mail, which write the queue and the tracker one after the other.    *)
(***************************************************************************)
EXTENDS Integers, FiniteSets

CONSTANTS
    Mails,         \* their ids
    Workspaces, Space,  \* Space[m]: the workspace of mail m
    BatchSize,     \* how many mails one tick takes from the queue
    MaxRetries,    \* MailroomConfig.MaxRetries
    MaxMishaps     \* bound: failures of the store and restarts

ASSUME MailroomAssumption ==
    /\ Space \in [Mails -> Workspaces]
    /\ BatchSize \in Nat \ {0} /\ MaxRetries \in Nat \ {0}
    /\ MaxMishaps \in Nat

VARIABLES
    sender,      \* per mail: where its send_mail call is
    acks,        \* the mails with a row of agentmail_acks
    answering,   \* ack_mail has written the row and not told the tracker
    unheard,     \* answered, and the tracker did not take the answer
    queue,       \* the rows of agentmail_messages, outbound
    taken,       \* dequeued, and not yet handed over
    tries,       \* retryCount
    settled,     \* the mails an adapter has sent
    dead,        \* the rows of agentmail_dead_letters
    lost,        \* mails that a failure or a restart has lost
    pending,     \* the tracker's pending mails
    lapsed,      \* those whose deadline has passed
    acked,       \* the acknowledgements the tracker holds
    raised,      \* mails for which it raised a partition
    locks,       \* the workspaces with a partition lock
    mishaps      \* how many failures and restarts there were

sendVars == <<sender, queue, taken, tries, settled, dead, lost>>
ackVars == <<acks, answering, unheard>>
trackVars == <<ackVars, pending, lapsed, acked, raised, locks>>
mailVars == <<sendVars, trackVars, mishaps>>

Works(ok) ==
    /\ ok \/ mishaps < MaxMishaps
    /\ mishaps' = IF ok THEN mishaps ELSE mishaps + 1

MailInit ==
    /\ sender = [m \in Mails |-> "new"]
    /\ acks = {} /\ answering = {} /\ unheard = {}
    /\ queue = {} /\ taken = {} /\ tries = [m \in Mails |-> 0]
    /\ settled = {} /\ dead = {} /\ lost = {}
    /\ pending = {} /\ lapsed = {} /\ acked = {} /\ raised = {} /\ locks = {}
    /\ mishaps = 0

-----------------------------------------------------------------------------
(* send_mail: the row first, the tracker afterwards.                       *)

SendOutbound(m) ==
    /\ sender[m] = "new"
    /\ \E ok \in BOOLEAN :
         /\ Works(ok)
         /\ queue' = IF ok THEN queue \cup {m} ELSE queue
         /\ sender' = [sender EXCEPT ![m] = IF ok THEN "track" ELSE "done"]
    /\ UNCHANGED <<taken, tries, settled, dead, lost, trackVars>>

Track(m) ==
    /\ sender[m] = "track"
    /\ sender' = [sender EXCEPT ![m] = "done"]
    /\ pending' = pending \cup {m}
    /\ UNCHANGED <<queue, taken, tries, settled, dead, lost, ackVars, lapsed,
                   acked, raised, locks, mishaps>>

-----------------------------------------------------------------------------
(* The mailroom.                                                           *)

\* dispatchOutbound: DequeueOutbound takes the rows from the table, and the
\* acknowledgements that refer to them go with them (ON DELETE CASCADE).
Dispatch ==
    /\ taken = {} /\ queue # {}
    /\ \E ok \in BOOLEAN, S \in SUBSET queue :
         /\ Works(ok)
         /\ Cardinality(S) = IF Cardinality(queue) < BatchSize
                               THEN Cardinality(queue) ELSE BatchSize
         /\ taken' = IF ok THEN S ELSE {}
         /\ queue' = IF ok THEN queue \ S ELSE queue
         /\ acks' = IF ok THEN acks \ S ELSE acks
    /\ UNCHANGED <<sender, tries, settled, dead, lost, answering, unheard,
                   pending, lapsed, acked, raised, locks>>

\* deliverOutbound.
Deliver(m) ==
    /\ m \in taken
    /\ taken' = taken \ {m}
    /\ settled' = settled \cup {m}
    /\ tries' = [tries EXCEPT ![m] = 0]
    /\ UNCHANGED <<sender, queue, dead, lost, trackVars, mishaps>>

\* Mutant of Attempts: the count is cleared after every attempt.
AttemptsForgotten(m) == 1

Attempts(m) == tries[m] + 1

\* Mutant of Retries: a mail is queued again although it is quarantined.
RetriesAlways(m) == TRUE

Retries(m) == Attempts(m) < MaxRetries

\* handleDeliveryFailure, when no adapter can take the mail or one fails.
DeliveryFails(m) ==
    /\ m \in taken
    /\ taken' = taken \ {m}
    /\ \E ok \in BOOLEAN :
         /\ Works(ok)
         /\ queue' = IF ok /\ Retries(m) THEN queue \cup {m} ELSE queue
         /\ dead' = IF ok /\ Attempts(m) >= MaxRetries
                      THEN dead \cup {m} ELSE dead
         /\ lost' = IF ok THEN lost ELSE lost \cup {m}
    /\ tries' = [tries EXCEPT ![m] =
                   IF Attempts(m) < MaxRetries THEN Attempts(m) ELSE 0]
    /\ UNCHANGED <<sender, settled, trackVars>>

\* The process ends: what is in memory is gone, the rows stay.
MailCrash ==
    /\ Works(FALSE)
    /\ lost' = lost \cup taken
    /\ taken' = {} /\ tries' = [m \in Mails |-> 0]
    /\ sender' = [m \in Mails |->
                    IF sender[m] = "track" THEN "done" ELSE sender[m]]
    /\ answering' = {} /\ unheard' = unheard \cup answering
    /\ pending' = {} /\ lapsed' = {} /\ locks' = {}
    /\ UNCHANGED <<queue, settled, dead, acks, acked, raised>>

-----------------------------------------------------------------------------
(* Acknowledgements and deadlines.                                         *)

\* ack_mail, as often as it is called: the row first, whatever the tracker
\* knows.  It refers to that of the mail, and is refused once the mailroom has
\* taken it; the call then ends, as it does when the statement fails.
AckRow(m) ==
    /\ m \in queue /\ m \notin answering
    /\ acks' = acks \cup {m}
    /\ answering' = answering \cup {m}
    /\ UNCHANGED <<sendVars, unheard, pending, lapsed, acked, raised, locks,
                   mishaps>>

\* AckTracker.Acknowledge: an error when the mail is not tracked, not yet or
\* not any more; ack_mail logs it and answers that the mail is acknowledged.
Acknowledge(m) ==
    /\ m \in answering
    /\ answering' = answering \ {m}
    /\ IF m \in pending
         THEN /\ pending' = pending \ {m} /\ lapsed' = lapsed \ {m}
              /\ acked' = acked \cup {m} /\ UNCHANGED unheard
         ELSE /\ unheard' = unheard \cup {m}
              /\ UNCHANGED <<pending, lapsed, acked>>
    /\ UNCHANGED <<sendVars, acks, raised, locks, mishaps>>

\* The deadline of a pending mail passes.
Lapse(m) ==
    /\ m \in pending \ lapsed
    /\ lapsed' = lapsed \cup {m}
    /\ UNCHANGED <<sendVars, ackVars, pending, acked, raised, locks,
                   mishaps>>

\* Mutant of Watched: a mail stays pending after its partition is raised.
WatchedStill == pending

\* The mails that are still waited for after a check.
Watched == pending \ lapsed

\* checkDeadlines.
CheckDeadlines ==
    /\ lapsed # {}
    /\ raised' = raised \cup lapsed
    /\ locks' = locks \cup {Space[m] : m \in lapsed}
    /\ pending' = Watched /\ lapsed' = {}
    /\ UNCHANGED <<sendVars, ackVars, acked, mishaps>>

ResolvePartition(w) ==
    /\ w \in locks
    /\ locks' = locks \ {w}
    /\ UNCHANGED <<sendVars, ackVars, pending, lapsed, acked, raised,
                   mishaps>>

-----------------------------------------------------------------------------
MailNext ==
    \/ Dispatch \/ CheckDeadlines \/ MailCrash
    \/ \E w \in Workspaces : ResolvePartition(w)
    \/ \E m \in Mails :
          \/ SendOutbound(m) \/ Track(m) \/ Deliver(m) \/ DeliveryFails(m)
          \/ AckRow(m) \/ Acknowledge(m) \/ Lapse(m)

MailSpec == MailInit /\ [][MailNext]_mailVars

\* The loop of the mailroom and of the tracker, and the calls, go on; an
\* adapter need not ever work.
MailFairness ==
    /\ WF_mailVars(Dispatch) /\ WF_mailVars(CheckDeadlines)
    /\ \A m \in Mails :
          /\ WF_mailVars(Deliver(m) \/ DeliveryFails(m))
          /\ WF_mailVars(Track(m)) /\ WF_mailVars(Acknowledge(m))
          /\ WF_mailVars(Lapse(m))

-----------------------------------------------------------------------------
\* deliverOutbound and handleDeliveryFailure: a mail that was enqueued is in
\* one place, queued, in hand, sent, dead or lost by a failure, and never in
\* two: none is sent twice, and none is quarantined and retried.
MailInOnePlace ==
    LET places == <<queue, taken, settled, dead, lost>> IN
    \A i, j \in 1 .. 5 : i # j => places[i] \cap places[j] = {}

\* MaxRetries: a mail does not go round for ever, it is sent, quarantined or
\* lost, even if no adapter ever works.
MailSettles ==
    \A m \in Mails : m \in queue ~> m \in settled \cup dead \cup lost

\* checkDeadlines against Acknowledge: the tracker decides once of a mail, an
\* acknowledgement it took stops the partition.  Not so the row: ack_mail writes
\* it before it tells the tracker, and one that comes before the mail is tracked
\* or after its deadline stays, as acknowledged, beside the partition.  Wherever
\* they meet, the tracker did not take the answer, or is about to be told.
AckOrPartition ==
    /\ acked \cap raised = {}
    /\ acks \cap raised \subseteq answering \cup unheard
=============================================================================
