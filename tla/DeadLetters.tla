---------------------------- MODULE DeadLetters -----------------------------
(***************************************************************************)
(* The dead letter office (internal/agentmail/dlo.go): entries that calls  *)
(* retry and discard.  Retry holds the lock to count the attempt and to    *)
(* remove the entry, and not while it sends.                               *)
(***************************************************************************)
EXTENDS Integers, FiniteSets

CONSTANTS
    Letters,      \* their ids
    Retriers,     \* concurrent calls of Retry
    MaxAttempts,  \* DefaultMaxRetries
    NoLetter

ASSUME DeadLettersAssumption == MaxAttempts \in Nat /\ NoLetter \notin Letters

VARIABLES
    entries,   \* the map of entries
    known,     \* the entries there have ever been
    attempts,  \* Attempts of each entry
    retrier,   \* per call: the entry it sends again
    resent,    \* how often each entry was sent again
    arrived    \* how often that worked

officeVars == <<entries, known, attempts, retrier, resent, arrived>>

OfficeInit ==
    /\ entries = {} /\ known = {}
    /\ attempts = [e \in Letters |-> 0]
    /\ retrier = [c \in Retriers |-> NoLetter]
    /\ resent = [e \in Letters |-> 0] /\ arrived = [e \in Letters |-> 0]

Quarantine(e) ==
    /\ e \notin known
    /\ known' = known \cup {e} /\ entries' = entries \cup {e}
    /\ UNCHANGED <<attempts, retrier, resent, arrived>>

\* Mutant of Counted: the attempt is counted once it has failed.
CountedLate(e) == attempts

\* The attempt is counted before the lock is let go.
Counted(e) == [attempts EXCEPT ![e] = @ + 1]

RetryBegins(c, e) ==
    /\ retrier[c] = NoLetter /\ e \in entries
    /\ attempts[e] < MaxAttempts
    /\ attempts' = Counted(e)
    /\ retrier' = [retrier EXCEPT ![c] = e]
    /\ resent' = [resent EXCEPT ![e] = @ + 1]
    /\ UNCHANGED <<entries, known, arrived>>

RetryFails(c) ==
    /\ retrier[c] # NoLetter
    /\ retrier' = [retrier EXCEPT ![c] = NoLetter]
    /\ UNCHANGED <<entries, known, attempts, resent, arrived>>

RetryWorks(c) ==
    LET e == retrier[c] IN
    /\ e # NoLetter
    /\ retrier' = [retrier EXCEPT ![c] = NoLetter]
    /\ entries' = entries \ {e}
    /\ arrived' = [arrived EXCEPT ![e] = @ + 1]
    /\ UNCHANGED <<known, attempts, resent>>

Discard(e) ==
    /\ e \in entries
    /\ entries' = entries \ {e}
    /\ UNCHANGED <<known, attempts, retrier, resent, arrived>>

OfficeNext ==
    \/ \E e \in Letters : Quarantine(e) \/ Discard(e)
    \/ \E c \in Retriers :
          \/ RetryFails(c) \/ RetryWorks(c)
          \/ \E e \in Letters : RetryBegins(c, e)

OfficeSpec == OfficeInit /\ [][OfficeNext]_officeVars

-----------------------------------------------------------------------------
\* Retry: however many calls retry an entry at once, it is sent again at most
\* DefaultMaxRetries times, and is gone once that has worked.
ResentBounded ==
    \A e \in Letters :
        /\ resent[e] <= MaxAttempts
        /\ arrived[e] > 0 => e \notin entries
=============================================================================
