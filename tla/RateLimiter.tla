---------------------------- MODULE RateLimiter ----------------------------
(***************************************************************************)
(* The rate limiter of POST /auth/token (internal/auth/ratelimit.go): a    *)
(* bucket of tokens per address, which is refilled when it is looked at,   *)
(* and Cleanup, which forgets buckets.  Time goes in ticks, Minute of them *)
(* to a minute, and tokens are counted in shares of one Minute-th, so that *)
(* a tick refills RPM shares and a request costs Minute of them: the       *)
(* rounding of the floats is left out.                                     *)
(***************************************************************************)
EXTENDS Integers

CONSTANTS
    Addresses,
    RPM,        \* RateLimiter.rpm
    Minute,     \* ticks per minute
    MaxAge,     \* what Cleanup is called with, in ticks
    NoBucket,
    LastTick,   \* bound: how long a run lasts
    MaxCalls    \* bound: requests of an address within a tick

ASSUME RateLimiterAssumption ==
    /\ RPM \in Nat \ {0} /\ Minute \in Nat \ {0}
    /\ MaxAge \in Nat /\ MaxAge >= Minute
    /\ LastTick \in Nat /\ MaxCalls \in Nat
    /\ NoBucket \notin [tokens : Int, last : Int]

VARIABLES
    now,       \* the time
    bucket,    \* per address: tokenBucket
    calls,     \* per address: its requests within the tick
    total,     \* per address: its requests that were allowed
    before     \* per address and tick: those allowed before that tick

limitVars == <<now, bucket, calls, total, before>>

Ticks == 0 .. LastTick
Full == RPM * Minute

RateLimiterInit ==
    /\ now = 0
    /\ bucket = [a \in Addresses |-> NoBucket]
    /\ calls = [a \in Addresses |-> 0]
    /\ total = [a \in Addresses |-> 0]
    /\ before = [a \in Addresses |-> [t \in Ticks |-> 0]]

\* Mutant of Capped: an idle bucket fills without end.
CappedNever(n) == n

Capped(n) == IF n > Full THEN Full ELSE n

\* What a bucket holds once it is refilled; an address without one is given
\* a full bucket.
Refilled(a) ==
    IF bucket[a] = NoBucket THEN Full
    ELSE Capped(bucket[a].tokens + (now - bucket[a].last) * RPM)

\* Allow, under the mutex.
Allow(a) ==
    LET ok == Refilled(a) >= Minute IN
    /\ calls[a] < MaxCalls
    /\ calls' = [calls EXCEPT ![a] = @ + 1]
    /\ bucket' = [bucket EXCEPT ![a] =
                    [tokens |-> IF ok THEN Refilled(a) - Minute ELSE Refilled(a),
                     last |-> now]]
    /\ total' = IF ok THEN [total EXCEPT ![a] = @ + 1] ELSE total
    /\ UNCHANGED <<now, before>>

Stale(a) == bucket[a] # NoBucket /\ bucket[a].last < now - MaxAge

\* Cleanup, under the mutex.
Cleanup ==
    /\ bucket' = [a \in Addresses |-> IF Stale(a) THEN NoBucket ELSE bucket[a]]
    /\ UNCHANGED <<now, calls, total, before>>

Tick ==
    /\ now < LastTick
    /\ now' = now + 1
    /\ calls' = [a \in Addresses |-> 0]
    /\ before' = [a \in Addresses |-> [before[a] EXCEPT ![now + 1] = total[a]]]
    /\ UNCHANGED <<bucket, total>>

RateLimiterNext == Tick \/ Cleanup \/ \E a \in Addresses : Allow(a)

RateLimiterSpec == RateLimiterInit /\ [][RateLimiterNext]_limitVars

-----------------------------------------------------------------------------
RateLimiterTypeOK ==
    /\ now \in Ticks
    /\ bucket \in [Addresses ->
                     {NoBucket} \cup [tokens : 0 .. Full, last : Ticks]]
    /\ \A a \in Addresses : bucket[a] # NoBucket => bucket[a].last <= now
    /\ calls \in [Addresses -> 0 .. MaxCalls]
    /\ total \in [Addresses -> Nat]
    /\ before \in [Addresses -> [Ticks -> Nat]]

\* What the windows from tick s to now leave to an address: a full bucket and
\* what the window refills, less what was allowed in it.
Left(a, s) == Full + (now - s) * RPM - (total[a] - before[a][s]) * Minute

\* Allow lets a request pass exactly if every window that ends with it has
\* room for it: in any n ticks an address gets RPM requests and those that n
\* ticks refill, and it is never refused one without having used up such a
\* window, although a bucket is only looked at now and then, is cut at its
\* capacity and may be forgotten by Cleanup in between.
AllowsByWindows ==
    \A a \in Addresses :
        Refilled(a) >= Minute <=> \A s \in 0 .. now : Left(a, s) >= Minute
=============================================================================
