------------------------------ MODULE RateLimit ------------------------------
(***************************************************************************)
(* enforceRateLimit (apps/web/src/server/rate-limit.ts) for one key: a     *)
(* counter in Redis that the first request of a window gives its time to   *)
(* live, and one in the memory of the process for when Redis fails.        *)
(***************************************************************************)
EXTENDS Naturals

CONSTANTS
    Hit,            \* requests at work
    Allowed,        \* input.limit
    RedisFails      \* whether Redis may fail and processes die

ASSUME RateConstants == Allowed \in Nat \ {0} /\ RedisFails \in BOOLEAN

VARIABLES
    count,      \* the Redis counter, 0 if there is none; beyond Allowed it is Allowed + 1
    ttl,        \* whether it has a time to live
    memory,     \* the entry of inMemoryHits, 0 if there is none that has not expired
    expiring,   \* requests that are before the second Redis command
    cut         \* the command was lost for the counter that is there (a history)

rateVars == <<count, ttl, memory, expiring, cut>>

Counts == 0..(Allowed + 1)

RateTypeOK ==
    /\ count \in Counts /\ memory \in Counts
    /\ ttl \in BOOLEAN /\ cut \in BOOLEAN
    /\ expiring \subseteq Hit

RateInit == count = 0 /\ ttl = FALSE /\ memory = 0 /\ expiring = {} /\ cut = FALSE

OneMore(n) == IF n > Allowed THEN n ELSE n + 1

\* The catch: the request counts in memory.
Fallback == memory' = OneMore(memory)

\* redis.incr; only the request that finds no counter goes on to the expiry, and it alone
\* may lose the counter's time to live.
Increment(h) ==
    /\ h \notin expiring
    /\ count' = OneMore(count)
    /\ IF count = 0
       THEN \/ expiring' = expiring \cup {h} /\ UNCHANGED <<memory, cut>>
            \/ RedisFails /\ Fallback /\ cut' = TRUE /\ UNCHANGED expiring
       ELSE (UNCHANGED memory \/ (RedisFails /\ Fallback)) /\ UNCHANGED <<expiring, cut>>
    /\ UNCHANGED ttl

\* Redis cannot be reached.
IncrementFails(h) ==
    /\ RedisFails
    /\ h \notin expiring
    /\ Fallback
    /\ UNCHANGED <<count, ttl, expiring, cut>>

\* Mutant of Expire: it only sets what has not passed the limit yet.
ExpireBelowLimit(h) ==
    /\ h \in expiring
    /\ expiring' = expiring \ {h}
    /\ ttl' = (ttl \/ count <= Allowed)
    /\ UNCHANGED <<count, memory, cut>>

\* redis.expire: done, done without an answer, or not done.
Expire(h) ==
    /\ h \in expiring
    /\ expiring' = expiring \ {h}
    /\ \/ ttl' = TRUE /\ UNCHANGED <<memory, cut>>
       \/ RedisFails /\ Fallback /\ ttl' = TRUE /\ UNCHANGED cut
       \/ RedisFails /\ (Fallback \/ UNCHANGED memory) /\ cut' = TRUE /\ UNCHANGED ttl
    /\ UNCHANGED count

WindowEnds ==
    /\ ttl
    /\ count' = 0 /\ ttl' = FALSE /\ cut' = FALSE
    /\ UNCHANGED <<memory, expiring>>

\* The entry in memory expires, or the process is started again.
Forget == memory' = 0 /\ UNCHANGED <<count, ttl, expiring, cut>>

RateNext == (\E h \in Hit : Increment(h) \/ IncrementFails(h) \/ Expire(h)) \/ WindowEnds \/ Forget

RateSpec == RateInit /\ [][RateNext]_rateVars

-----------------------------------------------------------------------------
(* Properties                                                               *)

\* A counter that never expires, which blocks its key for good once the limit is reached,
\* comes from a request that was cut between the two commands and from nothing else.
WindowCloses == count > 0 /\ ~ttl => cut \/ expiring # {}

=============================================================================
