------------------------------ MODULE KvStore -------------------------------
(***************************************************************************)
(* Per-function key-value storage (apps/web/src/server/kv-store.ts) for one *)
(* function: rows of `fn_kv` with an expiry, and the requests of its        *)
(* executions.  Every statement is a step; the quota of a new key is        *)
(* checked by three statements before the upsert, in no transaction.        *)
(* `now` is one clock for the servers and the database, and a request reads *)
(* it with the statement that uses it, except that `expiresAt` is fixed     *)
(* before the quota check.                                                  *)
(***************************************************************************)
EXTENDS Naturals, FiniteSets

CONSTANTS
    Key, Handler,
    MaxKeys,        \* plan limit maxKvKeysPerFunction
    Text,           \* any value that is not a number
    MaxNumber,      \* bound: the largest number stored
    MaxTime         \* bound: the clock

ASSUME ConstantsOK ==
    /\ IsFiniteSet(Key) /\ IsFiniteSet(Handler) /\ Handler # {}
    /\ MaxKeys \in Nat /\ MaxNumber \in Nat \ {0} /\ MaxTime \in Nat
    /\ Text \notin Nat

VARIABLES
    fnKv,           \* the row of a key: value and expiresAt
    now,            \* the clock
    at,             \* the call a handler is working on, and the next statement
    answer          \* the answer to its last call

vars == <<fnKv, now, at, answer>>

Number == 0..MaxNumber
Value == Number \cup {Text}

NoRow == [state |-> "missing"]
Never == MaxTime + 2                    \* expires_at is null
Row == [value : Value, expiresAt : 0..Never]

Op ==
    [op : {"get", "delete", "incr"}, key : Key]
    \cup [op : {"set"}, key : Key, value : Value, ttl : BOOLEAN]
None == [op |-> "none"]

\* `expiresAt` matters for a set only.
Idle == [call |-> None, step |-> "idle", expiresAt |-> Never]
Working == [call : Op, step : {"existing", "sweep", "count", "statement"},
            expiresAt : 0..Never]

Found(v) == [value |-> v]
NotFound == [error |-> "not_found"]
Done(b) == [done |-> b]
Refused(e) == [error |-> e]
Answer ==
    {Found(v) : v \in Value} \cup {Done(b) : b \in BOOLEAN}
    \cup {Refused(e) : e \in {"not_found", "kv_not_a_number", "kv_quota_exceeded"}}

TypeOK ==
    /\ fnKv \in [Key -> Row \cup {NoRow}]
    /\ now \in 0..MaxTime
    /\ at \in [Handler -> Working \cup {Idle}]
    /\ answer \in [Handler -> Answer \cup {None}]

Init ==
    /\ fnKv = [k \in Key |-> NoRow]
    /\ now = 0
    /\ at = [h \in Handler |-> Idle]
    /\ answer = [h \in Handler |-> None]

Stored == {k \in Key : fnKv[k] # NoRow}

\* The complement of notExpired, and the condition of kvIncr's upsert.
Expired(k) == fnKv[k].expiresAt <= now

-----------------------------------------------------------------------------

Reply(h, a) ==
    /\ at' = [at EXCEPT ![h] = Idle]
    /\ answer' = [answer EXCEPT ![h] = a]

Continue(h, step) ==
    /\ at' = [at EXCEPT ![h].step = step]
    /\ UNCHANGED <<fnKv, now, answer>>

\* ttlToExpiresAt: one tick is the TTL of every set that has one.
Call(h) ==
    /\ at[h] = Idle
    /\ \E o \in Op :
        at' = [at EXCEPT ![h] =
                [call |-> o,
                 step |-> IF o.op \in {"set", "incr"} THEN "existing" ELSE "statement",
                 expiresAt |-> IF o.op = "set" /\ o.ttl THEN now + 1 ELSE Never]]
    /\ answer' = [answer EXCEPT ![h] = None]
    /\ UNCHANGED <<fnKv, now>>

\* assertQuotaForNewKey: a row, expired or not, exempts the key from the rest.
Existing(h) ==
    /\ at[h].step = "existing"
    /\ Continue(h, IF at[h].call.key \in Stored THEN "statement" ELSE "sweep")

\* Mutant of SweepExpired: every row that has an expiry goes.
SweepEphemeral(h) ==
    /\ at[h].step = "sweep"
    /\ fnKv' = [k \in Key |->
                    IF k \in Stored /\ fnKv[k].expiresAt # Never THEN NoRow ELSE fnKv[k]]
    /\ at' = [at EXCEPT ![h].step = "count"]
    /\ UNCHANGED <<now, answer>>

\* Strictly before now: what expires this instant stays.
SweepExpired(h) ==
    /\ at[h].step = "sweep"
    /\ fnKv' = [k \in Key |->
                    IF k \in Stored /\ fnKv[k].expiresAt < now THEN NoRow ELSE fnKv[k]]
    /\ at' = [at EXCEPT ![h].step = "count"]
    /\ UNCHANGED <<now, answer>>

\* Mutant of Count: the limit is taken for the largest count to be increased.
CountOver(h) ==
    /\ at[h].step = "count"
    /\ \/ Cardinality(Stored) <= MaxKeys /\ Continue(h, "statement")
       \/ /\ Cardinality(Stored) > MaxKeys
          /\ Reply(h, Refused("kv_quota_exceeded"))
          /\ UNCHANGED <<fnKv, now>>

Count(h) ==
    /\ at[h].step = "count"
    /\ \/ Cardinality(Stored) < MaxKeys /\ Continue(h, "statement")
       \/ /\ Cardinality(Stored) >= MaxKeys
          /\ Reply(h, Refused("kv_quota_exceeded"))
          /\ UNCHANGED <<fnKv, now>>

At(h, op) == at[h].step = "statement" /\ at[h].call.op = op

\* Mutant of kvGet: `rows[0].value` without the test, which throws when there is none.
kvGetRow(h) ==
    LET k == at[h].call.key
    IN  /\ At(h, "get")
        /\ Reply(h, IF k \in Stored /\ ~Expired(k) THEN Found(fnKv[k].value)
                    ELSE Refused("TypeError"))
        /\ UNCHANGED <<fnKv, now>>

kvGet(h) ==
    LET k == at[h].call.key
    IN  /\ At(h, "get")
        /\ Reply(h, IF k \in Stored /\ ~Expired(k) THEN Found(fnKv[k].value) ELSE NotFound)
        /\ UNCHANGED <<fnKv, now>>

\* TRUE for any row, an expired one included.
kvDelete(h) ==
    LET k == at[h].call.key
    IN  /\ At(h, "delete")
        /\ fnKv' = [fnKv EXCEPT ![k] = NoRow]
        /\ Reply(h, Done(k \in Stored))
        /\ UNCHANGED now

kvSet(h) ==
    LET o == at[h].call
    IN  /\ At(h, "set")
        /\ fnKv' = [fnKv EXCEPT ![o.key] =
                        [value |-> o.value, expiresAt |-> at[h].expiresAt]]
        /\ Reply(h, Done(TRUE))
        /\ UNCHANGED now

\* One upsert: a new or expired key becomes 1 for good, a number grows and keeps its
\* expiry, anything else is left alone.  The delta is 1.
kvIncr(h) ==
    LET k == at[h].call.key
        fresh == k \in Stored => Expired(k)
    IN  /\ At(h, "incr")
        /\ \/ /\ fresh
              /\ fnKv' = [fnKv EXCEPT ![k] = [value |-> 1, expiresAt |-> Never]]
              /\ Reply(h, Found(1))
           \/ /\ ~fresh /\ fnKv[k].value \in Number \ {MaxNumber}
              /\ fnKv' = [fnKv EXCEPT ![k].value = fnKv[k].value + 1]
              /\ Reply(h, Found(fnKv[k].value + 1))
           \/ /\ ~fresh /\ fnKv[k].value = Text
              /\ UNCHANGED fnKv
              /\ Reply(h, Refused("kv_not_a_number"))
        /\ UNCHANGED now

Tick ==
    /\ now < MaxTime
    /\ now' = now + 1
    /\ UNCHANGED <<fnKv, at, answer>>

Handle(h) ==
    \/ Call(h) \/ Existing(h) \/ SweepExpired(h) \/ Count(h)
    \/ kvGet(h) \/ kvDelete(h) \/ kvSet(h) \/ kvIncr(h)

Next == (\E h \in Handler : Handle(h)) \/ Tick

Spec == Init /\ [][Next]_vars

-----------------------------------------------------------------------------
(* Properties                                                               *)

\* The quota check and the upsert are separate statements, and a key that is there to
\* be overwritten may be gone by then; all the same no interleaving of sets,
\* increments, deletes and sweeps exceeds the limit by more than the other requests
\* that are in flight.
QuotaOvershoot == Cardinality(Stored) < MaxKeys + Cardinality(Handler)

\* The map a request can see: an expired row is there to be deleted or swept only.
Store ==
    [k \in Key |->
        IF k \notin Stored THEN [state |-> "missing"]
        ELSE IF fnKv[k].expiresAt <= now THEN [state |-> "lapsed"]
        ELSE [value |-> fnKv[k].value, ttl |-> fnKv[k].expiresAt # Never]]

Pending == [h \in Handler |-> at[h].call]

Map == INSTANCE KvMap WITH store <- Store, pending <- Pending

\* kvGet, kvSet, kvDelete and kvIncr implement the atomic map a function relies on
\* (docs-content.ts: "The increment is atomic"): each takes effect in its last
\* statement, and neither the quota statements nor the sweep can be noticed.
AtomicMap == Map!Spec

=============================================================================
