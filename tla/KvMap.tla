------------------------------- MODULE KvMap --------------------------------
(***************************************************************************)
(* What kv.* promises a function: a map on which every operation takes      *)
(* effect at one instant between its call and its answer.  A key set with a *)
(* TTL lapses at some time; a lapsed key reads as missing and counts from 0 *)
(* again, and is swept away sooner or later; a key without one stays.       *)
(***************************************************************************)
EXTENDS Naturals

CONSTANTS
    Key, Handler,
    Number,         \* the numeric values a key may have
    Text            \* any value that is not a number

VARIABLES
    store,          \* the entry of a key, or that it has none
    pending,        \* the call a handler has not answered
    answer          \* the answer to its last call

vars == <<store, pending, answer>>

Value == Number \cup {Text}
Entry == [value : Value, ttl : BOOLEAN]
Missing == [state |-> "missing"]
Lapsed == [state |-> "lapsed"]

Op ==
    [op : {"get", "delete", "incr"}, key : Key]
    \cup [op : {"set"}, key : Key, value : Value, ttl : BOOLEAN]
None == [op |-> "none"]

Found(v) == [value |-> v]
NotFound == [error |-> "not_found"]
Done(b) == [done |-> b]
Refused(e) == [error |-> e]

Init ==
    /\ store = [k \in Key |-> Missing]
    /\ pending = [h \in Handler |-> None]
    /\ answer = [h \in Handler |-> None]

Call(h) ==
    /\ pending[h] = None
    /\ \E o \in Op : pending' = [pending EXCEPT ![h] = o]
    /\ answer' = [answer EXCEPT ![h] = None]
    /\ UNCHANGED store

Reply(h, a) ==
    /\ pending' = [pending EXCEPT ![h] = None]
    /\ answer' = [answer EXCEPT ![h] = a]

Get(h) ==
    LET s == store[pending[h].key]
    IN  /\ pending[h].op = "get"
        /\ Reply(h, IF s \in Entry THEN Found(s.value) ELSE NotFound)
        /\ UNCHANGED store

Delete(h) ==
    LET k == pending[h].key
    IN  /\ pending[h].op = "delete"
        /\ store' = [store EXCEPT ![k] = Missing]
        /\ Reply(h, Done(store[k] # Missing))

\* A TTL may be over by the time the value is stored.
Set(h) ==
    LET o == pending[h]
    IN  /\ o.op = "set"
        /\ \/ store' = [store EXCEPT ![o.key] = [value |-> o.value, ttl |-> o.ttl]]
           \/ o.ttl /\ store' = [store EXCEPT ![o.key] = Lapsed]
        /\ Reply(h, Done(TRUE))

Incr(h) ==
    LET k == pending[h].key
        s == store[k]
    IN  /\ pending[h].op = "incr"
        /\ \/ /\ s \notin Entry
              /\ store' = [store EXCEPT ![k] = [value |-> 1, ttl |-> FALSE]]
              /\ Reply(h, Found(1))
           \/ /\ s \in Entry /\ s.value \in Number
              /\ store' = [store EXCEPT ![k].value = s.value + 1]
              /\ Reply(h, Found(s.value + 1))
           \/ /\ s \in Entry /\ s.value = Text
              /\ UNCHANGED store
              /\ Reply(h, Refused("kv_not_a_number"))

\* Only an operation that may create a key is refused for want of room.
Full(h) ==
    /\ pending[h].op \in {"set", "incr"}
    /\ Reply(h, Refused("kv_quota_exceeded"))
    /\ UNCHANGED store

Lapse ==
    /\ \E K \in SUBSET {k \in Key : store[k] \in Entry /\ store[k].ttl} :
        store' = [k \in Key |-> IF k \in K THEN Lapsed ELSE store[k]]
    /\ UNCHANGED <<pending, answer>>

Sweep ==
    /\ \E K \in SUBSET {k \in Key : store[k] = Lapsed} :
        store' = [k \in Key |-> IF k \in K THEN Missing ELSE store[k]]
    /\ UNCHANGED <<pending, answer>>

Next ==
    \/ \E h \in Handler :
        Get(h) \/ Delete(h) \/ Set(h) \/ Incr(h) \/ Full(h) \/ Call(h)
    \/ Lapse \/ Sweep

Spec == Init /\ [][Next]_vars

=============================================================================
