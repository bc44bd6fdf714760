-------------------------------- MODULE Inbox --------------------------------
(***************************************************************************)
(* The webhook_event table and the protocol its callers follow             *)
(* (apps/web/src/server/webhook-events.ts): record the event or learn it   *)
(* is a duplicate, do the work inside a try, mark the event processed or   *)
(* failed.  The ingest route and the Stripe and Resend webhooks are such   *)
(* callers: their modules extend this one and add the work.                *)
(*                                                                         *)
(* A handler is one request to a route.  Each database statement is a      *)
(* step.  With "db" among the faults a statement may throw, before or      *)
(* after it took effect, and with "crash" the process may die between two. *)
(***************************************************************************)
EXTENDS Naturals, FiniteSets

CONSTANTS
    Handler,    \* requests to the route
    Key,        \* (source, external id) of the events
    NoKey,
    Faults      \* the failures that may happen: "db", "crash"

ASSUME InboxConstants == NoKey \notin Key /\ Faults \subseteq {"db", "crash"}

VARIABLES
    event,      \* the webhook_event row of a key
    at,         \* where a handler is
    key         \* the event it was handed

inboxVars == <<event, at, key>>

\* 2xx; 2xx as a duplicate; an error status; no answer at all.
Answers == {"ok", "duplicate", "error", "dead"}

InboxTypeOK(Steps) ==
    /\ event \in [Key -> {"none", "open", "processed", "failed"}]
    /\ at \in [Handler -> {"idle", "lookup", "insert", "mark", "fail"} \cup Steps \cup Answers]
    /\ key \in [Handler -> Key \cup {NoKey}]

InboxInit ==
    /\ event = [k \in Key |-> "none"]
    /\ at = [h \in Handler |-> "idle"]
    /\ key = [h \in Handler |-> NoKey]

\* Past recordWebhookEvent as the one that recorded the event.
Owner(h) == at[h] \notin {"idle", "lookup", "insert"} \cup Answers

Goto(h, to) == at' = [at EXCEPT ![h] = to]

\* The statement of a step inside the try has run: the handler goes on, or has
\* lost the connection and is in the catch block.
Ran(h, to) ==
    \/ Goto(h, to)
    \/ "db" \in Faults /\ Goto(h, "fail")

Deliver(h, k) ==
    /\ at[h] = "idle"
    /\ Goto(h, "lookup")
    /\ key' = [key EXCEPT ![h] = k]
    /\ UNCHANGED event

LookUp(h) ==
    /\ at[h] = "lookup"
    /\ Goto(h, IF event[key[h]] = "none" THEN "insert" ELSE "duplicate")
    /\ UNCHANGED <<event, key>>

\* Mutant of Insert: no unique index on (source, external_id).
InsertAgain(h) ==
    /\ at[h] = "insert"
    /\ event' = [event EXCEPT ![key[h]] = "open"]
    /\ Goto(h, "work")
    /\ UNCHANGED key

\* The insert is outside the callers' try: a conflict on (source, external_id) is
\* an unhandled error, and so is a connection lost after the row was committed.
Insert(h) ==
    /\ at[h] = "insert"
    /\ IF event[key[h]] = "none"
       THEN /\ event' = [event EXCEPT ![key[h]] = "open"]
            /\ Goto(h, "work") \/ ("db" \in Faults /\ Goto(h, "error"))
       ELSE Goto(h, "error") /\ UNCHANGED event
    /\ UNCHANGED key

MarkProcessed(h) ==
    /\ at[h] = "mark"
    /\ event' = [event EXCEPT ![key[h]] = "processed"]
    /\ Ran(h, "ok")
    /\ UNCHANGED key

MarkFailed(h) ==
    /\ at[h] = "fail"
    /\ event' = [event EXCEPT ![key[h]] = "failed"]
    /\ Goto(h, "error")
    /\ UNCHANGED key

\* A statement throws without having run.
Throws(h) ==
    /\ "db" \in Faults
    /\ \/ at[h] \in {"lookup", "insert", "fail"} /\ Goto(h, "error")
       \/ Owner(h) /\ at[h] # "fail" /\ Goto(h, "fail")
    /\ UNCHANGED <<event, key>>

Crash(h) ==
    /\ "crash" \in Faults
    /\ at[h] \notin {"idle"} \cup Answers
    /\ Goto(h, "dead")
    /\ UNCHANGED <<event, key>>

Record(h) == LookUp(h) \/ Insert(h)

Settle(h) == MarkProcessed(h) \/ MarkFailed(h) \/ Throws(h) \/ Crash(h)

=============================================================================
