--------------------------------- MODULE Cron ---------------------------------
(***************************************************************************)
(* Scheduled runs: the cron worker (apps/cron/src/index.ts) is woken every *)
(* minute, asks the control plane which triggers are due, runs each and    *)
(* acknowledges it (api/internal/cron/due and ack).                        *)
(*                                                                         *)
(* The platform may wake the worker late, twice or not at all; which       *)
(* minute it is about is for the control plane's clock to say, which reads *)
(* it once for the key and again, after the query, for the schedule.       *)
(***************************************************************************)
EXTENDS Naturals, FiniteSets

CONSTANTS
    Wake,       \* invocations of the worker
    Cronjob,    \* cron triggers, all enabled
    LastMinute,
    Schedule    \* the minutes a trigger's schedule names

ASSUME CronConstants ==
    LastMinute \in Nat /\ Schedule \in [Cronjob -> SUBSET (0..LastMinute)]

VARIABLES
    clock,      \* the control plane's minute
    wake,       \* what an invocation is doing
    fired,      \* by whom a trigger was run under a key
    won,        \* keys under which a run was seen to succeed (a history)
    missed,     \* keys under which a run failed, or its answer or acknowledgement was lost (a history)
    acked       \* webhook_event of source "cron"

cronVars == <<clock, wake, fired, won, missed, acked>>

Minutes == 0..LastMinute
DedupeKey == Cronjob \X Minutes

Asleep == [at |-> "idle", stamp |-> 0, matched |-> 0, due |-> {}, run |-> {}, ok |-> FALSE, caught |-> FALSE]

CronTypeOK ==
    /\ clock \in Minutes
    /\ wake \in [Wake -> [at : {"idle", "matching", "loop", "ack", "done", "failed"},
                          stamp : Minutes, matched : Minutes, due : SUBSET Cronjob,
                          run : SUBSET Cronjob, ok : BOOLEAN, caught : BOOLEAN]]
    /\ fired \in [DedupeKey -> SUBSET Wake]
    /\ won \subseteq DedupeKey /\ missed \subseteq DedupeKey
    /\ acked \in [DedupeKey -> {"none", "ok", "error"}]

CronInit ==
    /\ clock = 0
    /\ wake = [w \in Wake |-> Asleep]
    /\ fired = [k \in DedupeKey |-> {}]
    /\ won = {} /\ missed = {}
    /\ acked = [k \in DedupeKey |-> "none"]

TickMinute ==
    /\ clock < LastMinute
    /\ clock' = clock + 1
    /\ UNCHANGED <<wake, fired, won, missed, acked>>

\* scheduled() asks for what is due; the route takes the minute of the keys.
AskDue(w) ==
    /\ wake[w].at = "idle"
    /\ wake' = [wake EXCEPT ![w] = [Asleep EXCEPT !.at = "matching", !.stamp = clock]]
    /\ UNCHANGED <<clock, fired, won, missed, acked>>

DueAt(m) == {t \in Cronjob : m \in Schedule[t]}

\* The triggers are read and each schedule is compared with the clock.
MatchSchedules(w) ==
    /\ wake[w].at = "matching"
    /\ wake' = [wake EXCEPT ![w] = [@ EXCEPT !.at = "loop", !.matched = clock, !.due = DueAt(clock)]]
    /\ UNCHANGED <<clock, fired, won, missed, acked>>

\* No answer from the route, or an error.
NoAnswer(w) ==
    /\ wake[w].at = "matching"
    /\ wake' = [wake EXCEPT ![w].at = "failed"]
    /\ UNCHANGED <<clock, fired, won, missed, acked>>

Current(w) == CHOOSE t \in wake[w].run : TRUE
KeyOf(w) == <<Current(w), wake[w].stamp>>

\* What is acknowledged next.
AfterRun(w, t, good, throws) ==
    [wake[w] EXCEPT !.at = "ack", !.due = @ \ {t}, !.run = {t}, !.ok = good, !.caught = throws]

\* Mutant of FireTrigger: the status of the answer is not looked at.
FireTriggerBlindly(w, t) ==
    /\ wake[w].at = "loop" /\ t \in wake[w].due
    /\ fired' = [fired EXCEPT ![<<t, wake[w].stamp>>] = @ \cup {w}]
    /\ \E ok \in BOOLEAN, throws \in BOOLEAN :
        /\ wake' = [wake EXCEPT ![w] = AfterRun(w, t, ~throws, throws)]
        /\ won' = IF ok /\ ~throws THEN won \cup {<<t, wake[w].stamp>>} ELSE won
        /\ missed' = IF ok /\ ~throws THEN missed ELSE missed \cup {<<t, wake[w].stamp>>}
    /\ UNCHANGED <<clock, acked>>

\* The run succeeds, fails, or the fetch throws, the function run or not.
FireTrigger(w, t) ==
    /\ wake[w].at = "loop" /\ t \in wake[w].due
    /\ fired' = [fired EXCEPT ![<<t, wake[w].stamp>>] = @ \cup {w}]
    /\ \E ok \in BOOLEAN, throws \in BOOLEAN :
        /\ wake' = [wake EXCEPT ![w] = AfterRun(w, t, ok /\ ~throws, throws)]
        /\ won' = IF ok /\ ~throws THEN won \cup {<<t, wake[w].stamp>>} ELSE won
        /\ missed' = IF ok /\ ~throws THEN missed ELSE missed \cup {<<t, wake[w].stamp>>}
    /\ UNCHANGED <<clock, acked>>

\* The first acknowledgement of a key stays.
StoreAck(w) ==
    acked' = [acked EXCEPT ![KeyOf(w)] =
                IF @ = "none" THEN IF wake[w].ok THEN "ok" ELSE "error" ELSE @]

\* ack() does not look at the status of its answer.
Acknowledge(w) ==
    /\ wake[w].at = "ack"
    /\ wake' = [wake EXCEPT ![w].at = "loop", ![w].run = {}, ![w].caught = FALSE]
    /\ \/ StoreAck(w) /\ UNCHANGED missed
       \/ missed' = missed \cup {KeyOf(w)} /\ UNCHANGED acked
    /\ UNCHANGED <<clock, fired, won>>

\* ack() throws, its request lost or its answer: the catch block acknowledges the run as
\* an error, and a second throw ends the invocation.
AcknowledgeThrows(w) ==
    /\ wake[w].at = "ack"
    /\ missed' = missed \cup {KeyOf(w)}
    /\ StoreAck(w) \/ UNCHANGED acked
    /\ wake' = [wake EXCEPT ![w] = [@ EXCEPT !.at = IF wake[w].caught THEN "failed" ELSE "ack",
                                             !.caught = TRUE, !.ok = FALSE]]
    /\ UNCHANGED <<clock, fired, won>>

\* Mutant of EndLoop: a failed run ends the loop.
EndLoopEarly(w) ==
    /\ wake[w].at = "loop" /\ (wake[w].due = {} \/ \E k \in missed : w \in fired[k])
    /\ wake' = [wake EXCEPT ![w].at = "done"]
    /\ UNCHANGED <<clock, fired, won, missed, acked>>

EndLoop(w) ==
    /\ wake[w].at = "loop" /\ wake[w].due = {}
    /\ wake' = [wake EXCEPT ![w].at = "done"]
    /\ UNCHANGED <<clock, fired, won, missed, acked>>

CronNext ==
    \/ TickMinute
    \/ \E w \in Wake :
        \/ AskDue(w) \/ MatchSchedules(w) \/ NoAnswer(w) \/ Acknowledge(w) \/ AcknowledgeThrows(w)
        \/ EndLoop(w) \/ \E t \in Cronjob : FireTrigger(w, t)

CronSpec == CronInit /\ [][CronNext]_cronVars

-----------------------------------------------------------------------------
(* Properties                                                               *)

\* A wake-up that was answered within the minute it asked in, and came to the end of its
\* loop, has run just what was scheduled for that minute; one answered in the next minute
\* runs that minute's triggers under the keys of the one before.
WakeRunsItsMinute ==
    \A w \in Wake : wake[w].at = "done" =>
        \A t \in Cronjob, m \in Minutes :
            w \in fired[<<t, m>>] <=> m = wake[w].stamp /\ wake[w].matched \in Schedule[t]

\* An acknowledgement on file says what happened: "ok" that a run under the key was seen
\* to succeed, an error that one failed or that a message about it was lost; and a key
\* without one was not run, or the worker is not through with it, or such a message was lost.
AcksTellTheTruth ==
    \A k \in DedupeKey :
        /\ acked[k] = "ok" => k \in won
        /\ acked[k] = "error" => k \in missed
        /\ acked[k] = "none" /\ fired[k] # {} =>
             k \in missed \/ \E w \in fired[k] : wake[w].at = "ack"

=============================================================================
