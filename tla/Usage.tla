-------------------------------- MODULE Usage --------------------------------
(***************************************************************************)
(* The nightly report (apps/web/src/server/billing-usage.ts), which the    *)
(* cron worker asks for: the workspace's unreported usage rows of the last *)
(* 24 hours are summed, the sum is sent to Stripe's meter and the rows are *)
(* marked.  The ingest route inserts rows at any time, one per event       *)
(* (Ingest!InsertUsage).                                                   *)
(***************************************************************************)
EXTENDS Naturals

CONSTANTS
    Event,      \* ingest events of one workspace
    Report,     \* requests to the report route
    Failing     \* whether calls may fail and processes die

ASSUME UsageConstants == Failing \in BOOLEAN

VARIABLES
    rows,       \* events whose usage_event row is there
    old,        \* events whose usage row is older than the window
    reported,   \* events whose usage row is marked as reported
    report,     \* where a report is, and what it has read
    metered,    \* how often Stripe's meter has counted an event's row (external); 2 is "again"
    late,       \* rows that came while a report was between its sum and its update (a history)
    repeated    \* rows whose report did not get to mark them, or not before another (a history)

usageVars == <<rows, old, reported, report, metered, late, repeated>>

\* counted: the rows that are in the sum; out: the rows before its "since".
Reading == [at : {"plan", "meter", "update"}, counted : SUBSET Event, out : SUBSET Event]
Waiting == [at |-> "idle", counted |-> {}, out |-> {}]

UsageTypeOK ==
    /\ rows \subseteq Event /\ old \subseteq rows /\ reported \subseteq rows
    /\ report \in [Report -> Reading \cup {Waiting}]
    /\ metered \in [Event -> 0..2]
    /\ late \subseteq Event /\ repeated \subseteq Event

UsageInit ==
    /\ rows = {} /\ old = {} /\ reported = {}
    /\ report = [r \in Report |-> Waiting]
    /\ metered = [k \in Event |-> 0]
    /\ late = {} /\ repeated = {}

\* The window ends when the report begins.
Sum(r) ==
    /\ report[r] = Waiting
    /\ report' = [report EXCEPT ![r] =
                    [at |-> "plan", counted |-> rows \ (old \cup reported), out |-> old]]
    /\ UNCHANGED <<rows, old, reported, metered, late, repeated>>

\* getEffectivePlan: no customer, no meter or nothing to report, and the report is over.
CheckPlan(r) ==
    /\ report[r].at = "plan"
    /\ \/ report[r].counted # {} /\ report' = [report EXCEPT ![r].at = "meter"]
       \/ report' = [report EXCEPT ![r] = Waiting]
    /\ UNCHANGED <<rows, old, reported, metered, late, repeated>>

\* Rows another report has counted and not marked yet.
CountedBy(others) == UNION {report[r].counted : r \in {q \in others : report[q].at = "update"}}

\* meterEvents.create: the identifier holds the begin of the window to the millisecond, so
\* Stripe takes every event for a new one.  The call may fail although it was counted.
SendMeterEvent(r) ==
    LET counted == report[r].counted
    IN  /\ report[r].at = "meter"
        /\ metered' = [k \in Event |-> IF k \notin counted THEN metered[k]
                                     ELSE IF metered[k] = 0 THEN 1 ELSE 2]
        /\ \/ report' = [report EXCEPT ![r].at = "update"]
              /\ repeated' = repeated \cup (counted \cap (reported \cup CountedBy(Report \ {r})))
           \/ Failing /\ report' = [report EXCEPT ![r] = Waiting]
              /\ repeated' = repeated \cup counted
        /\ UNCHANGED <<rows, old, reported, late>>

\* Mutant of MarkRows: no lower bound on the rows' age.
MarkAllRows(r) ==
    /\ report[r].at = "update"
    /\ reported' = reported \cup rows
    /\ report' = [report EXCEPT ![r] = Waiting]
    /\ UNCHANGED <<rows, old, metered, late, repeated>>

\* Every unreported row of the window is marked, whether it was in the sum or not.
MarkRows(r) ==
    /\ report[r].at = "update"
    /\ reported' = reported \cup (rows \ report[r].out)
    /\ report' = [report EXCEPT ![r] = Waiting]
    /\ UNCHANGED <<rows, old, metered, late, repeated>>

\* A call or a statement throws without effect, or the process dies; before the meter event
\* this may also be the report of another workspace, which ends the loop.
ReportFails(r) ==
    /\ Failing
    /\ report[r] # Waiting
    /\ report' = [report EXCEPT ![r] = Waiting]
    /\ repeated' = IF report[r].at = "update" THEN repeated \cup report[r].counted ELSE repeated
    /\ UNCHANGED <<rows, old, reported, metered, late>>

\* 24 hours after its insertion a row is outside the window of any report that begins.
Age(k) ==
    /\ k \in rows \ old
    /\ old' = old \cup {k}
    /\ UNCHANGED <<rows, reported, report, metered, late, repeated>>

\* The ingest route bills an event.
InsertRow(k) ==
    /\ k \notin rows
    /\ rows' = rows \cup {k}
    /\ late' = IF \E r \in Report : report[r] # Waiting THEN late \cup {k} ELSE late
    /\ UNCHANGED <<old, reported, report, metered, repeated>>

UsageNext ==
    \/ \E r \in Report : Sum(r) \/ CheckPlan(r) \/ SendMeterEvent(r) \/ MarkRows(r) \/ ReportFails(r)
    \/ \E k \in Event : InsertRow(k) \/ Age(k)

UsageSpec == UsageInit /\ [][UsageNext]_usageVars

-----------------------------------------------------------------------------
(* Properties                                                               *)

\* A row that is marked as reported was counted by Stripe once.  It was not counted at all
\* only if it was inserted while a report was under way, and more than once only if a
\* report that had counted it ended before its update or ran beside another.
MeteredOnce ==
    \A k \in Event :
        /\ k \in reported /\ metered[k] = 0 => k \in late
        /\ metered[k] > 1 => k \in repeated

=============================================================================
