-------------------------------- MODULE Quota --------------------------------
(***************************************************************************)
(* A workspace's daily and monthly limits: registerExecution               *)
(* (apps/web/src/server/exec-registry.ts) reads them off the execution     *)
(* rows, exec/start inserts the row after the registration and the ingest  *)
(* route sets its wall time after the run.                                 *)
(*                                                                         *)
(* A slot is a request the dispatcher is working on, its report included;  *)
(* it is used again.  Of the rows only the numbers the two queries return  *)
(* are kept.                                                               *)
(***************************************************************************)
EXTENDS Naturals, FiniteSets

CONSTANTS
    Slot,
    DayLimit,       \* limits.maxExecutionsPerDay
    MonthLimit,     \* limits.maxWallMsPerMonth
    MaxReport,      \* the longest wall time a run reports
    MaxLate,        \* bound: start inserts that outlive their request, and that commit in a day
    MaxRaise        \* bound: the wall time that outside reports add in a month

ASSUME QuotaConstants ==
    /\ IsFiniteSet(Slot) /\ Slot # {}
    /\ DayLimit \in Nat \ {0} /\ MonthLimit \in Nat \ {0} /\ MaxReport \in Nat
    /\ MaxLate \in Nat /\ MaxRaise \in Nat

VARIABLES
    today,      \* execution rows that were started today
    month,      \* the sum of the wall times of the rows that were started this month
    stored,     \* whether there is a row that was started this month
    exec,       \* where a slot is, and its row: one of this month's, or still on its way
    adrift,     \* start inserts still on their way when their slot was free again
    overdue,    \* how many of those committed today (a history)
    raised      \* the wall time outside reports added this month (a history)

quotaVars == <<today, month, stored, exec, adrift, overdue, raised>>
counts == <<today, month, stored, overdue, raised>>

QuotaSteps == {"idle", "daily", "monthly", "register", "start", "running"}
RowStates == {"none", "pending", "there"}

QuotaTypeOK ==
    /\ today \in Nat /\ month \in Nat /\ stored \in BOOLEAN
    /\ exec \in [Slot -> [at : QuotaSteps, row : RowStates]]
    /\ adrift \in Nat /\ overdue \in Nat /\ raised \in Nat

Idle == [at |-> "idle", row |-> "none"]

QuotaInit ==
    /\ today = 0 /\ month = 0 /\ stored = FALSE /\ exec = [x \in Slot |-> Idle]
    /\ adrift = 0 /\ overdue = 0 /\ raised = 0

On(x, step) == exec[x].at = step
Move(x, step) == exec' = [exec EXCEPT ![x].at = step] /\ UNCHANGED adrift

\* An insert that is on its way stays on its way when its request is over.
Free(x) ==
    /\ exec' = [exec EXCEPT ![x] = Idle]
    /\ adrift' = IF exec[x].row = "pending" /\ adrift < MaxLate THEN adrift + 1 ELSE adrift

Ask(x) == On(x, "idle") /\ Move(x, "daily") /\ UNCHANGED counts

\* Mutant of CheckDaily: one execution too many.
CheckDailyOver(x) ==
    /\ On(x, "daily")
    /\ IF today > DayLimit THEN Free(x) ELSE Move(x, "monthly")
    /\ UNCHANGED counts

\* A refusal is 429 to the client, and the slot is free.
CheckDaily(x) ==
    /\ On(x, "daily")
    /\ IF today >= DayLimit THEN Free(x) ELSE Move(x, "monthly")
    /\ UNCHANGED counts

CheckMonthly(x) ==
    /\ On(x, "monthly")
    /\ IF month >= MonthLimit THEN Free(x) ELSE Move(x, "register")
    /\ UNCHANGED counts

\* The depth check and the exec key, see Dispatch, either may end it; then exec/start
\* is called.
SetKey(x) ==
    /\ On(x, "register")
    /\ \/ Free(x)
       \/ exec' = [exec EXCEPT ![x] = [at |-> "start", row |-> "pending"]] /\ UNCHANGED adrift
    /\ UNCHANGED counts

\* The insert commits: the row is of today and of this month, with no wall time.
NewRow == today' = today + 1 /\ stored' = TRUE /\ UNCHANGED <<month, raised>>

CommitStart(x) ==
    /\ exec[x].row = "pending"
    /\ exec' = [exec EXCEPT ![x].row = "there"]
    /\ NewRow
    /\ UNCHANGED <<adrift, overdue>>

\* exec/start answers, or fails or is lost: the function runs whether its row is there,
\* still to come or never to come.
RunStarted(x) == On(x, "start") /\ Move(x, "running") /\ UNCHANGED counts

\* An insert commits after its request was over.
CommitLate ==
    /\ adrift > 0 /\ overdue < MaxLate
    /\ adrift' = adrift - 1 /\ overdue' = overdue + 1
    /\ NewRow
    /\ UNCHANGED exec

\* Mutant of ReportWall: a report that is sent twice adds its wall time twice.
ReportWallTwice(x, w, before) ==
    /\ On(x, "running")
    /\ month' = IF exec[x].row = "there" THEN month + w + w - before ELSE month
    /\ Free(x)
    /\ UNCHANGED <<today, stored, overdue, raised>>

\* The dispatcher's report sets the wall time of the row, if there is one by now, in
\* place of what an outside report has set it to.
ReportWall(x, w, before) ==
    /\ On(x, "running")
    /\ month' = IF exec[x].row = "there" THEN month + w - before ELSE month
    /\ Free(x)
    /\ UNCHANGED <<today, stored, overdue, raised>>

\* The dispatcher or its report is lost on the way.
Drop(x) == ~On(x, "idle") /\ Free(x) /\ UNCHANGED counts

\* A tail event, or a report of the dispatcher's that comes late, sets the wall time of
\* any row: to 0 if it has none of its own, or to more than it was.
OutsideReport ==
    /\ stored
    /\ \/ \E w \in 0..month : month' = w /\ UNCHANGED raised
       \/ \E w \in 1..(MaxRaise - raised) : month' = month + w /\ raised' = raised + w
    /\ UNCHANGED <<today, stored, exec, adrift, overdue>>

\* The rows a slot had that are not kept.
Uncount(kept) ==
    exec' = [x \in Slot |-> [exec[x] EXCEPT !.row = IF @ = "there" /\ x \notin kept
                                                   THEN "none" ELSE @]]

\* deleteFunction takes the rows of its executions with it.
DeleteExecutions ==
    /\ stored
    /\ \E n \in 0..today, w \in 0..month : today' = n /\ month' = w
    /\ \E kept \in SUBSET Slot :
        /\ Uncount(kept)
        /\ stored' \in BOOLEAN
        /\ today' + month' > 0 \/ (\E x \in kept : exec[x].row = "there") => stored'
    /\ UNCHANGED <<adrift, overdue, raised>>

\* The two queries count from the start of the day and of the month (UTC).
Midnight == today' = 0 /\ overdue' = 0 /\ UNCHANGED <<month, stored, exec, adrift, raised>>

MonthEnds ==
    /\ today' = 0 /\ overdue' = 0 /\ month' = 0 /\ raised' = 0 /\ stored' = FALSE
    /\ Uncount({})
    /\ UNCHANGED adrift

Serve(x) ==
    \/ Ask(x) \/ CheckDaily(x) \/ CheckMonthly(x) \/ SetKey(x) \/ CommitStart(x)
    \/ RunStarted(x) \/ Drop(x)
    \/ \E w \in 0..MaxReport, before \in 0..raised : before <= month /\ ReportWall(x, w, before)

QuotaNext ==
    \/ \E x \in Slot : Serve(x)
    \/ CommitLate \/ OutsideReport \/ DeleteExecutions \/ Midnight \/ MonthEnds

QuotaSpec == QuotaInit /\ [][QuotaNext]_quotaVars

-----------------------------------------------------------------------------
(* Properties                                                               *)

\* The limits are read before the row that uses them up is written: concurrent requests
\* exceed the daily one by less than their number, and by the rows that commit after
\* their request was over ...
DailyOvershoot == today < DayLimit + Cardinality(Slot) + overdue

\* ... and the monthly one by less than what that many runs report at most, and by what
\* no request of the dispatcher's at work reports.
WallOvershoot == month < MonthLimit + Cardinality(Slot) * MaxReport + raised

=============================================================================
