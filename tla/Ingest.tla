------------------------------- MODULE Ingest -------------------------------
(***************************************************************************)
(* POST /api/internal/ingest: how the outcome of an execution reaches its  *)
(* row, its usage event and its logs.  The dispatcher posts one outcome of *)
(* an execution (see Dispatch!OneOutcome); the tail worker posts what the  *)
(* tail events it is handed say of it, mostly without a status of their    *)
(* own and possibly more than once (apps/tail/src/index.ts).               *)
(***************************************************************************)
EXTENDS Inbox

CONSTANT Exec   \* executions

Source == {"runtime", "tail"}
Status == {"ok", "fn_error", "limit_exceeded", "infra_error"}

ASSUME IngestConstants ==
    /\ Key \subseteq [exec : Exec, source : Source, id : Nat, lines : BOOLEAN,
                     status : Status \cup {"absent"}]
    /\ \A k \in Key : k.source = "runtime" => k.status # "absent"

VARIABLES
    row,        \* the execution rows: the status and who measured the wall time
    usage,      \* usage_event rows an event has inserted
    logged,     \* events whose log lines are stored
    start       \* executions that exec/start has recorded (a history)

ingestVars == <<row, usage, logged, start>>
vars == <<inboxVars, ingestVars>>

Steps == {"work", "update", "usage", "log"}

NoRow == [status |-> "none", by |-> "none"]

\* exec/start inserts the row as an infra_error.
Started == [status |-> "infra_error", by |-> "start"]

TypeOK ==
    /\ InboxTypeOK(Steps)
    /\ row \in [Exec -> [status : Status, by : Source \cup {"start"}] \cup {NoRow}]
    /\ usage \in [Key -> Nat]
    /\ logged \subseteq Key
    /\ start \subseteq Exec

Init ==
    /\ InboxInit
    /\ row = [e \in Exec |-> NoRow]
    /\ usage = [k \in Key |-> 0]
    /\ logged = {}
    /\ start = {}

\* exec/start.  The dispatcher awaits it but goes on without it, so the insert may
\* come late or never.
RecordStart(e) ==
    /\ e \notin start
    /\ start' = start \cup {e}
    /\ row' = [row EXCEPT ![e] = Started]
    /\ UNCHANGED <<inboxVars, usage, logged>>

\* The dispatcher posts its outcome once; a tail event can be handed over again.
Post(h, k) ==
    /\ k.source = "runtime" => \A g \in Handler : key[g] # k
    /\ Deliver(h, k)
    /\ UNCHANGED ingestVars

\* Mutant of ReadRow: an unknown execution is accepted.
ReadAnyRow(h) ==
    /\ at[h] = "work"
    /\ Goto(h, "update")
    /\ UNCHANGED <<event, key, ingestVars>>

\* 404, with the event marked failed, if the execution has no row.
ReadRow(h) ==
    /\ at[h] = "work"
    /\ Goto(h, IF row[key[h].exec] = NoRow THEN "fail" ELSE "update")
    /\ UNCHANGED <<event, key, ingestVars>>

\* What an event makes of the row; no status means "ok".
Outcome(k) == [status |-> IF k.status = "absent" THEN "ok" ELSE k.status, by |-> k.source]

\* The row is overwritten by whatever the event says.
UpdateRow(h) ==
    LET k == key[h]
    IN  /\ at[h] = "update"
        /\ row' = IF row[k.exec] = NoRow THEN row ELSE [row EXCEPT ![k.exec] = Outcome(k)]
        /\ Ran(h, "usage")
        /\ UNCHANGED <<event, key, usage, logged, start>>

\* Mutant of InsertUsage: an insert that fails is caught and forgotten.
InsertUsageCaught(h) ==
    /\ at[h] = "usage"
    /\ \/ usage' = [usage EXCEPT ![key[h]] = @ + 1]
       \/ "db" \in Faults /\ UNCHANGED usage
    /\ Goto(h, "log")
    /\ UNCHANGED <<event, key, row, logged, start>>

\* usage_event does not reference the execution: its row may be gone by now.
InsertUsage(h) ==
    /\ at[h] = "usage"
    /\ usage' = [usage EXCEPT ![key[h]] = @ + 1]
    /\ Ran(h, "log")
    /\ UNCHANGED <<event, key, row, logged, start>>

\* execution_log references the execution: without its row the insert is refused.
InsertLogs(h) ==
    LET k == key[h]
    IN  /\ at[h] = "log"
        /\ IF k.lines /\ row[k.exec] = NoRow
           THEN Goto(h, "fail") /\ UNCHANGED logged
           ELSE /\ logged' = IF k.lines THEN logged \cup {k} ELSE logged
                /\ Ran(h, "mark")
        /\ UNCHANGED <<event, key, row, usage, start>>

\* deleteFunction deletes the function's executions in a transaction, and their logs
\* go with them.  The executions of the model are of different functions.
DeleteFunction(e) ==
    /\ row[e] # NoRow
    /\ row' = [row EXCEPT ![e] = NoRow]
    /\ logged' = {k \in logged : k.exec # e}
    /\ UNCHANGED <<inboxVars, usage, start>>

Handle(h) ==
    \/ (Record(h) \/ Settle(h)) /\ UNCHANGED ingestVars
    \/ ReadRow(h) \/ UpdateRow(h) \/ InsertUsage(h) \/ InsertLogs(h)

Next ==
    \/ \E h \in Handler : Handle(h) \/ \E k \in Key : Post(h, k)
    \/ \E e \in Exec : RecordStart(e) \/ DeleteFunction(e)

Spec == Init /\ [][Next]_vars

-----------------------------------------------------------------------------
(* Properties                                                               *)

\* Recording an event and billing for it implement the inbox's promise, whatever is
\* lost, retried or delivered at the same time: no event is billed twice.
Once == INSTANCE AtMostOnce
            WITH claimed <- {k \in Key : event[k] # "none"}, effect <- usage
BilledAtMostOnce == Once!Spec

\* An event that is marked processed was billed, whatever became of the function
\* meanwhile; and if the row of its execution is still there, it holds a reported
\* outcome and the event's lines are stored.
ProcessedIsComplete ==
    \A k \in Key : event[k] = "processed" =>
        /\ usage[k] = 1
        /\ row[k.exec] # NoRow => row[k.exec].by # "start" /\ (k.lines => k \in logged)

\* Nothing is billed or logged for an execution that was never recorded, nor from
\* an event that is not on file; and no log line outlives its execution's row.
BilledOnRecord ==
    \A k \in Key :
        /\ usage[k] > 0 => k.exec \in start /\ event[k] # "none"
        /\ k \in logged => row[k.exec] # NoRow /\ usage[k] > 0

\* schema/billing.ts: one row per billable event, that is, per execution.
OneRowPerExecution ==
    \A j, k \in Key : j.exec = k.exec /\ j # k => usage[j] = 0 \/ usage[k] = 0

=============================================================================
