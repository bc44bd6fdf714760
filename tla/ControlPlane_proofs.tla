------------------------- MODULE ControlPlane_proofs -------------------------
(***************************************************************************)
(* The parts of the control plane, each for any number of requests, rows   *)
(* and limits, and the composition that MCControlPlane checks an instance  *)
(* of.                                                                     *)
(***************************************************************************)
EXTENDS ControlPlane, Ingest_proofs, FiniteSetTheorems, TLAPS

-----------------------------------------------------------------------------
(* Usage: what a report knows, and who has counted a row.                   *)

Mid(r) == report[r] # Waiting

\* A report's sum is of rows of its window; a row of the window that is not in it has been
\* marked already or came late.
ReportOK(r) ==
    /\ report[r].counted \subseteq rows
    /\ report[r].counted \cap report[r].out = {}
    /\ \A k \in rows \ (report[r].out \cup report[r].counted) : k \in reported \cup late
    /\ report[r].at = "update" => \A k \in report[r].counted : metered[k] >= 1

Pending(k) == \E r \in Report : report[r].at = "update" /\ k \in report[r].counted

\* A row Stripe has counted is marked, is about to be, or its report was cut short.
RowOK(k) ==
    /\ k \in reported /\ metered[k] = 0 => k \in late
    /\ metered[k] >= 1 => k \in reported \cup repeated \/ Pending(k)
    /\ metered[k] > 1 => k \in repeated

UsageInv ==
    /\ UsageTypeOK
    /\ \A r \in Report : Mid(r) => ReportOK(r)
    /\ \A k \in Event : RowOK(k)

LEMMA UsageInitially == UsageInit => UsageInv
  BY DEF UsageInit, UsageInv, UsageTypeOK, Mid, RowOK, Waiting

LEMMA SumKeeps ==
  ASSUME UsageInv, NEW r \in Report, Sum(r)
  PROVE  UsageInv'
<1> USE DEF UsageInv, Sum, Mid
<1>1. UsageTypeOK'
  BY DEF UsageTypeOK, Reading
<1>2. ASSUME NEW q \in Report, Mid(q)'
      PROVE  ReportOK(q)'
  <2>1. CASE q = r
    BY <2>1 DEF UsageTypeOK, ReportOK, Reading
  <2>2. CASE q # r
    <3>1. report'[q] = report[q] /\ ReportOK(q)
      BY <1>2, <2>2 DEF UsageTypeOK
    <3> QED  BY <3>1 DEF ReportOK
  <2> QED  BY <2>1, <2>2
<1>3. ASSUME NEW k \in Event
      PROVE  RowOK(k)'
  <2>1. Pending(k) => Pending(k)'
    BY DEF Pending, UsageTypeOK, Waiting
  <2> QED  BY <2>1 DEF RowOK
<1> QED  BY <1>1, <1>2, <1>3

LEMMA CheckPlanKeeps ==
  ASSUME UsageInv, NEW r \in Report, CheckPlan(r)
  PROVE  UsageInv'
<1> USE DEF UsageInv, CheckPlan, Mid
<1>0. report[r] \in Reading
  BY DEF UsageTypeOK, Waiting
<1>1. UsageTypeOK'
  BY <1>0 DEF UsageTypeOK, Reading
<1>2. ASSUME NEW q \in Report, Mid(q)'
      PROVE  ReportOK(q)'
  <2>1. /\ Mid(q) /\ report'[q].counted = report[q].counted /\ report'[q].out = report[q].out
        /\ report'[q].at = "update" => report[q].at = "update"
    <3>1. CASE q = r
      <4>1. report'[r] # Waiting /\ r \in DOMAIN report
        BY <3>1, <1>2 DEF UsageTypeOK
      <4>2. report' = [report EXCEPT ![r].at = "meter"]
        BY <4>1
      <4>3. report'[r] = [report[r] EXCEPT !.at = "meter"]
        BY <4>1, <4>2
      <4> QED  BY <3>1, <4>3, <1>0 DEF Reading, Waiting
    <3>2. CASE q # r
      BY <3>2, <1>2 DEF UsageTypeOK
    <3> QED  BY <3>1, <3>2
  <2> QED  BY <2>1 DEF ReportOK
<1>3. ASSUME NEW k \in Event
      PROVE  RowOK(k)'
  <2>1. Pending(k) => Pending(k)'
    BY <1>0 DEF Pending, UsageTypeOK, Reading
  <2> QED  BY <2>1 DEF RowOK
<1> QED  BY <1>1, <1>2, <1>3

LEMMA SendMeterEventKeeps ==
  ASSUME UsageInv, NEW r \in Report, SendMeterEvent(r)
  PROVE  UsageInv'
<1> USE DEF UsageInv, SendMeterEvent, Mid
<1>0. report[r] \in Reading /\ Mid(r)
  BY DEF UsageTypeOK, Waiting
<1>1. UsageTypeOK'
  BY <1>0 DEF UsageTypeOK, Reading, CountedBy
<1>2. \A k \in Event : /\ metered'[k] \in 0..2 /\ metered'[k] >= metered[k]
                       /\ k \in report[r].counted => metered'[k] >= 1
                       /\ k \notin report[r].counted => metered'[k] = metered[k]
  BY DEF UsageTypeOK
<1>3. ASSUME NEW q \in Report, Mid(q)'
      PROVE  ReportOK(q)'
  <2>1. Mid(q) /\ report'[q].counted = report[q].counted /\ report'[q].out = report[q].out
    BY <1>0, <1>3 DEF UsageTypeOK, Reading
  <2>2. q # r => report'[q].at = report[q].at
    BY DEF UsageTypeOK
  <2>3. ASSUME report'[q].at = "update", NEW k \in report[q].counted
        PROVE  metered'[k] >= 1
    <3>1. k \in Event
      BY <2>1 DEF ReportOK, UsageTypeOK
    <3>2. CASE q = r
      BY <3>1, <3>2, <1>2
    <3>3. CASE q # r
      <4>1. metered[k] >= 1
        BY <3>3, <2>1, <2>2, <2>3 DEF ReportOK
      <4> QED  BY <4>1, <3>1, <1>2 DEF UsageTypeOK
    <3> QED  BY <3>2, <3>3
  <2> QED  BY <2>1, <2>3 DEF ReportOK
<1>4. ASSUME NEW k \in Event
      PROVE  RowOK(k)'
  <2>1. repeated \subseteq repeated'
    OBVIOUS
  <2>2. k \in reported' /\ metered'[k] = 0 => k \in late'
    BY <1>2 DEF RowOK, UsageTypeOK
  <2>3. CASE k \in report[r].counted
    <3>1. k \in repeated' \/ Pending(k)'
      BY <2>3, <1>0 DEF Pending, UsageTypeOK, Reading
    <3>2. ASSUME metered'[k] > 1
          PROVE  k \in repeated'
      <4>1. metered[k] >= 1
        BY <3>2, <2>3 DEF UsageTypeOK
      <4>2. k \in reported \cup repeated \/ Pending(k)
        BY <4>1 DEF RowOK
      <4>3. Pending(k) => k \in CountedBy(Report \ {r})
        BY DEF Pending, CountedBy
      <4> QED  BY <4>2, <4>3, <2>3
    <3> QED  BY <3>1, <3>2, <2>2 DEF RowOK
  <2>4. CASE k \notin report[r].counted
    <3>1. metered'[k] = metered[k]
      BY <2>4, <1>2
    <3>2. Pending(k) => Pending(k)'
      BY <2>4 DEF Pending, UsageTypeOK
    <3> QED  BY <3>1, <3>2, <2>1 DEF RowOK
  <2> QED  BY <2>3, <2>4
<1> QED  BY <1>1, <1>3, <1>4

LEMMA MarkRowsKeeps ==
  ASSUME UsageInv, NEW r \in Report, MarkRows(r)
  PROVE  UsageInv'
<1> USE DEF UsageInv, MarkRows, Mid
<1>0. report[r] \in Reading /\ ReportOK(r)
  BY DEF UsageTypeOK, Waiting
<1>1. UsageTypeOK'
  BY <1>0 DEF UsageTypeOK, Reading
<1>2. ASSUME NEW q \in Report, Mid(q)'
      PROVE  ReportOK(q)'
  <2>1. report'[q] = report[q] /\ Mid(q)
    BY <1>2 DEF UsageTypeOK
  <2> QED  BY <2>1 DEF ReportOK
<1>3. ASSUME NEW k \in Event
      PROVE  RowOK(k)'
  <2>1. ASSUME k \in reported', metered[k] = 0
        PROVE  k \in late
    <3>1. k \notin report[r].counted
      BY <2>1, <1>0 DEF ReportOK
    <3> QED  BY <2>1, <3>1, <1>0 DEF ReportOK, RowOK
  <2>2. Pending(k) => Pending(k)' \/ k \in reported'
    BY <1>0 DEF Pending, UsageTypeOK, ReportOK
  <2> QED  BY <2>1, <2>2 DEF RowOK
<1> QED  BY <1>1, <1>2, <1>3

LEMMA ReportFailsKeeps ==
  ASSUME UsageInv, NEW r \in Report, ReportFails(r)
  PROVE  UsageInv'
<1> USE DEF UsageInv, ReportFails, Mid
<1>0. report[r] \in Reading /\ ReportOK(r)
  BY DEF UsageTypeOK
<1>1. UsageTypeOK'
  BY <1>0 DEF UsageTypeOK, Reading
<1>2. ASSUME NEW q \in Report, Mid(q)'
      PROVE  ReportOK(q)'
  <2>1. report'[q] = report[q] /\ Mid(q)
    BY <1>2 DEF UsageTypeOK
  <2> QED  BY <2>1 DEF ReportOK
<1>3. ASSUME NEW k \in Event
      PROVE  RowOK(k)'
  <2>1. Pending(k) => Pending(k)' \/ k \in repeated'
    BY DEF Pending, UsageTypeOK
  <2>2. repeated \subseteq repeated'
    OBVIOUS
  <2> QED  BY <2>1, <2>2 DEF RowOK
<1> QED  BY <1>1, <1>2, <1>3

LEMMA AgeKeeps ==
  ASSUME UsageInv, NEW k \in Event, Age(k)
  PROVE  UsageInv'
<1> USE DEF UsageInv, Age, Mid
<1>1. UsageTypeOK'
  BY DEF UsageTypeOK
<1>2. \A q \in Report : Mid(q)' => ReportOK(q)'
  BY DEF ReportOK
<1>3. \A j \in Event : RowOK(j)'
  BY DEF RowOK, Pending
<1> QED  BY <1>1, <1>2, <1>3

LEMMA InsertRowKeeps ==
  ASSUME UsageInv, NEW k \in Event, InsertRow(k)
  PROVE  UsageInv'
<1> USE DEF UsageInv, InsertRow, Mid
<1>1. UsageTypeOK'
  BY DEF UsageTypeOK
<1>2. late \subseteq late'
  OBVIOUS
<1>3. ASSUME NEW q \in Report, Mid(q)'
      PROVE  ReportOK(q)'
  <2>1. ReportOK(q) /\ k \in late'
    BY <1>3
  <2> QED  BY <2>1, <1>2 DEF ReportOK
<1>4. \A j \in Event : RowOK(j)'
  BY <1>2 DEF RowOK, Pending
<1> QED  BY <1>1, <1>3, <1>4

LEMMA UsageKeeps == UsageInv /\ [UsageNext]_usageVars => UsageInv'
<1> SUFFICES ASSUME UsageInv, [UsageNext]_usageVars PROVE UsageInv'
  OBVIOUS
<1>1. CASE UNCHANGED usageVars
  BY <1>1 DEF usageVars, UsageInv, UsageTypeOK, Mid, ReportOK, RowOK, Pending
<1>2. CASE UsageNext
  BY <1>2, SumKeeps, CheckPlanKeeps, SendMeterEventKeeps, MarkRowsKeeps, ReportFailsKeeps,
     AgeKeeps, InsertRowKeeps DEF UsageNext
<1> QED  BY <1>1, <1>2

\* Rows inserted between the sum and the update, and reports that are cut short or run
\* side by side, are all that can make a row's metering differ from its mark.
THEOREM MeteringCorrect == UsageSpec => []MeteredOnce
<1>1. UsageInv => MeteredOnce
  BY DEF UsageInv, RowOK, MeteredOnce
<1> QED  BY UsageInitially, UsageKeeps, <1>1, PTL DEF UsageSpec

-----------------------------------------------------------------------------
(* RateLimit: the property is inductive.                                    *)

RateInv == RateTypeOK /\ WindowCloses

LEMMA RateInvariant == RateSpec => []RateInv
<1>0. /\ 0 \in Counts /\ ~(0 > 0) /\ \A n \in Counts : OneMore(n) \in Counts /\ (n # 0 => n > 0)
  BY RateConstants DEF RateConstants, Counts, OneMore
<1>1. RateInit => RateInv
  BY <1>0, Zenon DEF RateInit, RateInv, RateTypeOK, WindowCloses
<1>2. RateInv /\ [RateNext]_rateVars => RateInv'
  <2> SUFFICES ASSUME RateInv, [RateNext]_rateVars PROVE RateInv'
    OBVIOUS
  <2> USE DEF RateInv, RateTypeOK
  <2>1. ASSUME NEW h \in Hit, Increment(h) PROVE RateInv'
    <3>1. RateTypeOK'
      BY <1>0, <2>1, Zenon DEF Increment, Fallback
    <3>2. WindowCloses'
      <4>1. CASE count = 0
        BY <2>1, <4>1, Zenon DEF Increment, WindowCloses
      <4>2. CASE count # 0
        BY <1>0, <2>1, <4>2, Zenon DEF Increment, WindowCloses
      <4> QED  BY <4>1, <4>2
    <3> QED  BY <3>1, <3>2
  <2>2. ASSUME NEW h \in Hit, IncrementFails(h) PROVE RateInv'
    BY <1>0, <2>2, Zenon DEF IncrementFails, Fallback, WindowCloses
  <2>3. ASSUME NEW h \in Hit, Expire(h) PROVE RateInv'
    BY <1>0, <2>3, Zenon DEF Expire, Fallback, WindowCloses
  <2>4. CASE WindowEnds
    BY <1>0, <2>4, Zenon DEF WindowEnds, WindowCloses
  <2>5. CASE Forget
    BY <1>0, <2>5, Zenon DEF Forget, WindowCloses
  <2>6. CASE UNCHANGED rateVars
    BY <2>6 DEF rateVars, WindowCloses
  <2> QED  BY <2>1, <2>2, <2>3, <2>4, <2>5, <2>6 DEF RateNext
<1> QED  BY <1>1, <1>2, PTL DEF RateSpec

\* A counter without an expiry has a request on its way to set one, or that was cut.
THEOREM WindowCorrect == RateSpec => []WindowCloses
<1> QED  BY RateInvariant, PTL DEF RateInv

-----------------------------------------------------------------------------
(* Draft: a merge base is code the checkout has seen.                       *)

DraftInv ==
    /\ DraftTypeOK
    /\ \A c \in Checkout : base[c] # NoCode => base[c] \in seen[c]
    /\ PushOverwritesTheSeen

LEMMA DraftInvariant == DraftSpec => []DraftInv
<1>1. DraftInit => DraftInv
  BY DraftConstants DEF DraftConstants, DraftInit, DraftInv, DraftTypeOK, PushOverwritesTheSeen, NoPush
<1>2. DraftInv /\ [DraftNext]_draftVars => DraftInv'
  <2> SUFFICES ASSUME DraftInv, [DraftNext]_draftVars PROVE DraftInv'
    OBVIOUS
  <2> USE DraftConstants DEF DraftConstants, DraftInv, DraftTypeOK, PushOverwritesTheSeen
  <2>1. ASSUME NEW c \in Checkout, Pull(c) PROVE DraftInv'
    BY <2>1 DEF Pull, Sees, NoPush
  <2>2. ASSUME NEW c \in Checkout, NEW code \in Code, NEW force \in BOOLEAN, StartPush(c, code, force)
        PROVE  DraftInv'
    BY <2>2 DEF StartPush, NoPush
  <2>3. ASSUME NEW c \in Checkout, CheckBase(c) PROVE DraftInv'
    <3>1. push[c].at = "check" /\ push[c] # NoPush
      BY <2>3 DEF CheckBase, NoPush
    <3>2. CASE Conflicts(c)
      BY <2>3, <3>1, <3>2 DEF CheckBase, Conflicts, Sees, NoPush
    <3>3. CASE ~Conflicts(c)
      BY <2>3, <3>1, <3>3 DEF CheckBase, Conflicts, NoPush
    <3> QED  BY <3>2, <3>3
  <2>4. ASSUME NEW c \in Checkout, UpsertDraft(c) PROVE DraftInv'
    <3>1. push[c] # NoPush /\ push[c].code \in Code
      BY <2>4 DEF UpsertDraft, NoPush
    <3> QED  BY <2>4, <3>1 DEF UpsertDraft, WriteDraft, Sees, NoPush
  <2>5. ASSUME NEW c \in Checkout, LosePush(c) PROVE DraftInv'
    BY <2>5 DEF LosePush, NoPush
  <2>6. ASSUME NEW code \in Code, SaveInDashboard(code) PROVE DraftInv'
    BY <2>6 DEF SaveInDashboard, WriteDraft
  <2>7. CASE UNCHANGED draftVars
    BY <2>7 DEF draftVars
  <2> QED  BY <2>1, <2>2, <2>3, <2>4, <2>5, <2>6, <2>7 DEF DraftNext
<1> QED  BY <1>1, <1>2, PTL DEF DraftSpec

\* However pulls, pushes and saves interleave, an unforced push that is past its check
\* replaces code the checkout has seen, unless the draft was written since the check.
THEOREM PushCorrect == DraftSpec => []PushOverwritesTheSeen
<1> QED  BY DraftInvariant, PTL DEF DraftInv

-----------------------------------------------------------------------------
(* Integrations: what a write of the whole document does to each field.     *)

FieldsInv ==
    /\ meta \subseteq Field /\ wanted \subseteq Field
    /\ NothingLost

LEMMA WriteMetaKeeps ==
  ASSUME FieldsInv, NEW t \in Task, NEW e \in DOMAIN Puts, WriteMeta(t, e)
  PROVE  FieldsInv'
<1>1. meta' \subseteq Field /\ wanted' \subseteq Field
  BY DEF WriteMeta
<1>2. ASSUME NEW f \in Field, f \notin unsound'
      PROVE  f \in meta' <=> f \in wanted'
  <2>1. CASE f \notin Apart(meta', wanted')
    BY <1>2, <2>1 DEF Apart
  <2>2. CASE f \in Apart(meta', wanted')
    <3>1. f \notin unsound /\ f \notin Apart(task[t].read, meta) /\ f \notin Dropped(e)
      BY <1>2, <2>2 DEF WriteMeta
    <3>2. f \in task[t].read <=> f \in wanted
      BY <3>1 DEF Apart, FieldsInv, NothingLost
    <3>3. f \in Kept(e)
      BY <3>1, LinkConstants DEF Kept, Dropped, LinkConstants
    <3> QED  BY <3>2, <3>3 DEF WriteMeta
  <2> QED  BY <2>1, <2>2
<1> QED  BY <1>1, <1>2 DEF FieldsInv, NothingLost

LEMMA FieldsKeep == FieldsInv /\ [LinkNext]_linkVars => FieldsInv'
<1> SUFFICES ASSUME FieldsInv, [LinkNext]_linkVars PROVE FieldsInv'
  OBVIOUS
<1>1. CASE UNCHANGED <<meta, wanted, unsound>>
  BY <1>1 DEF FieldsInv, NothingLost
<1>2. ASSUME NEW t \in Task, NEW e \in DOMAIN Puts, WriteMeta(t, e) PROVE FieldsInv'
  BY <1>2, WriteMetaKeeps
<1>3. CASE UNCHANGED linkVars
  BY <1>1, <1>3 DEF linkVars
<1>4. ASSUME NEW t \in Task, Do(t) PROVE FieldsInv'
  BY <1>1, <1>2, <1>4 DEF Do, StartTask, ReadMeta, Look, LookForKey, LookForToken, FindLink, Link,
     FindRepo, SyncRepo, Unlink, RemoveRepos, BreakOff
<1> QED  BY <1>3, <1>4 DEF LinkNext

\* However the features' reads and writes of the document interleave, a field differs from
\* its last edit only by an overtaken write or a save of the settings.
THEOREM MetadataCorrect == LinkSpec => []NothingLost
<1>1. LinkInit => FieldsInv
  BY DEF LinkInit, FieldsInv, NothingLost
<1> QED  BY <1>1, FieldsKeep, PTL DEF LinkSpec, FieldsInv

-----------------------------------------------------------------------------
(* Integrations: who may find the connection active and have it taken away. *)

TaskStep == {"storeToken", "unskip", "link", "sync", "unlink", "removeRepos", "clearToken", "unpick",
         "needToken", "pick", "skip", "saveSettings", "lackKey", "storeKey"}

\* Only the flows of the connection make or end it, and the check for the token comes first.
StepsOK(flow, todo) ==
    /\ todo \in Seq(TaskStep)
    /\ flow # "none" => Len(todo) >= 1
    /\ \A i \in 1..Len(todo) : 
         /\ todo[i] \in {"link", "unlink"} => flow \in Connecting
         /\ todo[i] = "link" => flow # "refresh"
         /\ todo[i] = "needToken" => flow = "refresh"
    /\ flow # "none" /\ todo[1] = "needToken" => Len(todo) >= 2
    /\ \A i \in 2..Len(todo) : todo[i] # "needToken"

TaskRecord == [flow : DOMAIN Program \cup {"none"}, todo : Seq(TaskStep), looked : BOOLEAN,
               read : SUBSET Field, found : BOOLEAN, alone : BOOLEAN]

\* A connection flow that is alone is the only one, and then what it found still holds.
ReconnectInv ==
    /\ meta \subseteq Field
    /\ task \in [Task -> TaskRecord]
    /\ \A t \in Task :
        LET q == task[t]
        IN  /\ StepsOK(q.flow, q.todo)
            /\ ~q.looked => ~q.found
            /\ q.flow \in Connecting /\ q.alone => Connections = {t}
            /\ q.flow # "none" /\ q.todo[1] = "link" /\ q.alone /\ q.found => link = "active"

RepoOK == repo \in BOOLEAN

LEMMA Programs ==
    ASSUME NEW f \in DOMAIN Program
    PROVE  f # "none" /\ StepsOK(f, Program[f])
<1> USE DEF Program, StepsOK, TaskStep, Connecting
<1>1. CASE f = "connect"
  BY <1>1
<1>2. CASE f = "disconnect"
  BY <1>2
<1>3. CASE f = "refresh"
  BY <1>3
<1>4. CASE f \in {"select", "deselect", "skip", "settings"}
  BY <1>4
<1>5. CASE f = "sdk"
  BY <1>5
<1> QED  BY <1>1, <1>2, <1>3, <1>4, <1>5


LEMMA TailsOK ==
    ASSUME NEW flow, NEW todo, StepsOK(flow, todo), Len(todo) >= 2
    PROVE  StepsOK(flow, Tail(todo))
<1>1. todo \in Seq(TaskStep) /\ todo # <<>>
  BY DEF StepsOK
<1>2. /\ Tail(todo) \in Seq(TaskStep) /\ Len(Tail(todo)) = Len(todo) - 1 /\ Len(todo) \in Nat
      /\ \A i \in 1..Len(Tail(todo)) : Tail(todo)[i] = todo[i + 1]
  BY <1>1
<1> QED  BY <1>2 DEF StepsOK

\* A step of one request.
LEMMA MoveKeeps ==
    ASSUME ReconnectInv, NEW t \in Task, NEW q \in TaskRecord,
           task' = [task EXCEPT ![t] = q], StepsOK(q.flow, q.todo), ~q.looked => ~q.found,
           \/ q.flow = task[t].flow /\ q.alone = task[t].alone
           \/ q.flow = "none",
           q.flow # "none" /\ q.todo[1] = "link" /\ q.alone /\ q.found => link' = "active",
           link' \in {link, "active"} \/ (task[t].flow \in Connecting),
           meta' \subseteq Field
    PROVE  ReconnectInv'
<1>1. task' \in [Task -> TaskRecord] /\ task'[t] = q /\ \A s \in Task \ {t} : task'[s] = task[s]
  BY DEF ReconnectInv
<1>2. Connections' \subseteq Connections /\ (q.flow = task[t].flow => Connections' = Connections)
  BY <1>1 DEF Connections, Connecting
<1>3. ASSUME NEW s \in Task, s # t, task[s].flow \in Connecting, task[s].alone
      PROVE  Connections' = {s} /\ task[t].flow \notin Connecting
  <2>1. Connections = {s}
    BY <1>3 DEF ReconnectInv
  <2>2. t \notin Connections
    BY <1>3, <2>1
  <2>3. s \in Connections'
    BY <1>1, <1>3 DEF Connections
  <2> QED  BY <1>2, <2>1, <2>2, <2>3 DEF Connections
<1>4. ASSUME NEW s \in Task
      PROVE  LET p == task'[s]
             IN  /\ StepsOK(p.flow, p.todo)
                 /\ ~p.looked => ~p.found
                 /\ p.flow \in Connecting /\ p.alone => Connections' = {s}
                 /\ p.flow # "none" /\ p.todo[1] = "link" /\ p.alone /\ p.found => link' = "active"
  <2>1. CASE s = t
    BY <1>1, <1>2, <2>1 DEF ReconnectInv, Connecting
  <2>2. CASE s # t
    <3>1. task'[s] = task[s] /\ StepsOK(task[s].flow, task[s].todo) /\ (~task[s].looked => ~task[s].found)
      BY <1>1, <2>2 DEF ReconnectInv
    <3>2. task[s].flow \in Connecting /\ task[s].alone => Connections' = {s}
      BY <1>3, <2>2
    <3>3. ASSUME task[s].flow # "none", task[s].todo[1] = "link", task[s].alone, task[s].found
          PROVE  link' = "active"
      <4>1. task[s].flow \in Connecting
        <5>1. Len(task[s].todo) \in Nat /\ 1 \in 1..Len(task[s].todo)
          BY <3>1, <3>3 DEF StepsOK
        <5> QED  BY <3>1, <3>3, <5>1 DEF StepsOK
      <4>2. task[t].flow \notin Connecting
        BY <1>3, <2>2, <3>3, <4>1
      <4>3. link = "active"
        BY <3>3 DEF ReconnectInv
      <4> QED  BY <4>2, <4>3
    <3> QED  BY <3>1, <3>2, <3>3
  <2> QED  BY <2>1, <2>2
<1> QED  BY <1>1, <1>4 DEF ReconnectInv

LEMMA TaskEndKeeps ==
    ASSUME ReconnectInv, NEW t \in Task, task' = [task EXCEPT ![t] = NoTask],
           link' \in {link, "active"} \/ task[t].flow \in Connecting, meta' \subseteq Field
    PROVE  ReconnectInv'
<1>1. /\ NoTask \in TaskRecord /\ NoTask.flow = "none" /\ StepsOK(NoTask.flow, NoTask.todo)
      /\ ~NoTask.looked => ~NoTask.found
  BY DEF NoTask, TaskRecord, StepsOK
<1> QED  BY <1>1, MoveKeeps

LEMMA AdvanceKeeps ==
    ASSUME ReconnectInv, NEW t \in Task, ~Rest(t), Advance(t),
           link' \in {link, "active"} \/ task[t].flow \in Connecting, meta' \subseteq Field
    PROVE  ReconnectInv'
<1> DEFINE p == task[t]
           q == [p EXCEPT !.todo = Tail(@), !.looked = FALSE, !.read = {}, !.found = FALSE]
<1>1. p \in TaskRecord /\ StepsOK(p.flow, p.todo) /\ p.flow # "none"
  BY DEF ReconnectInv, Rest
<1>2. CASE Len(p.todo) = 1
  BY <1>2, TaskEndKeeps DEF Advance
<1>3. CASE Len(p.todo) # 1
  <2>1. Len(p.todo) >= 2
    <3>1. p.todo \in Seq(TaskStep) /\ Len(p.todo) >= 1
      BY <1>1 DEF StepsOK
    <3>2. PICK n \in Nat : n = Len(p.todo)
      BY <3>1
    <3>3. n >= 1 /\ n # 1
      BY <1>3, <3>1, <3>2
    <3>4. n >= 2
      BY <3>3
    <3> QED  BY <3>2, <3>4
  <2>2. StepsOK(p.flow, Tail(p.todo))
    BY <1>1, <2>1, TailsOK
  <2>3. q \in TaskRecord
    BY <1>1, <2>2 DEF TaskRecord, StepsOK
  <2>4. q.flow = p.flow /\ q.alone = p.alone /\ q.todo = Tail(p.todo) /\ ~q.found
    BY <1>1 DEF TaskRecord
  <2>5. task' = [task EXCEPT ![t] = q]
    BY <1>3 DEF Advance
  <2> QED  BY <2>2, <2>3, <2>4, <2>5, MoveKeeps
<1> QED  BY <1>2, <1>3

LEMMA LookKeeps ==
    ASSUME ReconnectInv, NEW t \in Task, NEW read \in SUBSET Field, NEW found \in BOOLEAN,
           Look(t, read, found),
           task[t].flow # "none" /\ task[t].todo[1] = "link" /\ found => link = "active"
    PROVE  ReconnectInv'
<1> DEFINE q == [task[t] EXCEPT !.looked = TRUE, !.read = read, !.found = found]
<1>1. task[t] \in TaskRecord /\ StepsOK(task[t].flow, task[t].todo)
  BY DEF ReconnectInv
<1>2. q \in TaskRecord
  BY <1>1 DEF TaskRecord
<1>3. q.flow = task[t].flow /\ q.alone = task[t].alone /\ q.todo = task[t].todo /\ q.looked /\ q.found = found
  BY <1>1 DEF TaskRecord
<1>4. task' = [task EXCEPT ![t] = q] /\ link' = link /\ meta' \subseteq Field
  BY <1>1 DEF Look, ReconnectInv, TaskRecord
<1> HIDE DEF q
<1> QED  BY <1>1, <1>2, <1>3, <1>4, MoveKeeps

LEMMA StartKeeps ==
    ASSUME ReconnectInv, NEW t \in Task, NEW f \in DOMAIN Program, StartTask(t, f)
    PROVE  ReconnectInv'
<1> DEFINE q == [NoTask EXCEPT !.flow = f, !.todo = Program[f],
                               !.alone = f \notin Connecting \/ Connections = {}]
<1>1. /\ q \in TaskRecord /\ q.flow = f /\ q.todo = Program[f] /\ ~q.found
      /\ q.alone = (f \notin Connecting \/ Connections = {}) /\ StepsOK(f, Program[f]) /\ f # "none"
  BY Programs DEF NoTask, TaskRecord, StepsOK
<1>2. task[t].flow = "none" /\ link' = link /\ meta' = meta
  BY DEF StartTask, Rest
<1>3. task' = [s \in Task |-> IF s = t THEN q
                 ELSE IF f \in Connecting /\ s \in Connections THEN [task[s] EXCEPT !.alone = FALSE]
                 ELSE task[s]]
  BY DEF StartTask
<1> HIDE DEF q
<1>4. task'[t] = q
  BY <1>3
<1>5. ASSUME NEW s \in Task, s # t
      PROVE  /\ task'[s] \in TaskRecord
             /\ task'[s].flow = task[s].flow /\ task'[s].todo = task[s].todo
             /\ task'[s].looked = task[s].looked /\ task'[s].found = task[s].found
             /\ task'[s].alone => task[s].alone
             /\ f \in Connecting /\ s \in Connections => ~task'[s].alone
  <2>1. task[s] \in TaskRecord
    BY DEF ReconnectInv
  <2>2. CASE f \in Connecting /\ s \in Connections
    <3>1. task'[s] = [task[s] EXCEPT !.alone = FALSE]
      BY <1>3, <1>5, <2>2
    <3> QED  BY <2>1, <3>1 DEF TaskRecord
  <2>3. CASE ~(f \in Connecting /\ s \in Connections)
    <3>1. task'[s] = task[s]
      BY <1>3, <1>5, <2>3
    <3> QED  BY <2>1, <2>3, <3>1
  <2> QED  BY <2>2, <2>3
<1>6. task' \in [Task -> TaskRecord]
  <2>1. \A s \in Task : task'[s] \in TaskRecord
    BY <1>1, <1>4, <1>5
  <2>2. task' = [s \in Task |-> task'[s]]
    BY <1>3
  <2> QED  BY <2>1, <2>2
<1>7. f \notin Connecting => Connections' = Connections
  BY <1>1, <1>2, <1>4, <1>5 DEF Connections, Connecting
<1>8. f \in Connecting => Connections' = Connections \cup {t}
  BY <1>1, <1>2, <1>4, <1>5 DEF Connections, Connecting
<1>9. ASSUME NEW s \in Task
      PROVE  LET p == task'[s]
             IN  /\ StepsOK(p.flow, p.todo)
                 /\ ~p.looked => ~p.found
                 /\ p.flow \in Connecting /\ p.alone => Connections' = {s}
                 /\ p.flow # "none" /\ p.todo[1] = "link" /\ p.alone /\ p.found => link' = "active"
  <2>1. CASE s = t
    BY <1>1, <1>4, <1>8, <2>1
  <2>2. CASE s # t
    <3>1. /\ StepsOK(task[s].flow, task[s].todo) /\ (~task[s].looked => ~task[s].found)
          /\ task[s].flow \in Connecting /\ task[s].alone => Connections = {s}
          /\ task[s].flow # "none" /\ task[s].todo[1] = "link" /\ task[s].alone /\ task[s].found => link = "active"
      BY DEF ReconnectInv
    <3>2. task'[s].flow \in Connecting => s \in Connections
      BY <1>5, <2>2 DEF Connections
    <3> QED  BY <1>2, <1>5, <1>7, <2>2, <3>1, <3>2
  <2> QED  BY <2>1, <2>2
<1> QED  BY <1>2, <1>6, <1>9 DEF ReconnectInv

\* What a request that is at a step is about.
LEMMA AtStep ==
    ASSUME ReconnectInv, NEW t \in Task, NEW step, Doing(t, step)
    PROVE  /\ ~Rest(t) /\ task[t].flow # "none" /\ task[t].todo[1] = step
           /\ step \in {"link", "unlink"} => task[t].flow \in Connecting
<1>1. /\ task[t].flow # "none" /\ Head(task[t].todo) = step /\ StepsOK(task[t].flow, task[t].todo)
      /\ task[t].todo \in Seq(TaskStep) /\ Len(task[t].todo) >= 1
  BY DEF Doing, Rest, ReconnectInv, StepsOK
<1>2. task[t].todo[1] = step /\ 1 \in 1..Len(task[t].todo)
  BY <1>1
<1> QED  BY <1>1, <1>2 DEF StepsOK, Rest

LEMMA NeedTokenKeeps ==
    ASSUME ReconnectInv, NEW t \in Task, LookForToken(t)
    PROVE  ReconnectInv'
<1> DEFINE p == task[t]
           q == [p EXCEPT !.todo = Tail(@)]
<1>1. p \in TaskRecord /\ StepsOK(p.flow, p.todo) /\ p.flow # "none" /\ p.todo[1] = "needToken"
      /\ Doing(t, "needToken") /\ link' = link /\ meta' = meta /\ meta \subseteq Field
  BY AtStep DEF ReconnectInv, LookForToken
<1>2. CASE "token" \in meta
  <2>1. StepsOK(p.flow, Tail(p.todo))
    BY <1>1, TailsOK DEF StepsOK
  <2>2. q \in TaskRecord
    BY <1>1, <2>1 DEF TaskRecord, StepsOK
  <2>3. q.flow = p.flow /\ q.alone = p.alone /\ q.todo = Tail(p.todo) /\ q.found = p.found /\ q.looked = p.looked
    BY <1>1 DEF TaskRecord
  <2>4. ~p.looked => ~p.found
    BY DEF ReconnectInv
  <2>5. task' = [task EXCEPT ![t] = q]
    BY <1>2 DEF LookForToken
  <2>6. q.todo[1] # "link"
    <3>1. p.todo \in Seq(TaskStep) /\ Len(p.todo) >= 2 /\ p.flow = "refresh"
      BY <1>1 DEF StepsOK
    <3>2. q.todo \in Seq(TaskStep) /\ 1 \in 1..Len(q.todo)
      BY <2>1, <2>3, <3>1
    <3> QED  BY <2>1, <2>3, <3>1, <3>2 DEF StepsOK
  <2> HIDE DEF q
  <2> QED  BY <1>1, <2>1, <2>2, <2>3, <2>4, <2>5, <2>6, MoveKeeps
<1>3. CASE "token" \notin meta
  <2>1. task' = [task EXCEPT ![t] = NoTask]
    BY <1>3 DEF LookForToken
  <2> QED  BY <1>1, <2>1, TaskEndKeeps
<1> QED  BY <1>2, <1>3

LEMMA DoKeeps ==
    ASSUME ReconnectInv, RepoOK, NEW t \in Task, Do(t)
    PROVE  ReconnectInv'
<1>0. meta \subseteq Field /\ task[t] \in TaskRecord
  BY DEF ReconnectInv
<1>1. ASSUME NEW f \in DOMAIN Program, StartTask(t, f) PROVE ReconnectInv'
  BY <1>1, StartKeeps
<1>2. ASSUME NEW e \in DOMAIN Puts, Doing(t, e), Look(t, meta, FALSE) PROVE ReconnectInv'
  BY <1>0, <1>2, LookKeeps
<1>3. ASSUME NEW e \in DOMAIN Puts, WriteMeta(t, e) PROVE ReconnectInv'
  <2>1. Doing(t, e) /\ Advance(t) /\ link' = link /\ meta' \subseteq Field
    BY <1>3 DEF WriteMeta
  <2> QED  BY <2>1, AtStep, AdvanceKeeps
<1>4. CASE LookForKey(t)
  <2>1. Doing(t, "lackKey") /\ (Advance(t) \/ Break(t)) /\ link' = link /\ meta' = meta
    BY <1>4 DEF LookForKey
  <2> QED  BY <1>0, <2>1, AtStep, AdvanceKeeps, TaskEndKeeps DEF Break
<1>5. CASE LookForToken(t)
  BY <1>5, NeedTokenKeeps
<1>6. CASE FindLink(t)
  <2>1. Doing(t, "link") /\ Look(t, {}, link = "active")
    BY <1>6 DEF FindLink
  <2>2. PICK found \in BOOLEAN : found <=> link = "active"
    <3>1. WITNESS (link = "active") \in BOOLEAN
    <3> QED  BY <3>1
  <2>3. found = (link = "active")
    BY <2>2
  <2>4. Look(t, {}, found)
    BY <2>1, <2>3
  <2> QED  BY <2>2, <2>4, LookKeeps
<1>7. CASE Link(t)
  <2>1. Doing(t, "link") /\ meta' = meta /\ ((link' = "active" /\ Advance(t)) \/ (link' = link /\ Break(t)))
    BY <1>7 DEF Link
  <2> QED  BY <1>0, <2>1, AtStep, AdvanceKeeps, TaskEndKeeps DEF Break
<1>8. CASE FindRepo(t)
  <2>1. Doing(t, "sync") /\ Look(t, {}, repo)
    BY <1>8 DEF FindRepo
  <2>2. task[t].todo[1] # "link" /\ meta' = meta /\ link' = link
    BY <2>1, AtStep DEF Look
  <2> QED  BY <1>0, <2>1, <2>2, LookKeeps DEF RepoOK
<1>9. CASE SyncRepo(t)
  <2>1. Doing(t, "sync") /\ (Advance(t) \/ Break(t)) /\ link' = link /\ meta' = meta
    BY <1>9 DEF SyncRepo
  <2> QED  BY <1>0, <2>1, AtStep, AdvanceKeeps, TaskEndKeeps DEF Break
<1>10. CASE Unlink(t)
  <2>1. Doing(t, "unlink") /\ Advance(t) /\ meta' = meta
    BY <1>10 DEF Unlink
  <2> QED  BY <1>0, <2>1, AtStep, AdvanceKeeps
<1>11. CASE RemoveRepos(t)
  <2>1. Doing(t, "removeRepos") /\ Advance(t) /\ link' = link /\ meta' = meta
    BY <1>11 DEF RemoveRepos
  <2> QED  BY <1>0, <2>1, AtStep, AdvanceKeeps
<1>12. CASE BreakOff(t)
  BY <1>0, <1>12, TaskEndKeeps DEF BreakOff, Break
<1> QED  BY <1>1, <1>2, <1>3, <1>4, <1>5, <1>6, <1>7, <1>8, <1>9, <1>10, <1>11, <1>12 DEF Do, ReadMeta

\* A disconnected workspace is connected again only by a connect that overlapped the
\* disconnect, for any number of requests: the row is in the way of any other.
THEOREM ReconnectCorrect == LinkSpec => ReconnectIsRace
<1>1. LinkInit => ReconnectInv
  <2> SUFFICES ASSUME LinkInit PROVE ReconnectInv
    OBVIOUS
  <2>1. NoTask \in TaskRecord /\ NoTask.flow = "none" /\ StepsOK(NoTask.flow, NoTask.todo) /\ ~NoTask.found
    BY DEF NoTask, TaskRecord, StepsOK
  <2>2. task = [t \in Task |-> NoTask] /\ "none" \notin Connecting /\ meta = {}
    BY DEF LinkInit, Connecting
  <2> QED  BY <2>1, <2>2 DEF ReconnectInv
<1>r. LinkInit => RepoOK
  BY DEF LinkInit, RepoOK
<1>b. RepoOK /\ [LinkNext]_linkVars => RepoOK'
  BY DEF RepoOK, LinkNext, Do, linkVars, StartTask, ReadMeta, Look, WriteMeta, LookForKey, LookForToken,
         FindLink, Link, FindRepo, SyncRepo, Unlink, RemoveRepos, BreakOff
<1>2. ReconnectInv /\ RepoOK /\ [LinkNext]_linkVars => ReconnectInv'
  <2>1. CASE UNCHANGED linkVars
    BY <2>1 DEF linkVars, ReconnectInv, Connections
  <2> QED  BY <2>1, DoKeeps DEF LinkNext
<1>3. ASSUME ReconnectInv, [LinkNext]_linkVars, link = "disconnected", link' = "active"
      PROVE  \E t \in Connections : Doing(t, "link") /\ ~task[t].alone
  <2>1. PICK t \in Task : Link(t)
    BY <1>3 DEF LinkNext, Do, linkVars, StartTask, ReadMeta, Look, WriteMeta, LookForKey, LookForToken,
                FindLink, FindRepo, SyncRepo, Unlink, RemoveRepos, BreakOff
  <2>2. Doing(t, "link") /\ task[t].found
    BY <1>3, <2>1 DEF Link
  <2>3. task[t].flow # "none" /\ task[t].todo[1] = "link" /\ task[t].flow \in Connecting
    BY <1>3, <2>2, AtStep
  <2>4. ~task[t].alone
    BY <1>3, <2>2, <2>3 DEF ReconnectInv
  <2> QED  BY <2>2, <2>3, <2>4 DEF Connections
<1>4. ReconnectInv /\ [LinkNext]_linkVars =>
        [link = "disconnected" /\ link' = "active" =>
            \E t \in Connections : Doing(t, "link") /\ ~task[t].alone]_linkVars
  BY <1>3
<1> QED  BY <1>1, <1>r, <1>b, <1>2, <1>4, PTL DEF LinkSpec, ReconnectIsRace

-----------------------------------------------------------------------------
(* Integrations: what the flows of the connection have done to its tables.  *)

\* What a flow may have left to do.
Left == [connect |-> {<<"storeToken", "unskip", "link", "sync">>, <<"unskip", "link", "sync">>,
                      <<"link", "sync">>, <<"sync">>},
         disconnect |-> {<<"unlink", "removeRepos", "clearToken", "unpick">>,
                         <<"removeRepos", "clearToken", "unpick">>, <<"clearToken", "unpick">>,
                         <<"unpick">>},
         refresh |-> {<<"needToken", "sync">>, <<"sync">>},
         select |-> {<<"pick">>}, deselect |-> {<<"unpick">>}, skip |-> {<<"skip">>},
         settings |-> {<<"saveSettings">>}, sdk |-> {<<"lackKey", "storeKey">>, <<"storeKey">>}]

\* The connection is there with its token, or not at all.
Whole == (link = "active" <=> "token" \in wanted) /\ (repo => link = "active")

\* A flow that has the tables for itself has done the steps it has not left.
AloneDone(flow, todo) ==
    /\ flow = "connect" =>
         /\ todo # Program.connect => "token" \in wanted
         /\ todo = <<"sync">> => link = "active"
    /\ flow = "disconnect" =>
         /\ todo # Program.disconnect => link # "active"
         /\ todo \in {<<"clearToken", "unpick">>, <<"unpick">>} => ~repo
         /\ todo = <<"unpick">> => "token" \notin wanted
    /\ flow = "refresh" /\ ~torn /\ todo = <<"sync">> => Whole /\ link = "active"

Unbegun(t) == task[t].todo = Program[task[t].flow]

\* The tables are whole while no flow has changed them.
ConnectionInv ==
    /\ \A t \in Task : task[t].flow # "none" => task[t].todo \in Left[task[t].flow]
    /\ \A t \in Connections : task[t].alone =>
         Connections = {t} /\ AloneDone(task[t].flow, task[t].todo)
    /\ ~torn /\ (\A t \in Connections : Unbegun(t)) => Whole

TablesKept ==
    /\ link' = link /\ repo' = repo /\ ("token" \in wanted' <=> "token" \in wanted) /\ (torn => torn')

LEMMA HeadsAndTails ==
  ASSUME NEW flow \in DOMAIN Program, NEW todo \in Left[flow]
  PROVE  /\ Len(todo) = 1 \/ (Tail(todo) \in Left[flow] /\ Tail(todo) # Program[flow])
         /\ Head(todo) = "storeToken" => flow = "connect" /\ Tail(todo) = <<"unskip", "link", "sync">> /\ Len(todo) # 1
         /\ Head(todo) = "unskip" => flow = "connect" /\ Tail(todo) = <<"link", "sync">> /\ Len(todo) # 1 /\ todo # Program.connect
         /\ Head(todo) = "link" => flow = "connect" /\ Tail(todo) = <<"sync">> /\ Len(todo) # 1 /\ todo # Program.connect
         /\ Head(todo) = "sync" => flow \in {"connect", "refresh"} /\ todo = <<"sync">> /\ Len(todo) = 1
         /\ Head(todo) = "unlink" => flow = "disconnect" /\ Tail(todo) = <<"removeRepos", "clearToken", "unpick">> /\ Len(todo) # 1
         /\ Head(todo) = "removeRepos" => flow = "disconnect" /\ Tail(todo) = <<"clearToken", "unpick">> /\ Len(todo) # 1 /\ todo # Program.disconnect
         /\ Head(todo) = "clearToken" => flow = "disconnect" /\ todo = <<"clearToken", "unpick">> /\ Tail(todo) = <<"unpick">> /\ Len(todo) # 1
         /\ Head(todo) = "unpick" => flow \in {"deselect", "disconnect"} /\ todo = <<"unpick">> /\ Len(todo) = 1
         /\ Head(todo) = "needToken" => flow = "refresh" /\ todo = Program.refresh /\ Tail(todo) = <<"sync">> /\ Len(todo) # 1
         /\ Head(todo) \in {"pick", "skip", "saveSettings", "lackKey", "storeKey"} => flow \notin Connecting
<1> USE DEF Program, Left, Connecting
<1>1. CASE flow = "connect"
  <2>1. CASE todo = <<"storeToken", "unskip", "link", "sync">>
    BY <1>1, <2>1
  <2>2. CASE todo = <<"unskip", "link", "sync">>
    BY <1>1, <2>2
  <2>3. CASE todo = <<"link", "sync">>
    BY <1>1, <2>3
  <2>4. CASE todo = <<"sync">>
    BY <1>1, <2>4
  <2> QED  BY <1>1, <2>1, <2>2, <2>3, <2>4
<1>2. CASE flow = "disconnect"
  <2>1. CASE todo = <<"unlink", "removeRepos", "clearToken", "unpick">>
    BY <1>2, <2>1
  <2>2. CASE todo = <<"removeRepos", "clearToken", "unpick">>
    BY <1>2, <2>2
  <2>3. CASE todo = <<"clearToken", "unpick">>
    BY <1>2, <2>3
  <2>4. CASE todo = <<"unpick">>
    BY <1>2, <2>4
  <2> QED  BY <1>2, <2>1, <2>2, <2>3, <2>4
<1>3. CASE flow = "refresh"
  <2>1. CASE todo = <<"needToken", "sync">>
    BY <1>3, <2>1
  <2>2. CASE todo = <<"sync">>
    BY <1>3, <2>2
  <2> QED  BY <1>3, <2>1, <2>2
<1>4. CASE flow \in {"select", "deselect", "skip", "settings"}
  BY <1>4
<1>5. CASE flow = "sdk"
  <2>1. CASE todo = <<"lackKey", "storeKey">>
    BY <1>5, <2>1
  <2>2. CASE todo = <<"storeKey">>
    BY <1>5, <2>2
  <2> QED  BY <1>5, <2>1, <2>2
<1> QED  BY <1>1, <1>2, <1>3, <1>4, <1>5

\* A step of one request.
LEMMA MoveConnection ==
  ASSUME ReconnectInv, ConnectionInv, NEW t \in Task, NEW q,
         task' = [task EXCEPT ![t] = q],
         (q.flow = task[t].flow /\ q.alone = task[t].alone) \/ q.flow = "none",
         q.flow # "none" => q.todo \in Left[q.flow],
         task[t].flow \notin Connecting => TablesKept /\ (torn' <=> torn),
         q.flow \in Connecting /\ q.alone => AloneDone(q.flow, q.todo)',
         \/ torn' \/ Whole'
         \/ q.flow \in Connecting /\ q.todo # Program[q.flow]
         \/ TablesKept /\ (task[t].flow \in Connecting => Unbegun(t))
  PROVE  ConnectionInv'
<1>1. task'[t] = q /\ \A s \in Task \ {t} : task'[s] = task[s]
  BY DEF ReconnectInv
<1>2. Connections' \subseteq Connections
  BY <1>1 DEF Connections, Connecting
<1>3. \A s \in Task : task'[s].flow # "none" => task'[s].todo \in Left[task'[s].flow]
  BY <1>1 DEF ConnectionInv
<1>4. ASSUME NEW s \in Connections', task'[s].alone
      PROVE  Connections' = {s} /\ AloneDone(task[s].flow, task[s].todo)'
  <2>1. CASE s = t
    <3>1. t \in Connections /\ task[t].alone /\ q.flow \in Connecting
      BY <1>1, <1>2, <1>4, <2>1 DEF Connections, Connecting
    <3>2. AloneDone(q.flow, q.todo)'
      BY <1>1, <1>4, <2>1, <3>1
    <3> QED  BY <1>1, <1>2, <1>4, <2>1, <3>1, <3>2 DEF ConnectionInv
  <2>2. CASE s # t
    <3>1. s \in Connections /\ task'[s] = task[s] /\ task[s].alone
      BY <1>1, <1>2, <1>4, <2>2 DEF Connections
    <3>2. Connections = {s} /\ AloneDone(task[s].flow, task[s].todo)
      BY <3>1 DEF ConnectionInv
    <3>3. TablesKept /\ (torn' <=> torn)
      BY <2>2, <3>2 DEF Connections
    <3> QED  BY <1>2, <1>4, <3>1, <3>2, <3>3 DEF AloneDone, Whole, TablesKept
  <2> QED  BY <2>1, <2>2
<1>5. ASSUME ~torn', \A s \in Connections' : Unbegun(s)'
      PROVE  Whole'
  <2>1. CASE q.flow \in Connecting /\ q.todo # Program[q.flow]
    BY <1>1, <1>5, <2>1 DEF Connections, Unbegun
  <2>2. CASE TablesKept /\ (task[t].flow \in Connecting => Unbegun(t))
    <3>1. \A s \in Connections : Unbegun(s)
      BY <1>1, <1>5, <2>2 DEF Connections, Unbegun
    <3>2. Whole
      BY <1>5, <2>2, <3>1 DEF ConnectionInv, TablesKept
    <3> QED  BY <2>2, <3>2 DEF Whole, TablesKept
  <2> QED  BY <1>5, <2>1, <2>2
<1> QED  BY <1>3, <1>4, <1>5 DEF ConnectionInv

\* A request that is through with a step.
LEMMA AdvanceConnection ==
  ASSUME ReconnectInv, ConnectionInv, NEW t \in Task, NEW flow, NEW todo, ~Rest(t), Advance(t),
         task[t].flow = flow, task[t].todo = todo,
         flow \notin Connecting => TablesKept,
         flow \in Connecting /\ task[t].alone /\ Len(todo) # 1 => AloneDone(flow, Tail(todo))',
         flow \in Connecting /\ task[t].alone /\ Len(todo) = 1 => torn' \/ Whole'
  PROVE  ConnectionInv'
<1>1. /\ task[t] \in TaskRecord /\ flow \in DOMAIN Program /\ todo \in Left[flow]
      /\ NoTask.flow = "none" /\ "none" \notin Connecting
  BY DEF ReconnectInv, ConnectionInv, Rest, TaskRecord, NoTask, Connecting
<1>2. CASE Len(todo) = 1
  <2>1. task' = [task EXCEPT ![t] = NoTask]
    BY <1>2 DEF Advance
  <2>2. flow \in Connecting /\ ~task[t].alone => torn'
    BY <1>2 DEF Advance
  <2>3. flow \notin Connecting => (torn' <=> torn)
    BY <1>2 DEF Advance
  <2> QED  BY <1>1, <1>2, <2>1, <2>2, <2>3, MoveConnection
<1>3. CASE Len(todo) # 1
  <2>1. PICK q : q = [task[t] EXCEPT !.todo = Tail(todo), !.looked = FALSE, !.read = {}, !.found = FALSE]
    OBVIOUS
  <2>2. task' = [task EXCEPT ![t] = q] /\ torn' = torn
    BY <1>3, <2>1 DEF Advance
  <2>3. q.flow = flow /\ q.alone = task[t].alone /\ q.todo = Tail(todo)
    BY <1>1, <2>1 DEF TaskRecord
  <2>4. Tail(todo) \in Left[flow] /\ Tail(todo) # Program[flow]
    BY <1>1, <1>3, HeadsAndTails
  <2>5. q.flow \in Connecting /\ q.alone => AloneDone(q.flow, q.todo)'
    BY <1>3, <2>3
  <2> QED  BY <2>2, <2>3, <2>4, <2>5, MoveConnection
<1> QED  BY <1>2, <1>3

LEMMA LookConnection ==
  ASSUME ReconnectInv, ConnectionInv, NEW t \in Task, NEW read, NEW found, ~Rest(t),
         Look(t, read, found)
  PROVE  ConnectionInv'
<1>1. PICK q : q = [task[t] EXCEPT !.looked = TRUE, !.read = read, !.found = found]
  OBVIOUS
<1>2. task[t] \in TaskRecord
  BY DEF ReconnectInv
<1>3. q.flow = task[t].flow /\ q.alone = task[t].alone /\ q.todo = task[t].todo
  BY <1>1, <1>2 DEF TaskRecord
<1>4. task' = [task EXCEPT ![t] = q] /\ TablesKept /\ torn' = torn
  BY <1>1 DEF Look, TablesKept
<1>5. q.flow # "none" => q.todo \in Left[q.flow]
  BY <1>3 DEF ConnectionInv
<1>6. q.flow \in Connecting /\ q.alone => AloneDone(q.flow, q.todo)'
  <2> SUFFICES ASSUME q.flow \in Connecting, q.alone PROVE AloneDone(q.flow, q.todo)'
    OBVIOUS
  <2>1. AloneDone(q.flow, q.todo)
    BY <1>3 DEF ConnectionInv, Connections
  <2> QED  BY <1>4, <2>1 DEF AloneDone, Whole, TablesKept
<1>7. (q.flow \in Connecting /\ q.todo # Program[q.flow]) \/ (task[t].flow \in Connecting => Unbegun(t))
  BY <1>3 DEF Unbegun
<1> QED  BY <1>3, <1>4, <1>5, <1>6, <1>7, MoveConnection

LEMMA BreakConnection ==
  ASSUME ReconnectInv, ConnectionInv, NEW t \in Task, TablesKept \/ task[t].flow \in Connecting, Break(t)
  PROVE  ConnectionInv'
<1>1. NoTask.flow = "none" /\ "none" \notin Connecting
  BY DEF NoTask, Connecting
<1>2. torn' <=> torn \/ task[t].flow \in Connecting
  BY DEF Break
<1>3. task[t].flow \notin Connecting => TablesKept /\ (torn' <=> torn)
  BY <1>2
<1>4. torn' \/ (TablesKept /\ (task[t].flow \in Connecting => Unbegun(t)))
  BY <1>2, <1>3
<1>5. task' = [task EXCEPT ![t] = NoTask]
  BY DEF Break
<1> QED  BY <1>1, <1>3, <1>4, <1>5, MoveConnection

LEMMA StartConnection ==
  ASSUME ReconnectInv, ConnectionInv, NEW t \in Task, NEW f \in DOMAIN Program, StartTask(t, f)
  PROVE  ConnectionInv'
<1>1. PICK q : q = [NoTask EXCEPT !.flow = f, !.todo = Program[f], !.alone = f \notin Connecting \/ Connections = {}]
  OBVIOUS
<1>2. /\ q.flow = f /\ q.todo = Program[f] /\ f # "none" /\ Program[f] \in Left[f]
      /\ q.alone = (f \notin Connecting \/ Connections = {})
  <2>1. q.flow = f /\ q.todo = Program[f] /\ q.alone = (f \notin Connecting \/ Connections = {})
    BY <1>1 DEF NoTask
  <2> QED  BY <2>1 DEF Program, Left
<1>3. task[t].flow = "none" /\ TablesKept /\ torn' = torn
  BY DEF StartTask, Rest, TablesKept
<1>4. task' = [s \in Task |-> IF s = t THEN q
                 ELSE IF f \in Connecting /\ s \in Connections THEN [task[s] EXCEPT !.alone = FALSE]
                 ELSE task[s]]
  BY <1>1 DEF StartTask
<1>5. task'[t] = q
  BY <1>4
<1>6. ASSUME NEW s \in Task, s # t
      PROVE  /\ task'[s].flow = task[s].flow /\ task'[s].todo = task[s].todo
             /\ task'[s].alone => task[s].alone
             /\ f \in Connecting /\ s \in Connections => ~task'[s].alone
  <2>1. task[s] \in TaskRecord
    BY DEF ReconnectInv
  <2>2. CASE f \in Connecting /\ s \in Connections
    <3>1. task'[s] = [task[s] EXCEPT !.alone = FALSE]
      BY <1>4, <1>6, <2>2
    <3> QED  BY <2>1, <3>1 DEF TaskRecord
  <2>3. CASE ~(f \in Connecting /\ s \in Connections)
    <3>1. task'[s] = task[s]
      BY <1>4, <1>6, <2>3
    <3> QED  BY <2>1, <2>3, <3>1
  <2> QED  BY <2>2, <2>3
<1>7. Connections' = IF f \in Connecting THEN Connections \cup {t} ELSE Connections
  BY <1>2, <1>3, <1>5, <1>6 DEF Connections, Connecting
<1>8. \A s \in Task : task'[s].flow # "none" => task'[s].todo \in Left[task'[s].flow]
  BY <1>2, <1>5, <1>6 DEF ConnectionInv
<1>9. ASSUME NEW s \in Connections', task'[s].alone
      PROVE  Connections' = {s} /\ AloneDone(task[s].flow, task[s].todo)'
  <2>1. CASE s = t
    <3>1. f \in Connecting /\ Connections = {}
      BY <1>2, <1>3, <1>5, <1>7, <1>9, <2>1 DEF Connections, Connecting
    <3>2. AloneDone(f, Program[f])'
      BY <3>1 DEF AloneDone, Program, Connecting
    <3> QED  BY <1>2, <1>5, <1>7, <2>1, <3>1, <3>2
  <2>2. CASE s # t
    <3>1. s \in Connections /\ task[s].alone /\ f \notin Connecting
      BY <1>6, <1>7, <1>9, <2>2 DEF Connections
    <3>2. Connections = {s} /\ AloneDone(task[s].flow, task[s].todo)
      BY <3>1 DEF ConnectionInv
    <3> QED  BY <1>3, <1>6, <1>7, <2>2, <3>1, <3>2 DEF AloneDone, Whole, TablesKept, Connections
  <2> QED  BY <2>1, <2>2
<1>10. ASSUME ~torn', \A s \in Connections' : Unbegun(s)'
       PROVE  Whole'
  <2>1. \A s \in Connections : Unbegun(s)
    BY <1>3, <1>6, <1>7, <1>10 DEF Connections, Unbegun, Connecting
  <2>2. Whole
    BY <1>3, <1>10, <2>1 DEF ConnectionInv
  <2> QED  BY <1>3, <2>2 DEF Whole, TablesKept
<1> QED  BY <1>8, <1>9, <1>10 DEF ConnectionInv

LEMMA WriteMetaConnection ==
  ASSUME ReconnectInv, ConnectionInv, NEW t \in Task, NEW e \in DOMAIN Puts, WriteMeta(t, e)
  PROVE  ConnectionInv'
<1>1. PICK flow, todo : flow = task[t].flow /\ todo = task[t].todo
  OBVIOUS
<1>2. /\ ~Rest(t) /\ Advance(t) /\ link' = link /\ repo' = repo /\ Head(todo) = e
      /\ wanted' = Field \cap ((wanted \cup Puts[e]) \ Takes[e])
  BY <1>1 DEF WriteMeta, Doing
<1>3. task[t] \in TaskRecord /\ flow \in DOMAIN Program /\ todo \in Left[flow]
  BY <1>1, <1>2 DEF ReconnectInv, ConnectionInv, Rest, TaskRecord
<1>4. flow \in Connecting /\ task[t].alone => AloneDone(flow, todo)
  BY <1>1, <1>3 DEF ConnectionInv, Connections
<1>5. /\ e = "storeToken" => "token" \in wanted'
      /\ e = "clearToken" => "token" \notin wanted'
      /\ e \notin {"storeToken", "clearToken"} => ("token" \in wanted' <=> "token" \in wanted)
  BY <1>2, LinkConstants DEF Puts, Takes, LinkConstants
<1>6. (torn => torn') \/ flow \in Connecting
  BY <1>1, <1>2 DEF Advance
<1>7. flow \notin Connecting => TablesKept
  <2>1. flow \notin Connecting => Head(todo) \notin {"storeToken", "clearToken"}
    BY <1>3, HeadsAndTails DEF Connecting
  <2> QED  BY <1>2, <1>5, <1>6, <2>1 DEF TablesKept
<1>8. e \in {"storeToken", "unskip", "clearToken", "unpick", "pick", "skip", "saveSettings", "storeKey"}
  BY DEF Puts
<1>9. ASSUME flow \in Connecting, task[t].alone, Len(todo) # 1
      PROVE  AloneDone(flow, Tail(todo))'
  <2>1. CASE e = "storeToken"
    <3>1. flow = "connect" /\ Tail(todo) = <<"unskip", "link", "sync">>
      BY <1>2, <1>3, <2>1, HeadsAndTails
    <3> QED  BY <1>5, <2>1, <3>1 DEF AloneDone
  <2>2. CASE e = "unskip"
    <3>1. flow = "connect" /\ Tail(todo) = <<"link", "sync">> /\ todo # Program.connect
      BY <1>2, <1>3, <2>2, HeadsAndTails
    <3> QED  BY <1>4, <1>5, <1>9, <2>2, <3>1 DEF AloneDone
  <2>3. CASE e = "clearToken"
    <3>1. flow = "disconnect" /\ todo = <<"clearToken", "unpick">> /\ Tail(todo) = <<"unpick">>
      BY <1>2, <1>3, <2>3, HeadsAndTails
    <3>2. link # "active" /\ ~repo
      BY <1>4, <1>9, <3>1 DEF AloneDone, Program
    <3> QED  BY <1>2, <1>5, <2>3, <3>1, <3>2 DEF AloneDone
  <2>4. CASE e \in {"unpick", "pick", "skip", "saveSettings", "storeKey"}
    BY <1>2, <1>3, <1>9, <2>4, HeadsAndTails
  <2> QED  BY <1>8, <2>1, <2>2, <2>3, <2>4
<1>10. ASSUME flow \in Connecting, task[t].alone, Len(todo) = 1
       PROVE  torn' \/ Whole'
  <2>1. e = "unpick" /\ flow = "disconnect" /\ todo = <<"unpick">>
    <3>1. e \notin {"storeToken", "unskip", "clearToken", "pick", "skip", "saveSettings", "storeKey"}
      BY <1>2, <1>3, <1>10, HeadsAndTails
    <3>2. e = "unpick"
      BY <1>8, <3>1
    <3> QED  BY <1>2, <1>3, <1>10, <3>2, HeadsAndTails DEF Connecting
  <2>2. link # "active" /\ ~repo /\ "token" \notin wanted
    BY <1>4, <1>10, <2>1 DEF AloneDone, Program
  <2> QED  BY <1>2, <1>5, <2>1, <2>2 DEF Whole
<1> QED  BY <1>1, <1>2, <1>7, <1>9, <1>10, AdvanceConnection

LEMMA NeedTokenConnection ==
  ASSUME ReconnectInv, FieldsInv, ConnectionInv, NEW t \in Task, LookForToken(t)
  PROVE  ConnectionInv'
<1>1. PICK p : p = task[t]
  OBVIOUS
<1>2. p \in TaskRecord /\ p.flow \in DOMAIN Program /\ p.todo \in Left[p.flow] /\ Head(p.todo) = "needToken"
  BY <1>1 DEF LookForToken, Doing, Rest, ReconnectInv, ConnectionInv, TaskRecord
<1>3. p.flow = "refresh" /\ p.todo = Program.refresh /\ Tail(p.todo) = <<"sync">> /\ p.flow \in Connecting
  BY <1>2, HeadsAndTails DEF Connecting
<1>4. TablesKept /\ (torn' <=> torn \/ "token" \in unsound) /\ Unbegun(t) /\ t \in Connections
  BY <1>1, <1>3 DEF LookForToken, TablesKept, Unbegun, Connections
<1>5. CASE "token" \notin meta
  <2>1. task' = [task EXCEPT ![t] = NoTask] /\ NoTask.flow = "none" /\ "none" \notin Connecting
    BY <1>5 DEF LookForToken, NoTask, Connecting
  <2> QED  BY <1>1, <1>3, <1>4, <2>1, MoveConnection
<1>6. CASE "token" \in meta
  <2>1. PICK q : q = [p EXCEPT !.todo = Tail(p.todo)]
    OBVIOUS
  <2>2. task' = [task EXCEPT ![t] = q]
    BY <1>1, <1>6, <2>1 DEF LookForToken
  <2>3. q.flow = p.flow /\ q.alone = p.alone /\ q.todo = <<"sync">>
    BY <1>2, <1>3, <2>1 DEF TaskRecord
  <2>4. <<"sync">> \in Left.refresh /\ <<"sync">> # Program.refresh
    BY DEF Left, Program
  <2>5. ASSUME q.alone
        PROVE  AloneDone(q.flow, q.todo)'
    <3>1. ASSUME ~torn' PROVE Whole /\ link = "active"
      <4>1. Connections = {t} /\ ~torn /\ "token" \notin unsound
        BY <1>1, <1>4, <2>3, <2>5, <3>1 DEF ConnectionInv
      <4>2. Whole
        BY <1>4, <4>1 DEF ConnectionInv
      <4>3. "token" \in wanted
        BY <1>6, <4>1 DEF FieldsInv, NothingLost
      <4> QED  BY <4>2, <4>3 DEF Whole
    <3> QED  BY <1>3, <1>4, <2>3, <3>1 DEF AloneDone, Whole, TablesKept
  <2> QED  BY <1>1, <1>3, <2>2, <2>3, <2>4, <2>5, MoveConnection
<1> QED  BY <1>5, <1>6

LEMMA ConnectionKeeps ==
  ASSUME ReconnectInv, RepoOK, FieldsInv, ConnectionInv, NEW t \in Task, Do(t)
  PROVE  ConnectionInv'
<1>1. PICK flow, todo : flow = task[t].flow /\ todo = task[t].todo
  OBVIOUS
<1>2. flow # "none" => flow \in DOMAIN Program /\ todo \in Left[flow]
  BY <1>1 DEF ReconnectInv, ConnectionInv, TaskRecord
<1>3. flow \in Connecting /\ task[t].alone => AloneDone(flow, todo)
  BY <1>1 DEF ConnectionInv, Connections
<1>4. ASSUME NEW f \in DOMAIN Program, StartTask(t, f) PROVE ConnectionInv'
  BY <1>4, StartConnection
<1>5. ASSUME NEW e \in DOMAIN Puts, Doing(t, e), Look(t, meta, FALSE) PROVE ConnectionInv'
  BY <1>5, LookConnection DEF Doing
<1>6. ASSUME NEW e \in DOMAIN Puts, WriteMeta(t, e) PROVE ConnectionInv'
  BY <1>6, WriteMetaConnection
<1>7. CASE LookForKey(t)
  <2>1. flow # "none" /\ Head(todo) = "lackKey"
    BY <1>1, <1>7 DEF LookForKey, Doing, Rest
  <2>2. flow \notin Connecting /\ ~Rest(t)
    BY <1>1, <1>2, <2>1, HeadsAndTails DEF Rest
  <2>3. (Advance(t) \/ Break(t)) /\ link' = link /\ repo' = repo /\ wanted' = wanted
    BY <1>7 DEF LookForKey
  <2>4. TablesKept
    BY <1>1, <2>2, <2>3 DEF TablesKept, Advance, Break
  <2> QED  BY <1>1, <2>2, <2>3, <2>4, AdvanceConnection, BreakConnection
<1>8. CASE LookForToken(t)
  BY <1>8, NeedTokenConnection
<1>9. CASE FindLink(t)
  BY <1>9, LookConnection DEF FindLink, Doing
<1>10. CASE Link(t)
  <2>1. flow = "connect" /\ todo # Program.connect /\ Tail(todo) = <<"sync">> /\ Len(todo) # 1 /\ ~Rest(t)
    BY <1>1, <1>2, <1>10, HeadsAndTails DEF Link, Doing, Rest
  <2>2. CASE Break(t)
    BY <1>1, <2>1, <2>2, BreakConnection DEF Connecting
  <2>3. CASE link' = "active" /\ Advance(t)
    <3>1. task[t].alone => AloneDone(flow, Tail(todo))'
      BY <1>3, <1>10, <2>1, <2>3 DEF AloneDone, Connecting, Link
    <3> QED  BY <1>1, <2>1, <2>3, <3>1, AdvanceConnection DEF Connecting
  <2> QED  BY <1>10, <2>2, <2>3 DEF Link
<1>11. CASE FindRepo(t)
  BY <1>11, LookConnection DEF FindRepo, Doing
<1>12. CASE SyncRepo(t)
  <2>1. flow \in {"connect", "refresh"} /\ todo = <<"sync">> /\ Len(todo) = 1 /\ ~Rest(t)
    BY <1>1, <1>2, <1>12, HeadsAndTails DEF SyncRepo, Doing, Rest
  <2>2. CASE Break(t)
    BY <1>1, <2>1, <2>2, BreakConnection DEF Connecting
  <2>3. CASE Advance(t)
    <3>1. ASSUME task[t].alone, ~torn' PROVE Whole'
      <4>1. CASE flow = "connect"
        BY <1>3, <1>12, <2>1, <3>1, <4>1 DEF AloneDone, Connecting, SyncRepo, Whole, Program
      <4>2. CASE flow = "refresh"
        <5>1. ~torn
          BY <1>1, <2>1, <2>3, <3>1, <4>2 DEF Advance, Connecting
        <5> QED  BY <1>3, <1>12, <2>1, <3>1, <4>2, <5>1 DEF AloneDone, Connecting, SyncRepo, Whole
      <4> QED  BY <2>1, <4>1, <4>2
    <3> QED  BY <1>1, <2>1, <2>3, <3>1, AdvanceConnection DEF Connecting
  <2> QED  BY <1>12, <2>2, <2>3 DEF SyncRepo
<1>13. CASE Unlink(t)
  <2>1. flow = "disconnect" /\ Tail(todo) = <<"removeRepos", "clearToken", "unpick">> /\ Len(todo) # 1 /\ ~Rest(t)
    BY <1>1, <1>2, <1>13, HeadsAndTails DEF Unlink, Doing, Rest
  <2>2. Advance(t) /\ AloneDone(flow, Tail(todo))'
    BY <1>13, <2>1 DEF AloneDone, Unlink
  <2> QED  BY <1>1, <2>1, <2>2, AdvanceConnection DEF Connecting
<1>14. CASE RemoveRepos(t)
  <2>1. flow = "disconnect" /\ Tail(todo) = <<"clearToken", "unpick">> /\ Len(todo) # 1 /\ ~Rest(t)
        /\ todo # Program.disconnect
    BY <1>1, <1>2, <1>14, HeadsAndTails DEF RemoveRepos, Doing, Rest
  <2>2. Advance(t) /\ (task[t].alone => AloneDone(flow, Tail(todo))')
    BY <1>3, <1>14, <2>1 DEF AloneDone, RemoveRepos, Connecting
  <2> QED  BY <1>1, <2>1, <2>2, AdvanceConnection DEF Connecting
<1>15. CASE BreakOff(t)
  <2>1. Break(t) /\ (TablesKept \/ task[t].flow \in Connecting)
    BY <1>15 DEF BreakOff, Break, TablesKept
  <2> QED  BY <2>1, BreakConnection
<1> QED  BY <1>4, <1>5, <1>6, <1>7, <1>8, <1>9, <1>10, <1>11, <1>12, <1>13, <1>14, <1>15 DEF Do, ReadMeta

LEMMA LinkTypeKeeps ==
  ASSUME LinkTypeOK, ReconnectInv, FieldsInv, ReconnectInv', FieldsInv', NEW t \in Task, Do(t)
  PROVE  LinkTypeOK'
<1>1. unsound' \subseteq Field
  BY DEF LinkTypeOK, Do, StartTask, ReadMeta, Look, WriteMeta, LookForKey, LookForToken,
         FindLink, Link, FindRepo, SyncRepo, Unlink, RemoveRepos, BreakOff, FieldsInv, Apart
<1>2. link' \in {"none", "active", "disconnected"} /\ repo' \in BOOLEAN
  BY DEF LinkTypeOK, Do, StartTask, ReadMeta, Look, WriteMeta, LookForKey, LookForToken,
         FindLink, Link, FindRepo, SyncRepo, Unlink, RemoveRepos, BreakOff
<1>3. torn' \in BOOLEAN
  BY DEF LinkTypeOK, Do, StartTask, ReadMeta, Look, WriteMeta, LookForKey, LookForToken,
         FindLink, Link, FindRepo, SyncRepo, Unlink, RemoveRepos, BreakOff, Advance, Break
<1>4. ASSUME NEW s \in Task, task'[s].flow = "none"
      PROVE  task'[s] = NoTask
  <2>1. task[t] \in TaskRecord /\ (task[s].flow = "none" => task[s] = NoTask)
    BY DEF ReconnectInv, LinkTypeOK
  <2>2. ASSUME NEW f \in DOMAIN Program, StartTask(t, f) PROVE task'[s] = NoTask
    <3>1. PICK q : q = [NoTask EXCEPT !.flow = f, !.todo = Program[f], !.alone = f \notin Connecting \/ Connections = {}]
      OBVIOUS
    <3>2. q.flow # "none"
      BY <3>1, Programs DEF NoTask
    <3>3. task' = [u \in Task |-> IF u = t THEN q
                     ELSE IF f \in Connecting /\ u \in Connections THEN [task[u] EXCEPT !.alone = FALSE]
                     ELSE task[u]]
      BY <2>2, <3>1 DEF StartTask
    <3>4. s # t
      BY <1>4, <3>2, <3>3
    <3>5. CASE f \in Connecting /\ s \in Connections
      <4>1. task'[s] = [task[s] EXCEPT !.alone = FALSE] /\ task[s] \in TaskRecord
        BY <3>3, <3>4, <3>5 DEF ReconnectInv
      <4> QED  BY <1>4, <3>5, <4>1 DEF TaskRecord, Connections, Connecting
    <3>6. CASE ~(f \in Connecting /\ s \in Connections)
      <4>1. task'[s] = task[s]
        BY <3>3, <3>4, <3>6
      <4> QED  BY <1>4, <2>1, <4>1
    <3> QED  BY <3>5, <3>6
  <2>3. ASSUME NEW q, task' = [task EXCEPT ![t] = q], q = NoTask \/ q.flow # "none" PROVE task'[s] = NoTask
    BY <1>4, <2>1, <2>3 DEF LinkTypeOK
  <2>4. CASE Break(t)
    BY <2>3, <2>4 DEF Break
  <2>5. CASE ~Rest(t) /\ Advance(t)
    <3>1. PICK q : q = [task[t] EXCEPT !.todo = Tail(@), !.looked = FALSE, !.read = {}, !.found = FALSE]
      OBVIOUS
    <3>2. q.flow # "none" /\ (task' = [task EXCEPT ![t] = q] \/ task' = [task EXCEPT ![t] = NoTask])
      <4>1. q.flow = task[t].flow
        BY <2>1, <3>1 DEF TaskRecord
      <4> QED  BY <2>5, <3>1, <4>1 DEF Advance, Rest
    <3> QED  BY <2>3, <3>2
  <2>6. ASSUME NEW read, NEW found, ~Rest(t), Look(t, read, found) PROVE task'[s] = NoTask
    <3>1. PICK q : q = [task[t] EXCEPT !.looked = TRUE, !.read = read, !.found = found]
      OBVIOUS
    <3>2. q.flow # "none"
      BY <2>1, <2>6, <3>1 DEF TaskRecord, Rest
    <3>3. task' = [task EXCEPT ![t] = q]
      BY <2>6, <3>1 DEF Look
    <3> QED  BY <2>3, <3>2, <3>3
  <2>7. CASE LookForToken(t)
    <3>1. PICK q : q = [task[t] EXCEPT !.todo = Tail(task[t].todo)]
      OBVIOUS
    <3>2. q.flow # "none"
      BY <2>1, <2>7, <3>1 DEF TaskRecord, Rest, LookForToken, Doing
    <3>3. task' = [task EXCEPT ![t] = q] \/ task' = [task EXCEPT ![t] = NoTask]
      BY <2>7, <3>1 DEF LookForToken
    <3> QED  BY <2>3, <3>2, <3>3
  <2>8. ASSUME NEW e \in DOMAIN Puts, WriteMeta(t, e) PROVE ~Rest(t) /\ Advance(t)
    BY <2>8 DEF WriteMeta, Doing
  <2>9. LookForKey(t) \/ Link(t) \/ SyncRepo(t) \/ Unlink(t) \/ RemoveRepos(t) \/ BreakOff(t) =>
          (~Rest(t) /\ Advance(t)) \/ Break(t)
    BY DEF LookForKey, Link, SyncRepo, Unlink, RemoveRepos, BreakOff, Doing
  <2>10. FindLink(t) \/ FindRepo(t) \/ ReadMeta(t) => ~Rest(t) /\ \E read, found : Look(t, read, found)
    <3>1. FindLink(t) => ~Rest(t) /\ Look(t, {}, link = "active")
      BY DEF FindLink, Doing
    <3>2. FindRepo(t) => ~Rest(t) /\ Look(t, {}, repo)
      BY DEF FindRepo, Doing
    <3>3. ReadMeta(t) => ~Rest(t) /\ Look(t, meta, FALSE)
      BY DEF ReadMeta, Doing
    <3> QED  BY <3>1, <3>2, <3>3
  <2> QED  BY <2>2, <2>4, <2>5, <2>6, <2>7, <2>8, <2>9, <2>10 DEF Do
<1>5. \A s \in Task :
        /\ task'[s].flow \in DOMAIN Program \cup {"none"}
        /\ task'[s].read \subseteq Field
        /\ {task'[s].looked, task'[s].found, task'[s].alone} \subseteq BOOLEAN
  BY DEF ReconnectInv, TaskRecord
<1>6. DOMAIN task' = Task
  BY DEF ReconnectInv
<1> QED  BY <1>1, <1>2, <1>3, <1>4, <1>5, <1>6 DEF LinkTypeOK, FieldsInv

LinkInv == LinkTypeOK /\ ReconnectInv /\ FieldsInv /\ ConnectionInv

LEMMA LinkInitially == LinkInit => LinkInv /\ RepoOK
<1> SUFFICES ASSUME LinkInit PROVE LinkInv /\ RepoOK
  OBVIOUS
<1>1. /\ NoTask \in TaskRecord /\ NoTask.flow = "none" /\ StepsOK(NoTask.flow, NoTask.todo)
      /\ ~NoTask.found /\ {NoTask.looked, NoTask.found, NoTask.alone} \subseteq BOOLEAN /\ NoTask.read = {}
  BY DEF NoTask, TaskRecord, StepsOK
<1>2. task = [t \in Task |-> NoTask] /\ "none" \notin Connecting
  BY DEF LinkInit, Connecting
<1>3. Connections = {}
  BY <1>1, <1>2 DEF Connections
<1>4. ReconnectInv
  BY <1>1, <1>2 DEF ReconnectInv, LinkInit
<1>5. ConnectionInv
  BY <1>1, <1>2, <1>3 DEF ConnectionInv, LinkInit, Whole
<1>6. LinkTypeOK
  BY <1>1, <1>2 DEF LinkTypeOK, LinkInit
<1> QED  BY <1>4, <1>5, <1>6 DEF LinkInv, LinkInit, FieldsInv, NothingLost, RepoOK

LEMMA LinkKeeps == LinkInv /\ [LinkNext]_linkVars => LinkInv'
<1> SUFFICES ASSUME LinkInv, [LinkNext]_linkVars PROVE LinkInv'
  OBVIOUS
<1>1. CASE UNCHANGED linkVars
  BY <1>1 DEF LinkInv, linkVars, LinkTypeOK, ReconnectInv, FieldsInv, NothingLost, ConnectionInv,
              Connections, AloneDone, Unbegun, Whole
<1>2. ASSUME NEW t \in Task, Do(t) PROVE LinkInv'
  <2>1. RepoOK
    BY DEF LinkInv, LinkTypeOK, RepoOK
  <2>2. ReconnectInv'
    BY <1>2, <2>1, DoKeeps DEF LinkInv
  <2>3. FieldsInv'
    BY <1>2, FieldsKeep DEF LinkInv, LinkNext
  <2> QED  BY <1>2, <2>1, <2>2, <2>3, LinkTypeKeeps, ConnectionKeeps DEF LinkInv
<1> QED  BY <1>1, <1>2 DEF LinkNext

\* The document, the connection's tables and the requests at work keep their types.
THEOREM LinkTypeCorrect == LinkSpec => []LinkTypeOK
<1> QED  BY LinkInitially, LinkKeeps, PTL DEF LinkSpec, LinkInv

\* Once no request works on the connection, it is there with its token or not at all, unless
\* the last one overlapped another, ended half-way or used a token left over.
THEOREM ConnectionCorrect == LinkSpec => []ConnectionIsWhole
<1>1. LinkInv => ConnectionIsWhole
  <2> SUFFICES ASSUME LinkInv, Connections = {}, ~torn, "token" \notin unsound
               PROVE  (link = "active" <=> "token" \in meta) /\ (repo => link = "active")
    BY DEF ConnectionIsWhole
  <2>1. Whole
    BY DEF LinkInv, ConnectionInv
  <2>2. "token" \in meta <=> "token" \in wanted
    BY LinkConstants DEF LinkInv, FieldsInv, NothingLost, LinkConstants
  <2> QED  BY <2>1, <2>2 DEF Whole
<1> QED  BY LinkInitially, LinkKeeps, <1>1, PTL DEF LinkSpec

-----------------------------------------------------------------------------
(* Quota: the slots that are past a check and have not used it up yet.      *)

Counting == {x \in Slot : exec[x].at \in {"monthly", "register"} \/ exec[x].row = "pending"}

Reporting ==
    {x \in Slot : exec[x].at \in {"register", "start"}
                 \/ (exec[x].at = "running" /\ exec[x].row # "none")}

\* What they may still use up is allowed for.
QuotaInv ==
    /\ QuotaTypeOK
    /\ \A x \in Slot : exec[x].row # "none" => exec[x].at \in {"start", "running"}
    /\ today + Cardinality(Counting) < DayLimit + Cardinality(Slot) + overdue
    /\ month + Cardinality(Reporting) * MaxReport
           < MonthLimit + Cardinality(Slot) * MaxReport + raised

LEMMA SlotSizes ==
  ASSUME NEW S \in SUBSET Slot
  PROVE  IsFiniteSet(S) /\ Cardinality(S) \in Nat /\ Cardinality(Slot) \in Nat
         /\ Cardinality(S) <= Cardinality(Slot)
  BY QuotaConstants, FS_Subset, FS_CardinalityType DEF QuotaConstants

LEMMA Smaller ==
  ASSUME NEW S \in SUBSET Slot, NEW T \in SUBSET S
  PROVE  Cardinality(T) \in Nat /\ Cardinality(S) \in Nat /\ Cardinality(T) <= Cardinality(S)
  BY QuotaConstants, FS_Subset, FS_CardinalityType DEF QuotaConstants

LEMMA OneLess ==
  ASSUME NEW S \in SUBSET Slot, NEW x \in S
  PROVE  Cardinality(S) \in Nat /\ Cardinality(S \ {x}) = Cardinality(S) - 1
  BY QuotaConstants, FS_Subset, FS_CardinalityType, FS_RemoveElement DEF QuotaConstants

LEMMA LessTimes ==
  ASSUME NEW n \in Nat, NEW k \in Nat, n <= k
  PROVE  /\ n * MaxReport \in Nat /\ k * MaxReport \in Nat /\ n * MaxReport <= k * MaxReport
         /\ n < k => n * MaxReport + MaxReport <= k * MaxReport
<1>1. MaxReport \in Nat
  BY QuotaConstants DEF QuotaConstants
<1>2. ASSUME NEW i \in Nat PROVE i * MaxReport \in Nat
  BY <1>1
<1>3. PICK d \in Nat : k = n + d
  <2>1. k - n \in Nat /\ k = n + (k - n)
    OBVIOUS
  <2> QED  BY <2>1
<1>4. k * MaxReport = n * MaxReport + d * MaxReport
  BY <1>1, <1>3
<1>5. n < k => d * MaxReport >= MaxReport
  <2>1. ASSUME n < k PROVE d * MaxReport = (d - 1) * MaxReport + MaxReport /\ d - 1 \in Nat
    BY <1>1, <1>3, <2>1
  <2> QED  BY <1>1, <1>2, <2>1
<1> QED  BY <1>1, <1>2, <1>4, <1>5

LEMMA WallSums ==
  ASSUME NEW S \in SUBSET Slot, NEW T \in SUBSET Slot, NEW m \in Nat, NEW n \in Nat,
         NEW r \in Nat, NEW q \in Nat,
         m + Cardinality(S) * MaxReport < MonthLimit + Cardinality(Slot) * MaxReport + r,
         \/ T \subseteq S /\ n <= m /\ q = r
         \/ n < MonthLimit
         \/ \E x \in S : T = S \ {x} /\ n <= m + MaxReport /\ q = r
         \/ T = S /\ n + r = m + q
  PROVE  n + Cardinality(T) * MaxReport < MonthLimit + Cardinality(Slot) * MaxReport + q
<1>0. MonthLimit \in Nat /\ MaxReport \in Nat
  BY QuotaConstants DEF QuotaConstants
<1>1. /\ Cardinality(S) \in Nat /\ Cardinality(T) \in Nat /\ Cardinality(Slot) \in Nat
      /\ Cardinality(T) <= Cardinality(Slot)
  BY SlotSizes
<1>2. PICK was \in Nat, now \in Nat, most \in Nat :
          /\ was = Cardinality(S) * MaxReport /\ now = Cardinality(T) * MaxReport
          /\ most = Cardinality(Slot) * MaxReport /\ now <= most
  BY <1>1, LessTimes
<1>3. m + was < MonthLimit + most + r /\ now <= most
  BY <1>2
<1>4. ASSUME T \subseteq S, n <= m, q = r
      PROVE  n + now < MonthLimit + most + q
  <2>1. Cardinality(T) <= Cardinality(S)
    BY <1>4, Smaller
  <2>2. now <= was
    BY <1>1, <1>2, <2>1, LessTimes
  <2> QED  BY <1>0, <1>3, <1>4, <2>2
<1>5. ASSUME n < MonthLimit
      PROVE  n + now < MonthLimit + most + q
  BY <1>0, <1>3, <1>5
<1>6. ASSUME NEW x \in S, T = S \ {x}, n <= m + MaxReport, q = r
      PROVE  n + now < MonthLimit + most + q
  <2>1. Cardinality(T) = Cardinality(S) - 1
    BY <1>6, OneLess
  <2>2. now + MaxReport <= was
    BY <1>1, <1>2, <2>1, LessTimes
  <2> QED  BY <1>0, <1>3, <1>6, <2>2
<1>7. ASSUME T = S, n + r = m + q
      PROVE  n + now < MonthLimit + most + q
  <2>1. now = was
    BY <1>2, <1>7
  <2> QED  BY <1>0, <1>3, <1>7, <2>1
<1>8. n + now < MonthLimit + most + q
  BY <1>4, <1>5, <1>6, <1>7
<1> QED  BY <1>2, <1>8

\* No row belongs to a slot that has not come to exec/start.
RowsPlaced == \A x \in Slot : exec[x].row # "none" => exec[x].at \in {"start", "running"}

\* A step that uses no more than it accounts for, and lets no slot past a check that
\* failed, keeps the sums.
DayKept ==
    \/ Counting' \subseteq Counting /\ today' <= today /\ overdue' = overdue
    \/ today' < DayLimit
    \/ /\ today' = today + 1 /\ overdue' = overdue
       /\ \E x \in Counting : Counting' = Counting \ {x}
    \/ Counting' = Counting /\ today' = today + 1 /\ overdue' = overdue + 1

WallKept ==
    \/ Reporting' \subseteq Reporting /\ month' <= month /\ raised' = raised
    \/ month' < MonthLimit
    \/ /\ month' <= month + MaxReport /\ raised' = raised
       /\ \E x \in Reporting : Reporting' = Reporting \ {x}
    \/ Reporting' = Reporting /\ month' + raised = month + raised'

LEMMA QuotaStep ==
  ASSUME QuotaInv, QuotaTypeOK', RowsPlaced', DayKept, WallKept
  PROVE  QuotaInv'
<1>0. /\ today \in Nat /\ month \in Nat /\ today' \in Nat /\ month' \in Nat
      /\ overdue \in Nat /\ overdue' \in Nat /\ raised \in Nat /\ raised' \in Nat
      /\ DayLimit \in Nat /\ MonthLimit \in Nat /\ MaxReport \in Nat
  BY QuotaConstants DEF QuotaInv, QuotaTypeOK, QuotaConstants
<1>1. /\ Counting \in SUBSET Slot /\ Reporting \in SUBSET Slot
      /\ Counting' \in SUBSET Slot /\ Reporting' \in SUBSET Slot
  BY DEF Counting, Reporting
<1>2. today' + Cardinality(Counting') < DayLimit + Cardinality(Slot) + overdue'
  <2>1. /\ Cardinality(Counting) \in Nat /\ Cardinality(Counting') \in Nat
        /\ Cardinality(Slot) \in Nat /\ Cardinality(Counting') <= Cardinality(Slot)
        /\ today + Cardinality(Counting) < DayLimit + Cardinality(Slot) + overdue
    BY <1>1, SlotSizes DEF QuotaInv
  <2>2. CASE Counting' \subseteq Counting /\ today' <= today /\ overdue' = overdue
    <3>1. Cardinality(Counting') <= Cardinality(Counting)
      BY <2>2, <1>1, Smaller
    <3> QED  BY <1>0, <2>1, <2>2, <3>1
  <2>3. CASE today' < DayLimit
    BY <1>0, <2>1, <2>3
  <2>4. CASE /\ today' = today + 1 /\ overdue' = overdue
             /\ \E x \in Counting : Counting' = Counting \ {x}
    <3>1. Cardinality(Counting') = Cardinality(Counting) - 1
      BY <2>4, <1>1, OneLess
    <3> QED  BY <1>0, <2>1, <2>4, <3>1
  <2>5. CASE Counting' = Counting /\ today' = today + 1 /\ overdue' = overdue + 1
    BY <1>0, <2>1, <2>5
  <2> QED  BY <2>2, <2>3, <2>4, <2>5 DEF DayKept
<1>3. month' + Cardinality(Reporting') * MaxReport
          < MonthLimit + Cardinality(Slot) * MaxReport + raised'
  <2>1. month + Cardinality(Reporting) * MaxReport
            < MonthLimit + Cardinality(Slot) * MaxReport + raised
    BY DEF QuotaInv
  <2>2. \/ Reporting' \subseteq Reporting /\ month' <= month /\ raised' = raised
        \/ month' < MonthLimit
        \/ \E x \in Reporting : /\ Reporting' = Reporting \ {x}
                                /\ month' <= month + MaxReport /\ raised' = raised
        \/ Reporting' = Reporting /\ month' + raised = month + raised'
    BY DEF WallKept
  <2> QED  BY <1>0, <1>1, <2>1, <2>2, WallSums
<1> QED  BY <1>2, <1>3 DEF QuotaInv, RowsPlaced

LEMMA QuotaInitially == QuotaInit => QuotaInv
<1> SUFFICES ASSUME QuotaInit PROVE QuotaInv
  OBVIOUS
<1>1. Counting = {} /\ Reporting = {}
  BY DEF QuotaInit, Idle, Counting, Reporting
<1>2. Cardinality({}) = 0
  BY FS_EmptySet
<1>3. Cardinality(Slot) \in Nat \ {0}
  BY QuotaConstants, FS_CardinalityType, FS_EmptySet DEF QuotaConstants
<1>4. PICK most \in Nat : most = Cardinality(Slot) * MaxReport
  BY <1>3, LessTimes
<1>5. month + Cardinality(Reporting) * MaxReport < MonthLimit + most + raised
  BY <1>1, <1>2, <1>4, QuotaConstants DEF QuotaInit, QuotaConstants
<1>6. today + Cardinality(Counting) < DayLimit + Cardinality(Slot) + overdue
  BY <1>1, <1>2, <1>3, QuotaConstants DEF QuotaInit, QuotaConstants
<1>7. QuotaTypeOK /\ RowsPlaced
  BY DEF QuotaInit, QuotaTypeOK, RowsPlaced, QuotaSteps, RowStates, Idle
<1> QED  BY <1>4, <1>5, <1>6, <1>7 DEF QuotaInv, RowsPlaced

\* A slot moves on or becomes free; the others stay where they are.
LEMMA Moved ==
  ASSUME QuotaTypeOK, NEW x \in Slot, NEW step \in QuotaSteps, Move(x, step)
  PROVE  /\ exec' \in [Slot -> [at : QuotaSteps, row : RowStates]] /\ adrift' = adrift
         /\ exec'[x].at = step /\ exec'[x].row = exec[x].row
         /\ \A y \in Slot \ {x} : exec'[y] = exec[y]
  BY DEF QuotaTypeOK, Move

LEMMA Freed ==
  ASSUME QuotaTypeOK, NEW x \in Slot, Free(x)
  PROVE  /\ exec' \in [Slot -> [at : QuotaSteps, row : RowStates]] /\ adrift' \in Nat
         /\ exec'[x] = Idle
         /\ \A y \in Slot \ {x} : exec'[y] = exec[y]
<1>1. adrift' = adrift \/ adrift' = adrift + 1
  BY DEF Free
<1>2. Idle \in [at : QuotaSteps, row : RowStates]
  BY DEF Idle, QuotaSteps, RowStates
<1> QED  BY <1>1, <1>2 DEF QuotaTypeOK, Free

LEMMA FreeingKeeps ==
  ASSUME QuotaInv, NEW x \in Slot, Free(x), UNCHANGED counts
  PROVE  QuotaInv'
<1>1. QuotaTypeOK /\ RowsPlaced
  BY DEF QuotaInv, RowsPlaced
<1>2. /\ today' = today /\ month' = month /\ overdue' = overdue /\ raised' = raised
      /\ stored' = stored
  BY DEF counts
<1>3. QuotaTypeOK' /\ today' <= today /\ month' <= month
  BY <1>1, <1>2, Freed DEF QuotaTypeOK
<1>4. Counting' \subseteq Counting /\ Reporting' \subseteq Reporting /\ RowsPlaced'
  BY <1>1, Freed DEF Counting, Reporting, RowsPlaced, Idle
<1>5. DayKept /\ WallKept
  BY <1>2, <1>3, <1>4 DEF DayKept, WallKept
<1> QED  BY <1>3, <1>4, <1>5, QuotaStep

\* A slot moves on without touching a count.
LEMMA MovingKeeps ==
  ASSUME QuotaInv, NEW x \in Slot, NEW step \in QuotaSteps, Move(x, step), UNCHANGED counts,
         exec[x].row # "none" => step \in {"start", "running"},
         \/ step \notin {"monthly", "register"} \/ exec[x].at \in {"monthly", "register"}
         \/ today < DayLimit,
         \/ step \notin {"register", "start", "running"} \/ exec[x].at \in {"register", "start"}
         \/ month < MonthLimit
  PROVE  QuotaInv'
<1>1. QuotaTypeOK /\ RowsPlaced
  BY DEF QuotaInv, RowsPlaced
<1>2. /\ today' = today /\ month' = month /\ overdue' = overdue /\ raised' = raised
      /\ stored' = stored
  BY DEF counts
<1>3. QuotaTypeOK' /\ today' <= today /\ month' <= month
  BY <1>1, <1>2, Moved DEF QuotaTypeOK
<1>4. RowsPlaced'
  BY <1>1, Moved DEF RowsPlaced
<1>5. Counting' \subseteq Counting \/ today < DayLimit
  BY <1>1, Moved DEF Counting
<1>6. Reporting' \subseteq Reporting \/ month < MonthLimit
  BY <1>1, Moved DEF Reporting
<1>7. DayKept /\ WallKept
  BY <1>2, <1>3, <1>5, <1>6 DEF DayKept, WallKept
<1> QED  BY <1>3, <1>4, <1>7, QuotaStep

LEMMA ServeKeeps ==
  ASSUME QuotaInv, NEW x \in Slot, Serve(x)
  PROVE  QuotaInv'
<1>0. /\ QuotaTypeOK /\ RowsPlaced
      /\ MaxReport \in Nat /\ DayLimit \in Nat /\ MonthLimit \in Nat
      /\ today \in Nat /\ month \in Nat /\ overdue \in Nat /\ raised \in Nat
      /\ {"idle", "daily", "monthly", "register", "start", "running"} = QuotaSteps
  BY QuotaConstants DEF QuotaInv, RowsPlaced, QuotaTypeOK, QuotaConstants, QuotaSteps
<1>f. ASSUME Free(x), UNCHANGED counts
      PROVE  QuotaInv'
  BY <1>f, FreeingKeeps
<1>1. ASSUME Ask(x)
      PROVE  QuotaInv'
  <2>1. /\ Move(x, "daily") /\ UNCHANGED counts /\ exec[x].row = "none"
        /\ "daily" \in QuotaSteps
    BY <1>0, <1>1 DEF Ask, On, RowsPlaced, QuotaSteps
  <2> QED  BY <2>1, MovingKeeps
<1>2. ASSUME CheckDaily(x)
      PROVE  QuotaInv'
  <2> SUFFICES ASSUME Move(x, "monthly"), ~(today >= DayLimit), exec[x].at = "daily",
                      UNCHANGED counts
               PROVE  QuotaInv'
    BY <1>2, <1>f DEF CheckDaily, On
  <2>1. today < DayLimit /\ exec[x].row = "none" /\ "monthly" \in QuotaSteps
    BY <1>0 DEF RowsPlaced, QuotaSteps
  <2> QED  BY <2>1, MovingKeeps
<1>3. ASSUME CheckMonthly(x)
      PROVE  QuotaInv'
  <2> SUFFICES ASSUME Move(x, "register"), ~(month >= MonthLimit), exec[x].at = "monthly",
                      UNCHANGED counts
               PROVE  QuotaInv'
    BY <1>3, <1>f DEF CheckMonthly, On
  <2>1. month < MonthLimit /\ exec[x].row = "none" /\ "register" \in QuotaSteps
    BY <1>0 DEF RowsPlaced, QuotaSteps
  <2> QED  BY <2>1, MovingKeeps
<1>4. ASSUME SetKey(x)
      PROVE  QuotaInv'
  <2> SUFFICES ASSUME exec' = [exec EXCEPT ![x] = [at |-> "start", row |-> "pending"]],
                      adrift' = adrift, exec[x].at = "register", UNCHANGED counts
               PROVE  QuotaInv'
    BY <1>4, <1>f DEF SetKey, On
  <2>1. /\ today' = today /\ month' = month /\ overdue' = overdue /\ raised' = raised
        /\ stored' = stored
    BY DEF counts
  <2>2. /\ exec' \in [Slot -> [at : QuotaSteps, row : RowStates]]
        /\ exec'[x].at = "start" /\ exec'[x].row = "pending"
        /\ \A y \in Slot \ {x} : exec'[y] = exec[y]
    <3>1. [at |-> "start", row |-> "pending"] \in [at : QuotaSteps, row : RowStates]
      BY DEF QuotaSteps, RowStates
    <3> QED  BY <1>0, <3>1 DEF QuotaTypeOK
  <2>3. QuotaTypeOK'
    BY <1>0, <2>1, <2>2 DEF QuotaTypeOK
  <2>4. Counting' \subseteq Counting /\ Reporting' \subseteq Reporting /\ RowsPlaced'
    BY <1>0, <2>2 DEF Counting, Reporting, RowsPlaced
  <2>5. DayKept /\ WallKept
    BY <1>0, <2>1, <2>4 DEF DayKept, WallKept
  <2> QED  BY <2>3, <2>4, <2>5, QuotaStep
<1>5. ASSUME CommitStart(x)
      PROVE  QuotaInv'
  <2>1. /\ exec[x].row = "pending" /\ exec[x].at \in {"start", "running"}
        /\ today' = today + 1 /\ month' = month /\ stored' = TRUE
        /\ adrift' = adrift /\ overdue' = overdue /\ raised' = raised
    BY <1>0, <1>5 DEF CommitStart, NewRow, RowsPlaced
  <2>2. /\ exec' \in [Slot -> [at : QuotaSteps, row : RowStates]]
        /\ exec'[x].at = exec[x].at /\ exec'[x].row = "there"
        /\ \A y \in Slot \ {x} : exec'[y] = exec[y]
    BY <1>0, <1>5 DEF CommitStart, QuotaTypeOK, RowStates
  <2>3. QuotaTypeOK'
    BY <1>0, <2>1, <2>2 DEF QuotaTypeOK
  <2>4. Reporting' \subseteq Reporting /\ RowsPlaced'
    BY <1>0, <2>1, <2>2 DEF Reporting, RowsPlaced
  <2>5. x \in Counting /\ Counting' = Counting \ {x}
    BY <2>1, <2>2 DEF Counting
  <2>6. DayKept /\ WallKept
    BY <1>0, <2>1, <2>4, <2>5 DEF DayKept, WallKept
  <2> QED  BY <2>3, <2>4, <2>6, QuotaStep
<1>6. ASSUME RunStarted(x)
      PROVE  QuotaInv'
  <2>1. /\ Move(x, "running") /\ UNCHANGED counts /\ exec[x].at = "start"
        /\ "running" \in QuotaSteps
    BY <1>0, <1>6 DEF RunStarted, On, QuotaSteps
  <2> QED  BY <2>1, MovingKeeps
<1>7. ASSUME NEW w \in 0..MaxReport, NEW before \in 0..raised, before <= month, ReportWall(x, w, before)
      PROVE  QuotaInv'
  <2>0. /\ Free(x) /\ exec[x].at = "running" /\ today' = today /\ stored' = stored
        /\ overdue' = overdue /\ raised' = raised
    BY <1>7 DEF ReportWall, On
  <2>1. month' \in Nat
    <3>1. month' = month + w - before \/ month' = month
      BY <1>7 DEF ReportWall
    <3> QED  BY <1>0, <1>7, <3>1
  <2>2. QuotaTypeOK'
    BY <1>0, <2>0, <2>1, Freed DEF QuotaTypeOK
  <2>3. Counting' \subseteq Counting /\ RowsPlaced'
    BY <1>0, <2>0, Freed DEF Counting, RowsPlaced, Idle
  <2>4. DayKept
    BY <1>0, <2>0, <2>3 DEF DayKept
  <2>5. CASE exec[x].row = "there"
    <3>1. x \in Reporting
      BY <2>0, <2>5 DEF Reporting
    <3>2. Reporting' = Reporting \ {x}
      BY <1>0, <2>0, Freed DEF Reporting, Idle
    <3>3. month' <= month + MaxReport
      BY <1>0, <1>7, <2>5 DEF ReportWall
    <3>4. WallKept
      BY <2>0, <3>1, <3>2, <3>3 DEF WallKept
    <3> QED  BY <2>2, <2>3, <2>4, <3>4, QuotaStep
  <2>6. CASE exec[x].row # "there"
    <3>1. Reporting' \subseteq Reporting
      BY <1>0, <2>0, Freed DEF Reporting, Idle
    <3>2. month' <= month
      BY <1>0, <1>7, <2>6 DEF ReportWall
    <3>3. WallKept
      BY <2>0, <3>1, <3>2 DEF WallKept
    <3> QED  BY <2>2, <2>3, <2>4, <3>3, QuotaStep
  <2> QED  BY <2>5, <2>6
<1>8. ASSUME Drop(x)
      PROVE  QuotaInv'
  BY <1>8, <1>f DEF Drop
<1> QED  BY <1>1, <1>2, <1>3, <1>4, <1>5, <1>6, <1>7, <1>8 DEF Serve

\* A slot's row may be forgotten, nothing else of it.
LEMMA Uncounted ==
  ASSUME QuotaTypeOK, RowsPlaced, NEW kept \in SUBSET Slot, Uncount(kept)
  PROVE  /\ exec' \in [Slot -> [at : QuotaSteps, row : RowStates]]
         /\ Counting' \subseteq Counting /\ Reporting' \subseteq Reporting /\ RowsPlaced'
<1>1. ASSUME NEW x \in Slot
      PROVE  /\ exec'[x] \in [at : QuotaSteps, row : RowStates]
             /\ exec'[x].at = exec[x].at
             /\ exec'[x].row = exec[x].row \/ (exec[x].row = "there" /\ exec'[x].row = "none")
  <2>1. exec[x] \in [at : QuotaSteps, row : RowStates] /\ "none" \in RowStates
    BY DEF QuotaTypeOK, RowStates
  <2>2. exec'[x] = [exec[x] EXCEPT !.row = IF @ = "there" /\ x \notin kept
                                           THEN "none" ELSE @]
    BY DEF Uncount
  <2> QED  BY <2>1, <2>2
<1>2. exec' \in [Slot -> [at : QuotaSteps, row : RowStates]]
  <2>1. exec' = [x \in Slot |-> exec'[x]]
    BY DEF Uncount
  <2> QED  BY <1>1, <2>1
<1>3. Counting' \subseteq Counting
  BY <1>1 DEF Counting
<1>4. Reporting' \subseteq Reporting
  BY <1>1 DEF Reporting
<1>5. RowsPlaced'
  BY <1>1 DEF RowsPlaced
<1> QED  BY <1>2, <1>3, <1>4, <1>5

LEMMA QuotaNextKeeps == QuotaInv /\ [QuotaNext]_quotaVars => QuotaInv'
<1> SUFFICES ASSUME QuotaInv, [QuotaNext]_quotaVars PROVE QuotaInv'
  OBVIOUS
<1>0. /\ QuotaTypeOK /\ RowsPlaced /\ DayLimit \in Nat \ {0} /\ MonthLimit \in Nat \ {0}
      /\ today \in Nat /\ month \in Nat /\ overdue \in Nat /\ raised \in Nat
      /\ adrift \in Nat /\ MaxRaise \in Nat
  BY QuotaConstants DEF QuotaInv, RowsPlaced, QuotaTypeOK, QuotaConstants
<1>1. ASSUME NEW x \in Slot, Serve(x) PROVE QuotaInv'
  BY <1>1, ServeKeeps
<1>2. CASE CommitLate
  <2>1. /\ today' = today + 1 /\ month' = month /\ stored' = TRUE /\ exec' = exec
        /\ adrift' \in Nat /\ overdue' = overdue + 1 /\ raised' = raised
    BY <1>0, <1>2 DEF CommitLate, NewRow
  <2>2. QuotaTypeOK'
    BY <1>0, <2>1 DEF QuotaTypeOK
  <2>3. Counting' = Counting /\ Reporting' = Reporting /\ RowsPlaced'
    BY <1>0, <2>1 DEF Counting, Reporting, RowsPlaced
  <2>4. DayKept /\ WallKept
    BY <1>0, <2>1, <2>3 DEF DayKept, WallKept
  <2> QED  BY <2>2, <2>3, <2>4, QuotaStep
<1>3. CASE OutsideReport
  <2>1. /\ today' = today /\ stored' = stored /\ exec' = exec /\ adrift' = adrift
        /\ overdue' = overdue
        /\ month' \in Nat /\ raised' \in Nat
        /\ \/ month' <= month /\ raised' = raised
           \/ month' + raised = month + raised'
    BY <1>0, <1>3 DEF OutsideReport
  <2>2. QuotaTypeOK'
    BY <1>0, <2>1 DEF QuotaTypeOK
  <2>3. Counting' = Counting /\ Reporting' = Reporting /\ RowsPlaced'
    BY <1>0, <2>1 DEF Counting, Reporting, RowsPlaced
  <2>4. DayKept /\ WallKept
    BY <1>0, <2>1, <2>3 DEF DayKept, WallKept
  <2> QED  BY <2>2, <2>3, <2>4, QuotaStep
<1>4. CASE DeleteExecutions
  <2>1. /\ month' \in 0..month /\ today' \in 0..today /\ stored' \in BOOLEAN
        /\ adrift' = adrift /\ overdue' = overdue /\ raised' = raised
    BY <1>4 DEF DeleteExecutions
  <2>2. PICK kept \in SUBSET Slot : Uncount(kept)
    BY <1>4 DEF DeleteExecutions
  <2>3. /\ exec' \in [Slot -> [at : QuotaSteps, row : RowStates]]
        /\ Counting' \subseteq Counting /\ Reporting' \subseteq Reporting /\ RowsPlaced'
    BY <1>0, <2>2, Uncounted
  <2>4. QuotaTypeOK'
    BY <1>0, <2>1, <2>3 DEF QuotaTypeOK
  <2>5. month' <= month /\ today' <= today
    BY <1>0, <2>1
  <2>6. DayKept /\ WallKept
    BY <2>1, <2>3, <2>5 DEF DayKept, WallKept
  <2> QED  BY <2>3, <2>4, <2>6, QuotaStep
<1>5. CASE Midnight
  <2>1. /\ today' = 0 /\ overdue' = 0 /\ month' = month /\ stored' = stored /\ exec' = exec
        /\ adrift' = adrift /\ raised' = raised
    BY <1>5 DEF Midnight
  <2>2. QuotaTypeOK'
    BY <1>0, <2>1 DEF QuotaTypeOK
  <2>3. Reporting' = Reporting /\ RowsPlaced'
    BY <1>0, <2>1 DEF Reporting, RowsPlaced
  <2>4. DayKept /\ WallKept
    BY <1>0, <2>1, <2>3 DEF DayKept, WallKept
  <2> QED  BY <2>2, <2>3, <2>4, QuotaStep
<1>6. CASE MonthEnds
  <2>1. /\ today' = 0 /\ overdue' = 0 /\ month' = 0 /\ raised' = 0 /\ stored' = FALSE
        /\ adrift' = adrift /\ Uncount({})
    BY <1>6 DEF MonthEnds
  <2>2. exec' \in [Slot -> [at : QuotaSteps, row : RowStates]] /\ RowsPlaced'
    BY <1>0, <2>1, Uncounted
  <2>3. QuotaTypeOK'
    BY <1>0, <2>1, <2>2 DEF QuotaTypeOK
  <2>4. DayKept /\ WallKept
    BY <1>0, <2>1 DEF DayKept, WallKept
  <2> QED  BY <2>2, <2>3, <2>4, QuotaStep
<1>7. CASE UNCHANGED quotaVars
  <2>1. /\ today' = today /\ month' = month /\ stored' = stored /\ exec' = exec
        /\ adrift' = adrift /\ overdue' = overdue /\ raised' = raised
    BY <1>7 DEF quotaVars
  <2>2. QuotaTypeOK'
    BY <1>0, <2>1 DEF QuotaTypeOK
  <2>3. Counting' = Counting /\ Reporting' = Reporting /\ RowsPlaced'
    BY <1>0, <2>1 DEF Counting, Reporting, RowsPlaced
  <2>4. DayKept /\ WallKept
    BY <1>0, <2>1, <2>3 DEF DayKept, WallKept
  <2> QED  BY <2>2, <2>3, <2>4, QuotaStep
<1> QED  BY <1>1, <1>2, <1>3, <1>4, <1>5, <1>6, <1>7 DEF QuotaNext

\* For any number of requests at work, the daily limit is exceeded by less than that many
\* executions and the rows that exec/start inserts too late ...
THEOREM DailyCorrect == QuotaSpec => []DailyOvershoot
<1>1. QuotaInv => DailyOvershoot
  <2> SUFFICES ASSUME QuotaInv PROVE DailyOvershoot
    OBVIOUS
  <2>1. Counting \in SUBSET Slot
    BY DEF Counting
  <2>2. Cardinality(Counting) \in Nat /\ Cardinality(Slot) \in Nat
    BY <2>1, SlotSizes
  <2>3. /\ today \in Nat /\ DayLimit \in Nat /\ overdue \in Nat
        /\ today + Cardinality(Counting) < DayLimit + Cardinality(Slot) + overdue
    BY QuotaConstants DEF QuotaInv, QuotaTypeOK, QuotaConstants
  <2> QED  BY <2>2, <2>3 DEF DailyOvershoot
<1> QED  BY QuotaInitially, QuotaNextKeeps, <1>1, PTL DEF QuotaSpec

\* ... and the monthly one by less than what that many of the longest runs report and the
\* wall time that tail events and late reports add.
THEOREM WallCorrect == QuotaSpec => []WallOvershoot
<1>1. QuotaInv => WallOvershoot
  <2> SUFFICES ASSUME QuotaInv PROVE WallOvershoot
    OBVIOUS
  <2>1. Reporting \in SUBSET Slot
    BY DEF Reporting
  <2>2. Cardinality(Reporting) \in Nat /\ Cardinality(Slot) \in Nat /\ Cardinality(Reporting) <= Cardinality(Slot)
    BY <2>1, SlotSizes
  <2>3. PICK used \in Nat, most \in Nat :
          used = Cardinality(Reporting) * MaxReport /\ most = Cardinality(Slot) * MaxReport
    BY <2>2, LessTimes
  <2>4. used \in Nat /\ most \in Nat /\ month \in Nat /\ MonthLimit \in Nat /\ raised \in Nat
    BY <2>3, QuotaConstants DEF QuotaInv, QuotaTypeOK, QuotaConstants
  <2>5. month + used < MonthLimit + most + raised
    BY <2>3 DEF QuotaInv
  <2>6. month < MonthLimit + most + raised
    BY <2>4, <2>5
  <2> QED  BY <2>3, <2>6 DEF WallOvershoot
<1> QED  BY QuotaInitially, QuotaNextKeeps, <1>1, PTL DEF QuotaSpec

-----------------------------------------------------------------------------
(* Marketplace: what a transaction without company relies on.               *)

\* A count is taken of what will be committed, and only by one that sees the profile.
TxnOK(t) ==
    LET q == txn[t]
    IN  /\ q.at # "idle" /\ q.alone => Open = {t}
        /\ q.at \in {"change", "recount", "update", "commit"} /\ q.add # {} => profile \in {"there", t}
        /\ q.at = "update" \/ lock = t => profile \in {"there", t}
        /\ lock = t => q.at = "commit"
        /\ q.at \in {"update", "commit"} /\ q.alone => q.count = Cardinality(Visible(t))
        /\ q.at = "commit" /\ q.alone => lock = t \/ profile \notin {"there", t}

Changes == [at : {"idle", "ensure", "change", "recount", "update", "commit"},
            add : SUBSET Entry, del : SUBSET Entry, count : 0..Cardinality(Entry), alone : BOOLEAN]

\* Before there is a profile there is nothing to count.
MarketInv ==
    /\ entries \subseteq Entry
    /\ txn \in [Txn -> Changes]
    /\ \A t \in Txn : TxnOK(t)
    /\ profile \in {"none", "there"} \cup Txn
    /\ profile # "there" => entries = {} /\ tally = 0
    /\ TallyIsCount

\* Another's transaction is where it was, and not alone.
LEMMA OthersKeep ==
  ASSUME MarketInv, NEW t \in Txn, NEW s \in Txn, s # t, txn[t].at # "idle",
         txn'[s] = txn[s], lock' = s <=> lock = s,
         profile \in {"there", s} => profile' \in {"there", s}
  PROVE  TxnOK(s)'
<1>1. TxnOK(s) /\ (txn[s].at # "idle" => ~txn[s].alone)
  BY DEF MarketInv, TxnOK, Open
<1>2. txn[s] \in Changes /\ txn[s].at \in {"update", "commit"} => txn[s].at # "idle"
  BY DEF MarketInv
<1> QED  BY <1>1, <1>2 DEF TxnOK

LEMMA BeginTxnKeeps ==
  ASSUME MarketInv, NEW t \in Txn, NEW add \in SUBSET Entry, NEW del \in SUBSET Entry,
         NEW first \in {"ensure", "change"}, first = "change" => add = {},
         BeginTxn(t, add, del, first)
  PROVE  MarketInv'
<1> USE DEF MarketInv
<1>0. 0 \in 0..Cardinality(Entry)
  BY MarketConstants, FS_CardinalityType DEF MarketConstants
<1>1. txn[t].at = "idle" /\ UNCHANGED <<entries, tally, profile, lock, drift>>
  <2>1. txn[t] = NoChange /\ UNCHANGED <<entries, tally, profile, lock, drift>>
    BY Zenon DEF BeginTxn
  <2> QED  BY <2>1 DEF NoChange
<1>2. txn'[t] = [at |-> first, add |-> add, del |-> del, count |-> 0, alone |-> (Open = {})]
  <2>1. txn'[t] = [NoChange EXCEPT !.at = first, !.add = add, !.del = del, !.alone = (Open = {})]
    BY DEF BeginTxn
  <2> QED  BY <2>1 DEF NoChange
<1>3. \A s \in Txn \ {t} :
        txn'[s] = IF txn[s].at # "idle" THEN [txn[s] EXCEPT !.alone = FALSE] ELSE txn[s]
  BY DEF BeginTxn, Open
<1>4. txn' \in [Txn -> Changes]
  <2>1. txn'[t] \in Changes
    BY <1>0, <1>2 DEF Changes
  <2>2. \A s \in Txn \ {t} : txn'[s] \in Changes
    BY <1>3 DEF Changes
  <2>3. txn' = [s \in Txn |-> txn'[s]]
    BY DEF BeginTxn
  <2> QED  BY <2>1, <2>2, <2>3
<1>5. ASSUME NEW s \in Txn
      PROVE  TxnOK(s)'
  <2>1. CASE s = t
    <3>1. ASSUME Open = {}
          PROVE  Open' = {t}
      <4>1. \A q \in Txn \ {t} : txn'[q].at = "idle"
        BY <1>3, <3>1 DEF Open
      <4>2. txn'[t].at # "idle"
        BY <1>2
      <4> QED  BY <4>1, <4>2 DEF Open
    <3>2. lock # t
      BY <1>1 DEF TxnOK
    <3>3. /\ txn'[t].at = first /\ txn'[t].add = add /\ txn'[t].alone = (Open = {})
          /\ first # "update" /\ first # "commit" /\ lock' = lock
      <4> DEFINE empty == Open = {}
      <4>1. txn'[t] = [at |-> first, add |-> add, del |-> del, count |-> 0, alone |-> empty]
        BY <1>2
      <4> HIDE DEF empty
      <4>2. txn'[t].at = first /\ txn'[t].add = add /\ txn'[t].alone = empty
        BY <4>1
      <4> USE DEF empty
      <4> QED  BY <1>1, <4>2
    <3>4. add # {} => first = "ensure"
      OBVIOUS
    <3> QED  BY <2>1, <3>1, <3>2, <3>3, <3>4 DEF TxnOK
  <2>2. CASE s # t /\ txn[s].at # "idle"
    <3>1. /\ txn'[s].at = txn[s].at /\ txn'[s].add = txn[s].add /\ txn'[s].alone = FALSE
      BY <2>2, <1>3 DEF Changes
    <3> QED  BY <3>1, <1>1 DEF TxnOK
  <2>3. CASE s # t /\ txn[s].at = "idle"
    <3>1. txn'[s] = txn[s]
      BY <2>3, <1>3
    <3> QED  BY <3>1, <2>3, <1>1 DEF TxnOK
  <2> QED  BY <2>1, <2>2, <2>3
<1> QED  BY <1>1, <1>4, <1>5 DEF TallyIsCount

\* A step of a transaction that leaves the rows and the count alone.
LEMMA StepKeeps ==
  ASSUME MarketInv, NEW t \in Txn, txn[t].at # "idle", txn' \in [Txn -> Changes],
         \A s \in Txn \ {t} : txn'[s] = txn[s] /\ (lock' = s <=> lock = s)
                              /\ (profile \in {"there", s} => profile' \in {"there", s}),
         UNCHANGED <<entries, tally, drift>>,
         TxnOK(t)', profile' \in {"none", "there"} \cup Txn, profile' # "there" => profile # "there"
  PROVE  MarketInv'
<1>1. \A s \in Txn : TxnOK(s)'
  BY OthersKeep
<1> QED  BY <1>1 DEF MarketInv, TallyIsCount

LEMMA Stepped ==
  ASSUME MarketInv, NEW t \in Txn, NEW from \in {"ensure", "change", "update"},
         NEW to \in {"change", "recount", "commit"}, Step(t, from, to)
  PROVE  /\ txn' \in [Txn -> Changes] /\ Open' = Open
         /\ txn[t].at = from /\ txn'[t] = [txn[t] EXCEPT !.at = to] /\ txn'[t].at = to
         /\ \A s \in Txn \ {t} : txn'[s] = txn[s]
<1>1. txn[t] \in Changes /\ txn[t].at = from /\ txn' = [txn EXCEPT ![t].at = to]
  BY DEF MarketInv, Step
<1>2. [txn[t] EXCEPT !.at = to] \in Changes
  BY <1>1 DEF Changes
<1>3. txn' = [txn EXCEPT ![t] = [txn[t] EXCEPT !.at = to]]
  BY <1>1
<1>4. txn' \in [Txn -> Changes] /\ txn'[t] = [txn[t] EXCEPT !.at = to]
      /\ \A s \in Txn \ {t} : txn'[s] = txn[s]
  BY <1>2, <1>3 DEF MarketInv
<1>5. txn'[t].at = to
  BY <1>1, <1>4 DEF Changes
<1> QED  BY <1>1, <1>4, <1>5 DEF Open

LEMMA EnsureProfileKeeps ==
  ASSUME MarketInv, NEW t \in Txn, EnsureProfile(t)
  PROVE  MarketInv'
<1>0. /\ profile \in {"none", "there"} /\ Step(t, "ensure", "change")
      /\ profile' = IF profile = "none" THEN t ELSE profile
      /\ UNCHANGED <<entries, tally, lock, drift>>
  BY DEF EnsureProfile
<1>1. /\ txn' \in [Txn -> Changes] /\ Open' = Open /\ txn[t].at = "ensure"
      /\ txn'[t].at = "change" /\ \A s \in Txn \ {t} : txn'[s] = txn[s]
      /\ txn'[t] = [txn[t] EXCEPT !.at = "change"]
  BY <1>0, Stepped
<1>2. txn[t] \in Changes /\ txn'[t].add = txn[t].add /\ txn'[t].alone = txn[t].alone
  BY <1>1 DEF MarketInv, Changes
<1>3. TxnOK(t) /\ profile' \in {"there", t}
  BY <1>0 DEF MarketInv
<1>4. lock # t
  BY <1>1, <1>3 DEF TxnOK
<1>5. TxnOK(t)'
  BY <1>0, <1>1, <1>2, <1>3, <1>4 DEF TxnOK
<1>6. \A s \in Txn \ {t} : profile \in {"there", s} => profile' \in {"there", s}
  BY <1>0, MarketConstants DEF MarketConstants
<1> QED  BY <1>0, <1>1, <1>3, <1>5, <1>6, StepKeeps, MarketConstants DEF MarketConstants

LEMMA ChangeEntryKeeps ==
  ASSUME MarketInv, NEW t \in Txn, ChangeEntry(t)
  PROVE  MarketInv'
<1>0. Step(t, "change", "recount") /\ UNCHANGED <<entries, tally, profile, lock, drift>>
  BY DEF ChangeEntry
<1>1. /\ txn' \in [Txn -> Changes] /\ Open' = Open /\ txn[t].at = "change"
      /\ txn'[t].at = "recount" /\ \A s \in Txn \ {t} : txn'[s] = txn[s]
      /\ txn'[t] = [txn[t] EXCEPT !.at = "recount"]
  BY <1>0, Stepped
<1>2. txn[t] \in Changes /\ txn'[t].add = txn[t].add /\ txn'[t].alone = txn[t].alone
  BY <1>1 DEF MarketInv, Changes
<1>3. TxnOK(t)
  BY DEF MarketInv
<1>5. TxnOK(t)'
  BY <1>0, <1>1, <1>2, <1>3 DEF TxnOK
<1> QED  BY <1>0, <1>1, <1>5, StepKeeps DEF MarketInv

LEMMA RecountKeeps ==
  ASSUME MarketInv, NEW t \in Txn, Recount(t)
  PROVE  MarketInv'
<1> DEFINE to == IF profile \in {"there", t} THEN "update" ELSE "commit"
           now == [txn[t] EXCEPT !.at = to, !.count = Cardinality(Visible(t))]
<1>0. /\ txn[t].at = "recount" /\ UNCHANGED <<entries, tally, profile, lock, drift>>
      /\ txn[t] \in Changes /\ entries \subseteq Entry /\ TxnOK(t)
  BY DEF Recount, MarketInv
<1>1. Cardinality(Visible(t)) \in 0..Cardinality(Entry)
  <2>1. Visible(t) \subseteq Entry
    BY <1>0 DEF Visible, Changes
  <2> QED  BY <2>1, MarketConstants, FS_Subset, FS_CardinalityType DEF MarketConstants
<1>2. now \in Changes
  BY <1>0, <1>1 DEF Changes
<1>3. txn' = [txn EXCEPT ![t] = now]
  BY DEF Recount
<1>4. /\ txn' \in [Txn -> Changes] /\ txn'[t] = now /\ \A s \in Txn \ {t} : txn'[s] = txn[s]
  BY <1>2, <1>3 DEF MarketInv
<1>5. /\ txn'[t].at = to /\ txn'[t].count = Cardinality(Visible(t)) /\ txn'[t].add = txn[t].add
      /\ txn'[t].del = txn[t].del /\ txn'[t].alone = txn[t].alone
  BY <1>0, <1>4 DEF Changes
<1>6. Visible(t)' = Visible(t)
  BY <1>0, <1>5 DEF Visible
<1>7. Open' = Open
  <2>1. txn'[t].at # "idle"
    BY <1>5
  <2> HIDE DEF now, to
  <2> QED  BY <1>0, <1>4, <2>1 DEF Open
<1>8. TxnOK(t)'
  <2>1. lock' # t /\ lock' = lock /\ profile' = profile
    BY <1>0 DEF TxnOK
  <2>2. txn'[t].alone => Open' = {t}
    BY <1>0, <1>5, <1>7 DEF TxnOK
  <2>3. txn'[t].add # {} => profile' \in {"there", t}
    BY <1>0, <1>5 DEF TxnOK
  <2>4. txn'[t].count = Cardinality(Visible(t)')
    BY <1>5, <1>6
  <2>5. /\ txn'[t].at = "update" => profile' \in {"there", t}
        /\ txn'[t].at = "commit" => profile' \notin {"there", t}
    BY <1>5, <2>1
  <2> QED  BY <2>1, <2>2, <2>3, <2>4, <2>5 DEF TxnOK
<1>9. profile' = profile
  BY <1>0
<1> QED  BY <1>0, <1>4, <1>8, <1>9, StepKeeps DEF MarketInv

LEMMA UpdateTallyKeeps ==
  ASSUME MarketInv, NEW t \in Txn, UpdateTally(t)
  PROVE  MarketInv'
<1>0. /\ Step(t, "update", "commit") /\ lock = NoTxn /\ lock' = t
      /\ UNCHANGED <<entries, tally, profile, drift>>
  BY DEF UpdateTally
<1>1. /\ txn' \in [Txn -> Changes] /\ Open' = Open /\ txn[t].at = "update"
      /\ txn'[t].at = "commit" /\ \A s \in Txn \ {t} : txn'[s] = txn[s]
      /\ txn'[t] = [txn[t] EXCEPT !.at = "commit"]
  BY <1>0, Stepped
<1>2. /\ txn[t] \in Changes /\ txn'[t].add = txn[t].add /\ txn'[t].alone = txn[t].alone
      /\ txn'[t].del = txn[t].del /\ txn'[t].count = txn[t].count
  BY <1>1 DEF MarketInv, Changes
<1>3. Visible(t)' = Visible(t) /\ TxnOK(t)
  BY <1>0, <1>2 DEF Visible, MarketInv
<1>4. \A s \in Txn \ {t} : lock' # s /\ lock # s
  BY <1>0, MarketConstants DEF MarketConstants
<1>5. TxnOK(t)'
  BY <1>0, <1>1, <1>2, <1>3 DEF TxnOK
<1> QED  BY <1>0, <1>1, <1>4, <1>5, StepKeeps DEF MarketInv

LEMMA CommitTxnKeeps ==
  ASSUME MarketInv, NEW t \in Txn, CommitTxn(t)
  PROVE  MarketInv'
<1>0. /\ txn[t].at = "commit" /\ entries' = Visible(t)
      /\ tally' = IF lock = t THEN txn[t].count ELSE tally
      /\ profile' = IF profile = t THEN "there" ELSE profile
      /\ lock' = IF lock = t THEN NoTxn ELSE lock
      /\ drift' = ~txn[t].alone
      /\ txn' = [txn EXCEPT ![t] = NoChange]
  BY DEF CommitTxn
<1>1. /\ TxnOK(t) /\ txn[t] \in Changes /\ t \notin {NoTxn, "none", "there"}
      /\ NoTxn \notin Txn /\ "none" \notin Txn /\ "there" \notin Txn
  BY MarketConstants DEF MarketInv, MarketConstants
<1>2. NoChange \in Changes /\ NoChange.at = "idle"
  BY MarketConstants, FS_CardinalityType DEF MarketConstants, Changes, NoChange
<1>3. /\ txn' \in [Txn -> Changes] /\ txn'[t].at = "idle" /\ \A s \in Txn \ {t} : txn'[s] = txn[s]
  BY <1>0, <1>2 DEF MarketInv
<1>4. ASSUME NEW s \in Txn
      PROVE  TxnOK(s)'
  <2>1. CASE s = t
    <3>1. txn'[s].at = "idle" /\ lock' # s
      BY <2>1, <1>0, <1>1, <1>3
    <3> QED  BY <3>1 DEF TxnOK
  <2>2. CASE s # t
    <3>1. lock' = s <=> lock = s
      BY <2>2, <1>0, <1>1
    <3>2. profile \in {"there", s} => profile' \in {"there", s}
      BY <2>2, <1>0, <1>1
    <3> QED  BY <2>2, <3>1, <3>2, <1>0, <1>3, OthersKeep
  <2> QED  BY <2>1, <2>2
<1>5. /\ entries' \subseteq Entry
      /\ profile' \in {"none", "there"} \cup Txn
  BY <1>0, <1>1 DEF MarketInv, Visible, Changes
<1>6. ASSUME profile' # "there"
      PROVE  entries' = {} /\ tally' = 0
  <2>1. profile \notin {"there", t} /\ entries = {} /\ tally = 0
    BY <1>0, <1>6 DEF MarketInv
  <2>2. lock # t /\ txn[t].add = {}
    BY <1>0, <1>1, <2>1 DEF TxnOK
  <2> QED  BY <1>0, <2>1, <2>2 DEF Visible
<1>7. ASSUME txn[t].alone
      PROVE  tally' = Cardinality(entries')
  <2>1. CASE lock = t
    BY <1>0, <1>1, <1>7, <2>1 DEF TxnOK
  <2>2. CASE lock # t
    <3>1. profile \notin {"there", t}
      BY <1>0, <1>1, <1>7, <2>2 DEF TxnOK
    <3>2. entries' = {} /\ tally' = 0
      BY <1>0, <1>6, <3>1
    <3> QED  BY <3>2, FS_EmptySet
  <2> QED  BY <2>1, <2>2
<1>8. TallyIsCount'
  BY <1>0, <1>1, <1>7 DEF TallyIsCount, Changes
<1> QED  BY <1>3, <1>4, <1>5, <1>6, <1>8 DEF MarketInv

LEMMA RollBackKeeps ==
  ASSUME MarketInv, NEW t \in Txn, RollBack(t)
  PROVE  MarketInv'
<1>0. /\ txn[t].at # "idle" /\ txn' = [txn EXCEPT ![t] = NoChange]
      /\ profile' = IF profile = t THEN "none" ELSE profile
      /\ lock' = IF lock = t THEN NoTxn ELSE lock
      /\ UNCHANGED <<entries, tally, drift>>
  BY DEF RollBack, Open
<1>1. /\ t \notin {NoTxn, "none", "there"}
      /\ NoTxn \notin Txn /\ "none" \notin Txn /\ "there" \notin Txn
  BY MarketConstants DEF MarketConstants
<1>2. NoChange \in Changes /\ NoChange.at = "idle"
  BY MarketConstants, FS_CardinalityType DEF MarketConstants, Changes, NoChange
<1>3. /\ txn' \in [Txn -> Changes] /\ txn'[t].at = "idle" /\ \A s \in Txn \ {t} : txn'[s] = txn[s]
  BY <1>0, <1>2 DEF MarketInv
<1>4. TxnOK(t)'
  <2>1. lock' # t
    BY <1>0, <1>1
  <2> QED  BY <2>1, <1>3 DEF TxnOK
<1>5. \A s \in Txn \ {t} : /\ lock' = s <=> lock = s
                           /\ profile \in {"there", s} => profile' \in {"there", s}
  BY <1>0, <1>1
<1>6. profile' \in {"none", "there"} \cup Txn /\ (profile' # "there" => profile # "there")
  BY <1>0, <1>1 DEF MarketInv
<1> QED  BY <1>0, <1>3, <1>4, <1>5, <1>6, StepKeeps

LEMMA MarketInitially == MarketInit => MarketInv
<1> SUFFICES ASSUME MarketInit PROVE MarketInv
  OBVIOUS
<1>1. NoChange \in Changes /\ NoChange.at = "idle"
  BY MarketConstants, FS_CardinalityType DEF MarketConstants, Changes, NoChange
<1>2. \A t \in Txn : lock # t /\ txn[t].at = "idle"
  BY <1>1, MarketConstants DEF MarketInit, MarketConstants
<1>3. \A t \in Txn : TxnOK(t)
  BY <1>2 DEF TxnOK
<1>4. TallyIsCount
  BY FS_EmptySet DEF MarketInit, TallyIsCount
<1> QED  BY <1>1, <1>3, <1>4 DEF MarketInit, MarketInv

LEMMA MarketKeeps == MarketInv /\ [MarketNext]_marketVars => MarketInv'
<1> SUFFICES ASSUME MarketInv, [MarketNext]_marketVars PROVE MarketInv'
  OBVIOUS
<1>1. CASE UNCHANGED marketVars
  BY <1>1 DEF marketVars, MarketInv, TxnOK, Open, Visible, TallyIsCount
<1>2. ASSUME NEW t \in Txn, NEW e \in Entry, BeginTxn(t, {e}, {}, "ensure") PROVE MarketInv'
  BY <1>2, BeginTxnKeeps
<1>3. ASSUME NEW t \in Txn, NEW e \in Entry, BeginTxn(t, {}, {e}, "ensure") PROVE MarketInv'
  BY <1>3, BeginTxnKeeps
<1>4. ASSUME NEW t \in Txn, NEW e \in Entry, BeginTxn(t, {}, {e}, "change") PROVE MarketInv'
  BY <1>4, BeginTxnKeeps
<1>5. CASE MarketNext
  BY <1>2, <1>3, <1>4, <1>5, EnsureProfileKeeps, ChangeEntryKeeps, RecountKeeps, UpdateTallyKeeps,
     CommitTxnKeeps, RollBackKeeps DEF MarketNext
<1> QED  BY <1>1, <1>5

\* A count of stars, comments or forks is wrong only after changes that overlapped: any
\* change that has the function for itself leaves it right, whatever was rolled back.
THEOREM TallyCorrect == MarketSpec => []TallyIsCount
<1> QED  BY MarketInitially, MarketKeeps, PTL DEF MarketSpec, MarketInv

-----------------------------------------------------------------------------
(* Cron: what an invocation has run, and what its next acknowledgement says. *)

WakeRecord == [at : {"idle", "matching", "loop", "ack", "done", "failed"},
               stamp : Minutes, matched : Minutes, due : SUBSET Cronjob,
               run : SUBSET Cronjob, ok : BOOLEAN, caught : BOOLEAN]

\* At "ack" there is one trigger under way: it was run, and how that went is on record.
Acking(w, t) ==
    LET k == <<t, wake[w].stamp>>
    IN  /\ wake[w].run = {t}
        /\ w \in fired[k]
        /\ wake[w].ok => k \in won
        /\ ~wake[w].ok => k \in missed

\* It has run the triggers that were due and are not any more, and none before it asked.
Progress(w) ==
    /\ wake[w].at \in {"idle", "matching"} => \A k \in DedupeKey : w \notin fired[k]
    /\ wake[w].at \in {"loop", "ack", "done"} =>
         \A t \in Cronjob, m \in Minutes :
            w \in fired[<<t, m>>] <=>
                m = wake[w].stamp /\ wake[w].matched \in Schedule[t] /\ t \notin wake[w].due
    /\ wake[w].at \in {"loop", "ack"} => wake[w].due \subseteq DueAt(wake[w].matched)
    /\ wake[w].at = "done" => wake[w].due = {}

WakeOK(w) ==
    /\ Progress(w)
    /\ wake[w].at = "ack" => \E t \in Cronjob : Acking(w, t)

\* A key that was run and not acknowledged has an invocation that is about to, or was missed.
KeyOK(k) ==
    /\ acked[k] = "ok" => k \in won
    /\ acked[k] = "error" => k \in missed
    /\ acked[k] = "none" /\ fired[k] # {} =>
         k \in missed \/ \E w \in fired[k] : wake[w].at = "ack" /\ k = <<k[1], wake[w].stamp>>
                                             /\ wake[w].run = {k[1]}

CronInv ==
    /\ wake \in [Wake -> WakeRecord]
    /\ clock \in Minutes
    /\ fired \in [DedupeKey -> SUBSET Wake]
    /\ acked \in [DedupeKey -> {"none", "ok", "error"}]
    /\ \A w \in Wake : WakeOK(w)
    /\ \A k \in DedupeKey : KeyOK(k)

LEMMA CronInitially == CronInit => CronInv
<1> SUFFICES ASSUME CronInit PROVE CronInv
  OBVIOUS
<1>1. 0 \in Minutes
  BY CronConstants DEF CronConstants, Minutes
<1>2. Asleep \in WakeRecord /\ Asleep.at = "idle"
  BY <1>1 DEF Asleep, WakeRecord
<1> QED  BY <1>1, <1>2 DEF CronInit, CronInv, WakeOK, Progress, KeyOK

\* A step of an invocation that runs nothing and acknowledges nothing.
LEMMA QuietKeeps ==
  ASSUME CronInv, NEW w \in Wake, NEW new \in WakeRecord, wake' = [wake EXCEPT ![w] = new],
         UNCHANGED <<clock, fired, won, missed, acked>>, wake[w].at # "ack",
         WakeOK(w)'
  PROVE  CronInv'
<1>1. wake' \in [Wake -> WakeRecord] /\ \A v \in Wake \ {w} : wake'[v] = wake[v]
  BY DEF CronInv
<1>2. ASSUME NEW v \in Wake
      PROVE  WakeOK(v)'
  <2>1. CASE v = w
    BY <2>1
  <2>2. CASE v # w
    <3>1. WakeOK(v) /\ wake'[v] = wake[v] /\ fired' = fired /\ won' = won /\ missed' = missed
      BY <2>2, <1>1 DEF CronInv
    <3>2. \A t \in Cronjob : Acking(v, t) => Acking(v, t)'
      BY <3>1, Zenon DEF Acking
    <3>3. Progress(v)'
      BY <3>1 DEF WakeOK, Progress
    <3>4. wake'[v].at = "ack" => \E t \in Cronjob : Acking(v, t)'
      BY <3>1, <3>2 DEF WakeOK
    <3> QED  BY <3>3, <3>4 DEF WakeOK
  <2> QED  BY <2>1, <2>2
<1>3. ASSUME NEW k \in DedupeKey
      PROVE  KeyOK(k)'
  <2>1. KeyOK(k) /\ fired[k] \subseteq Wake
    BY DEF CronInv
  <2>2. \A v \in fired[k] : wake[v].at = "ack" => wake'[v] = wake[v]
    BY <2>1, <1>1
  <2> QED  BY <2>1, <2>2 DEF KeyOK
<1> QED  BY <1>1, <1>2, <1>3 DEF CronInv

LEMMA QuietStepsKeep ==
  ASSUME CronInv, NEW w \in Wake, AskDue(w) \/ MatchSchedules(w) \/ NoAnswer(w) \/ EndLoop(w)
  PROVE  CronInv'
<1>0. wake[w] \in WakeRecord /\ clock \in Minutes /\ WakeOK(w) /\ w \in DOMAIN wake
  BY DEF CronInv
<1>1. ASSUME AskDue(w)
      PROVE  CronInv'
  <2> DEFINE new == [Asleep EXCEPT !.at = "matching", !.stamp = clock]
  <2>1. new \in WakeRecord /\ new.at = "matching"
    <3>1. 0 \in Minutes
      BY CronConstants DEF CronConstants, Minutes
    <3> QED  BY <1>0, <3>1 DEF Asleep, WakeRecord
  <2>2. wake' = [wake EXCEPT ![w] = new] /\ wake[w].at = "idle"
        /\ UNCHANGED <<clock, fired, won, missed, acked>>
    BY <1>1 DEF AskDue
  <2>3. wake'[w].at = "matching"
    BY <1>0, <2>1, <2>2
  <2>4. WakeOK(w)'
    BY <1>0, <2>2, <2>3 DEF WakeOK, Progress
  <2> HIDE DEF new
  <2> QED  BY <2>1, <2>2, <2>4, QuietKeeps
<1>2. ASSUME MatchSchedules(w)
      PROVE  CronInv'
  <2> DEFINE new == [wake[w] EXCEPT !.at = "loop", !.matched = clock, !.due = DueAt(clock)]
  <2>1. new \in WakeRecord /\ new.at = "loop" /\ new.matched = clock /\ new.due = DueAt(clock)
    BY <1>0 DEF WakeRecord, DueAt
  <2>2. wake' = [wake EXCEPT ![w] = new] /\ wake[w].at = "matching"
        /\ UNCHANGED <<clock, fired, won, missed, acked>>
    BY <1>2 DEF MatchSchedules
  <2>3. wake'[w] = new
    BY <1>0, <2>2
  <2> HIDE DEF new
  <2>4. WakeOK(w)'
    BY <1>0, <2>1, <2>2, <2>3 DEF WakeOK, Progress, DueAt, DedupeKey
  <2> QED  BY <2>1, <2>2, <2>4, QuietKeeps
<1>3. ASSUME NoAnswer(w)
      PROVE  CronInv'
  <2> DEFINE new == [wake[w] EXCEPT !.at = "failed"]
  <2>1. new \in WakeRecord /\ new.at = "failed"
    BY <1>0 DEF WakeRecord
  <2>2. wake' = [wake EXCEPT ![w] = new] /\ wake[w].at = "matching"
        /\ UNCHANGED <<clock, fired, won, missed, acked>>
    BY <1>3 DEF NoAnswer
  <2>3. wake'[w] = new
    BY <1>0, <2>2
  <2> HIDE DEF new
  <2>4. WakeOK(w)'
    BY <2>1, <2>3 DEF WakeOK, Progress
  <2> QED  BY <2>1, <2>2, <2>4, QuietKeeps
<1>4. ASSUME EndLoop(w)
      PROVE  CronInv'
  <2> DEFINE new == [wake[w] EXCEPT !.at = "done"]
  <2>1. /\ new \in WakeRecord /\ new.at = "done" /\ new.due = wake[w].due
        /\ new.stamp = wake[w].stamp /\ new.matched = wake[w].matched
    BY <1>0 DEF WakeRecord
  <2>2. wake' = [wake EXCEPT ![w] = new] /\ wake[w].at = "loop" /\ wake[w].due = {}
        /\ UNCHANGED <<clock, fired, won, missed, acked>>
    BY <1>4 DEF EndLoop
  <2>3. wake'[w] = new
    BY <1>0, <2>2
  <2> HIDE DEF new
  <2>4. WakeOK(w)'
    BY <1>0, <2>1, <2>2, <2>3 DEF WakeOK, Progress
  <2> QED  BY <2>1, <2>2, <2>4, QuietKeeps
<1> QED  BY <1>1, <1>2, <1>3, <1>4

LEMMA FireTriggerKeeps ==
  ASSUME CronInv, NEW w \in Wake, NEW t \in Cronjob, FireTrigger(w, t)
  PROVE  CronInv'
<1> DEFINE k0 == <<t, wake[w].stamp>>
<1>0. /\ wake[w] \in WakeRecord /\ wake[w].at = "loop" /\ t \in wake[w].due /\ WakeOK(w)
      /\ fired' = [fired EXCEPT ![k0] = @ \cup {w}] /\ UNCHANGED <<clock, acked>>
  BY DEF CronInv, FireTrigger
<1>1. PICK ok \in BOOLEAN, throws \in BOOLEAN :
        /\ wake' = [wake EXCEPT ![w] = AfterRun(w, t, ok /\ ~throws, throws)]
        /\ won' = IF ok /\ ~throws THEN won \cup {<<t, wake[w].stamp>>} ELSE won
        /\ missed' = IF ok /\ ~throws THEN missed ELSE missed \cup {<<t, wake[w].stamp>>}
  BY Zenon DEF FireTrigger
<1>a. \E good \in BOOLEAN :
        /\ wake' = [wake EXCEPT ![w] = AfterRun(w, t, good, throws)]
        /\ won' = IF good THEN won \cup {k0} ELSE won
        /\ missed' = IF good THEN missed ELSE missed \cup {k0}
  <2>1. (ok /\ ~throws) \in BOOLEAN
    OBVIOUS
  <2> WITNESS (ok /\ ~throws) \in BOOLEAN
  <2> QED  BY <1>1, Zenon
<1>g. PICK good \in BOOLEAN :
        /\ wake' = [wake EXCEPT ![w] = AfterRun(w, t, good, throws)]
        /\ won' = IF good THEN won \cup {k0} ELSE won
        /\ missed' = IF good THEN missed ELSE missed \cup {k0}
  BY <1>a, Zenon
<1>b. /\ won \subseteq won' /\ missed \subseteq missed'
      /\ good => k0 \in won'
      /\ ~good => k0 \in missed'
  <2>1. /\ won' = IF good THEN won \cup {k0} ELSE won
        /\ missed' = IF good THEN missed ELSE missed \cup {k0}
    BY <1>g, Zenon
  <2> QED  BY <2>1
<1> DEFINE new == AfterRun(w, t, good, throws)
<1>2. /\ new \in WakeRecord /\ new.at = "ack" /\ new.due = wake[w].due \ {t} /\ new.run = {t}
      /\ new.ok = good /\ new.stamp = wake[w].stamp /\ new.matched = wake[w].matched
  BY <1>0, <1>1, <1>g DEF WakeRecord, AfterRun
<1>3. wake' = [wake EXCEPT ![w] = new]
  BY <1>g, Zenon
<1> HIDE DEF new
<1>4. /\ wake' \in [Wake -> WakeRecord] /\ wake'[w] = new
      /\ \A v \in Wake \ {w} : wake'[v] = wake[v]
  BY <1>2, <1>3 DEF CronInv
<1>5. k0 \in DedupeKey
  BY <1>0 DEF DedupeKey, WakeRecord
<1>6. /\ fired' \in [DedupeKey -> SUBSET Wake] /\ fired'[k0] = fired[k0] \cup {w}
      /\ \A k \in DedupeKey \ {k0} : fired'[k] = fired[k]
  BY <1>0, <1>5 DEF CronInv
<1>7. WakeOK(w)'
  <2>1. ASSUME NEW u \in Cronjob, NEW m \in Minutes
        PROVE  w \in fired'[<<u, m>>] <=>
                  m = wake[w].stamp /\ wake[w].matched \in Schedule[u] /\ u \notin wake[w].due \ {t}
    <3>1. <<u, m>> \in DedupeKey /\ (w \in fired[<<u, m>>] <=>
             m = wake[w].stamp /\ wake[w].matched \in Schedule[u] /\ u \notin wake[w].due)
      BY <1>0 DEF WakeOK, Progress, DedupeKey
    <3>2. CASE <<u, m>> = k0
      <4>1. wake[w].matched \in Schedule[t]
        BY <1>0 DEF WakeOK, Progress, DueAt
      <4> QED  BY <3>2, <4>1, <1>6
    <3>3. CASE <<u, m>> # k0
      <4>1. ~(u = t /\ m = wake[w].stamp)
        BY <3>3
      <4> QED  BY <3>1, <3>3, <4>1, <1>6
    <3> QED  BY <3>2, <3>3
  <2>2. Progress(w)'
    BY <2>1, <1>0, <1>2, <1>4 DEF WakeOK, Progress, DueAt
  <2>3. Acking(w, t)'
    <3>1. /\ wake'[w].run = {t} /\ wake'[w].stamp = wake[w].stamp /\ wake'[w].ok = good
          /\ w \in fired'[k0]
      BY <1>2, <1>4, <1>6
    <3>2. /\ wake'[w].ok => k0 \in won'
          /\ ~wake'[w].ok => k0 \in missed'
      BY <1>b, <3>1, Zenon
    <3> QED  BY <3>1, <3>2, Zenon DEF Acking
  <2> QED  BY <2>2, <2>3 DEF WakeOK
<1>8. ASSUME NEW v \in Wake, v # w
      PROVE  WakeOK(v)'
  <2>1. WakeOK(v) /\ wake'[v] = wake[v]
    BY <1>8, <1>4 DEF CronInv
  <2>2. \A k \in DedupeKey : v \in fired'[k] <=> v \in fired[k]
    BY <1>6, <1>8
  <2>3. \A u \in Cronjob, m \in Minutes : <<u, m>> \in DedupeKey
    BY DEF DedupeKey
  <2>4. Progress(v)'
    BY <2>1, <2>2, <2>3 DEF WakeOK, Progress
  <2>5. ASSUME NEW u \in Cronjob, Acking(v, u)
        PROVE  Acking(v, u)'
    <3>1. <<u, wake[v].stamp>> \in DedupeKey
      BY DEF DedupeKey, CronInv, WakeRecord
    <3> QED  BY <2>1, <2>2, <2>5, <3>1, <1>b, Zenon DEF Acking
  <2>6. wake'[v].at = "ack" => \E u \in Cronjob : Acking(v, u)'
    BY <2>1, <2>5 DEF WakeOK
  <2> QED  BY <2>4, <2>6 DEF WakeOK
<1>9. ASSUME NEW k \in DedupeKey
      PROVE  KeyOK(k)'
  <2>1. KeyOK(k) /\ fired[k] \subseteq Wake
    BY DEF CronInv
  <2>2. CASE k = k0
    <3>1. k[1] = t /\ k[2] = wake[w].stamp
      BY <2>2
    <3>2. w \in fired'[k] /\ wake'[w].at = "ack" /\ k = <<k[1], wake'[w].stamp>> /\ wake'[w].run = {k[1]}
      BY <2>2, <3>1, <1>2, <1>4, <1>6
    <3> QED  BY <2>1, <3>2, <1>0, <1>b DEF KeyOK
  <2>3. CASE k # k0
    <3>1. fired'[k] = fired[k]
      BY <2>3, <1>6
    <3>2. \A v \in fired[k] : wake[v].at = "ack" => wake'[v] = wake[v]
      BY <2>1, <1>0, <1>4
    <3> QED  BY <2>1, <3>1, <3>2, <1>0, <1>b DEF KeyOK
  <2> QED  BY <2>2, <2>3
<1> QED  BY <1>0, <1>4, <1>6, <1>7, <1>8, <1>9 DEF CronInv

\* The key an acknowledgement is about, and what the control plane makes of it.
LEMMA AckKey ==
  ASSUME CronInv, NEW w \in Wake, wake[w].at = "ack"
  PROVE  \E t \in Cronjob :
            /\ Acking(w, t) /\ KeyOf(w) = <<t, wake[w].stamp>> /\ KeyOf(w) \in DedupeKey
<1>1. PICK t \in Cronjob : Acking(w, t)
  BY Zenon DEF CronInv, WakeOK
<1>2. wake[w].run = {t}
  BY <1>1 DEF Acking
<1>3. Current(w) = t
  BY <1>2 DEF Current
<1>4. wake[w].stamp \in Minutes
  BY DEF CronInv, WakeRecord
<1> QED  BY <1>1, <1>3, <1>4, Zenon DEF KeyOf, DedupeKey

\* After it only the invocation and its key look different.
LEMMA AckKeeps ==
  ASSUME CronInv, NEW w \in Wake, NEW new \in WakeRecord, wake[w].at = "ack",
         wake' = [wake EXCEPT ![w] = new], UNCHANGED <<clock, fired, won>>,
         missed \subseteq missed', acked' = acked \/ StoreAck(w),
         KeyOf(w) \in missed' \/ acked'[KeyOf(w)] # "none",
         new.due = wake[w].due, new.stamp = wake[w].stamp, new.matched = wake[w].matched,
         new.at \in {"loop", "ack", "failed"},
         new.at = "ack" => new.run = wake[w].run /\ new.ok = FALSE /\ KeyOf(w) \in missed'
  PROVE  CronInv'
<1>1. PICK t \in Cronjob :
        /\ Acking(w, t) /\ KeyOf(w) = <<t, wake[w].stamp>> /\ KeyOf(w) \in DedupeKey
  BY AckKey
<1>2. /\ wake' \in [Wake -> WakeRecord] /\ wake'[w] = new
      /\ \A v \in Wake \ {w} : wake'[v] = wake[v]
  BY DEF CronInv
<1>3. /\ acked' \in [DedupeKey -> {"none", "ok", "error"}]
      /\ \A k \in DedupeKey : k # KeyOf(w) \/ acked[k] # "none" => acked'[k] = acked[k]
      /\ \A k \in DedupeKey : acked[k] = "none" => acked'[k] \in {"none", IF wake[w].ok THEN "ok" ELSE "error"}
  <2>1. acked \in [DedupeKey -> {"none", "ok", "error"}] /\ KeyOf(w) \in DedupeKey
    BY <1>1 DEF CronInv
  <2>2. CASE acked' = acked
    BY <2>1, <2>2
  <2>3. CASE StoreAck(w)
    <3> DEFINE mark == IF wake[w].ok THEN "ok" ELSE "error"
    <3>1. mark \in {"ok", "error"}
      OBVIOUS
    <3>2. acked' = [acked EXCEPT ![KeyOf(w)] = IF @ = "none" THEN mark ELSE @]
      BY <2>3 DEF StoreAck
    <3> HIDE DEF mark
    <3>3. /\ acked' \in [DedupeKey -> {"none", "ok", "error"}]
          /\ \A k \in DedupeKey : k # KeyOf(w) \/ acked[k] # "none" => acked'[k] = acked[k]
          /\ \A k \in DedupeKey : acked[k] = "none" => acked'[k] \in {"none", mark}
      BY <2>1, <3>1, <3>2
    <3> QED  BY <3>3 DEF mark
  <2> QED  BY <2>2, <2>3
<1>4. WakeOK(w)'
  <2>1. Progress(w) /\ fired' = fired
    BY DEF CronInv, WakeOK
  <2>2. Progress(w)'
    BY <2>1, <1>2 DEF Progress
  <2>3. ASSUME new.at = "ack"
        PROVE  Acking(w, t)'
    <3>1. wake'[w].run = {t} /\ wake'[w].ok = FALSE /\ wake'[w].stamp = wake[w].stamp
      BY <2>3, <1>1, <1>2 DEF Acking
    <3>2. <<t, wake[w].stamp>> \in missed' /\ w \in fired[<<t, wake[w].stamp>>]
      BY <2>3, <1>1 DEF Acking
    <3> QED  BY <3>1, <3>2, <2>1 DEF Acking
  <2> QED  BY <2>2, <2>3, <1>2 DEF WakeOK
<1>5. ASSUME NEW v \in Wake, v # w
      PROVE  WakeOK(v)'
  <2>1. WakeOK(v) /\ wake'[v] = wake[v] /\ fired' = fired /\ won' = won
    BY <1>5, <1>2 DEF CronInv
  <2>2. Progress(v)'
    BY <2>1 DEF WakeOK, Progress
  <2>3. \A u \in Cronjob : Acking(v, u) => Acking(v, u)'
    BY <2>1, Zenon DEF Acking
  <2>4. wake'[v].at = "ack" => \E u \in Cronjob : Acking(v, u)'
    BY <2>1, <2>3 DEF WakeOK
  <2> QED  BY <2>2, <2>4 DEF WakeOK
<1>6. ASSUME NEW k \in DedupeKey
      PROVE  KeyOK(k)'
  <2>1. KeyOK(k) /\ fired[k] \subseteq Wake /\ fired' = fired /\ won' = won
    BY DEF CronInv
  <2>2. CASE k = KeyOf(w)
    <3>1. wake[w].ok => k \in won
      BY <2>2, <1>1, Zenon DEF Acking
    <3>2. ~wake[w].ok => k \in missed
      BY <2>2, <1>1, Zenon DEF Acking
    <3>3. acked'[k] = "ok" => k \in won
      BY <2>1, <3>1, <1>3 DEF KeyOK
    <3>4. acked'[k] = "error" => k \in missed
      BY <2>1, <3>2, <1>3 DEF KeyOK
    <3>5. acked'[k] = "none" => k \in missed'
      BY <2>2
    <3> QED  BY <2>1, <3>3, <3>4, <3>5 DEF KeyOK
  <2>3. CASE k # KeyOf(w)
    <3>1. acked'[k] = acked[k]
      BY <2>3, <1>3
    <3>2. ASSUME NEW v \in fired[k], wake[v].at = "ack", k = <<k[1], wake[v].stamp>>,
                 wake[v].run = {k[1]}
          PROVE  wake'[v] = wake[v]
      <4>1. v # w
        BY <3>2, <2>3, <1>1 DEF Acking
      <4> QED  BY <4>1, <2>1, <1>2
    <3> QED  BY <2>1, <3>1, <3>2 DEF KeyOK
  <2> QED  BY <2>2, <2>3
<1> QED  BY <1>2, <1>3, <1>4, <1>5, <1>6 DEF CronInv

LEMMA AcknowledgeKeeps ==
  ASSUME CronInv, NEW w \in Wake, Acknowledge(w) \/ AcknowledgeThrows(w)
  PROVE  CronInv'
<1>0. wake[w] \in WakeRecord /\ wake[w].at = "ack" /\ UNCHANGED <<clock, fired, won>>
  BY DEF CronInv, Acknowledge, AcknowledgeThrows
<1>1. KeyOf(w) \in DedupeKey
  BY <1>0, AckKey
<1>2. ASSUME StoreAck(w)
      PROVE  acked'[KeyOf(w)] # "none"
  BY <1>1, <1>2 DEF StoreAck, CronInv
<1>3. CASE Acknowledge(w)
  <2> DEFINE new == [wake[w] EXCEPT !.at = "loop", !.run = {}, !.caught = FALSE]
  <2>1. /\ new \in WakeRecord /\ new.due = wake[w].due /\ new.stamp = wake[w].stamp
        /\ new.matched = wake[w].matched /\ new.at = "loop"
    BY <1>0 DEF WakeRecord
  <2>2. wake' = [wake EXCEPT ![w] = new]
    BY <1>3 DEF Acknowledge
  <2> HIDE DEF new
  <2>3. \/ StoreAck(w) /\ missed' = missed
        \/ missed' = missed \cup {KeyOf(w)} /\ acked' = acked
    BY <1>3 DEF Acknowledge
  <2> QED  BY <1>0, <1>2, <2>1, <2>2, <2>3, AckKeeps
<1>4. CASE AcknowledgeThrows(w)
  <2> DEFINE to == IF wake[w].caught THEN "failed" ELSE "ack"
             new == [wake[w] EXCEPT !.at = to, !.caught = TRUE, !.ok = FALSE]
  <2>0. to \in {"failed", "ack"}
    OBVIOUS
  <2>2. wake' = [wake EXCEPT ![w] = new]
    BY <1>4 DEF AcknowledgeThrows
  <2> HIDE DEF to
  <2>1. /\ new \in WakeRecord /\ new.due = wake[w].due /\ new.stamp = wake[w].stamp
        /\ new.matched = wake[w].matched /\ new.at = to /\ new.run = wake[w].run /\ new.ok = FALSE
    BY <1>0, <2>0 DEF WakeRecord
  <2> HIDE DEF new
  <2>3. missed' = missed \cup {KeyOf(w)} /\ (StoreAck(w) \/ acked' = acked)
    BY <1>4 DEF AcknowledgeThrows
  <2> QED  BY <1>0, <2>0, <2>1, <2>2, <2>3, AckKeeps
<1> QED  BY <1>3, <1>4

LEMMA CronNextKeeps == CronInv /\ [CronNext]_cronVars => CronInv'
<1> SUFFICES ASSUME CronInv, [CronNext]_cronVars PROVE CronInv'
  OBVIOUS
<1>1. ASSUME UNCHANGED <<wake, fired, won, missed, acked>>, clock' \in Minutes
      PROVE  CronInv'
  <2>1. ASSUME NEW w \in Wake
        PROVE  WakeOK(w)'
    <3>1. Progress(w)'
      BY <1>1 DEF CronInv, WakeOK, Progress
    <3>2. \A t \in Cronjob : Acking(w, t) => Acking(w, t)'
      BY <1>1, Zenon DEF Acking
    <3> QED  BY <1>1, <3>1, <3>2 DEF CronInv, WakeOK
  <2>2. \A k \in DedupeKey : KeyOK(k)'
    BY <1>1 DEF CronInv, KeyOK
  <2> QED  BY <1>1, <2>1, <2>2 DEF CronInv
<1>2. CASE TickMinute
  BY <1>1, <1>2, CronConstants DEF TickMinute, CronInv, Minutes, CronConstants
<1>3. CASE UNCHANGED cronVars
  BY <1>1, <1>3 DEF cronVars, CronInv
<1> QED  BY <1>2, <1>3, QuietStepsKeep, FireTriggerKeeps, AcknowledgeKeeps DEF CronNext

\* However wake-ups overlap and acknowledgements are lost, one on file is true, and a run
\* without one is accounted for.
THEOREM AcksCorrect == CronSpec => []AcksTellTheTruth
<1>1. CronInv => AcksTellTheTruth
  BY DEF CronInv, KeyOK, AcksTellTheTruth
<1> QED  BY CronInitially, CronNextKeeps, <1>1, PTL DEF CronSpec

\* A wake-up that came to the end of its loop has run what was due in the minute it was
\* answered in, under keys of the minute it asked in, and nothing else.
THEOREM WakesCorrect == CronSpec => []WakeRunsItsMinute
<1>1. CronInv => WakeRunsItsMinute
  BY DEF CronInv, WakeOK, Progress, WakeRunsItsMinute
<1> QED  BY CronInitially, CronNextKeeps, <1>1, PTL DEF CronSpec

-----------------------------------------------------------------------------
(* Assets: the uploads that are past the limit's check, and what a deploy   *)
(* has read so far.                                                         *)

AssetOps == {"none", "put", "rename", "delete", "profile", "deploy"}
AssetSteps == {"idle", "profile", "find", "caps", "write", "collision", "move", "remove", "clear",
               "sync", "list", "load", "snapshot", "done"}

AnyRequest ==
    [op : AssetOps, at : AssetSteps, path : Path, to : Path, body : Content \cup {Nothing},
     id : RowId \cup {Nothing}, list : SUBSET Path, bundle : Stored, snap : Stored, alone : BOOLEAN]

FileRow == [path : Path, content : Content \cup {Nothing}]

Adding == {r \in Request : request[r].at = "write" /\ request[r].id = Nothing}

\* A file is bundled as it is, unless it is still to be loaded or has been touched.
DeployOK(r) ==
    LET q == request[r]
    IN  /\ q.op = "deploy" <=> q.at \in {"list", "load", "snapshot", "done"}
        /\ q.at = "list" => q.bundle = NoFiles
        /\ q.at \in {"list", "load", "snapshot"} => q.snap = NoFiles
        /\ q.at \in {"load", "snapshot"} =>
             \A p \in Path \ q.list : q.bundle[p] = ContentAt(p) \/ p \in touched[r]
        /\ q.at = "snapshot" => q.list = {}
        /\ q.at = "done" => \A p \in Path : q.bundle[p] # q.snap[p] => p \in touched[r]

AssetInv ==
    /\ file \in [RowId -> FileRow \cup {Nothing}]
    /\ request \in [Request -> AnyRequest]
    /\ touched \in [Request -> SUBSET Path]
    /\ Cardinality(Files) + Cardinality(Adding) < MaxFiles + Cardinality(Request)
    /\ \A r \in Request : DeployOK(r)

LEMMA FileSizes ==
  ASSUME NEW F \in SUBSET RowId, NEW A \in SUBSET Request
  PROVE  /\ IsFiniteSet(F) /\ IsFiniteSet(A) /\ Cardinality(F) \in Nat /\ Cardinality(A) \in Nat
         /\ Cardinality(Request) \in Nat /\ Cardinality(A) <= Cardinality(Request)
         /\ MaxFiles \in Nat
  BY AssetConstants, FS_Subset, FS_CardinalityType DEF AssetConstants

LEMMA FileSums ==
  ASSUME NEW F \in SUBSET RowId, NEW G \in SUBSET RowId, NEW A \in SUBSET Request, NEW B \in SUBSET Request,
         Cardinality(F) + Cardinality(A) < MaxFiles + Cardinality(Request),
         \/ G \subseteq F /\ B \subseteq A
         \/ Cardinality(G) < MaxFiles
         \/ /\ \E r \in A : B \subseteq A \ {r}
            /\ \E i \in RowId : G \subseteq F \cup {i}
  PROVE  Cardinality(G) + Cardinality(B) < MaxFiles + Cardinality(Request)
<1>0. /\ Cardinality(F) \in Nat /\ Cardinality(A) \in Nat /\ Cardinality(G) \in Nat
      /\ Cardinality(B) \in Nat /\ Cardinality(Request) \in Nat /\ MaxFiles \in Nat
      /\ Cardinality(B) <= Cardinality(Request) /\ IsFiniteSet(F) /\ IsFiniteSet(A)
  BY FileSizes
<1>1. CASE G \subseteq F /\ B \subseteq A
  <2>1. Cardinality(G) <= Cardinality(F) /\ Cardinality(B) <= Cardinality(A)
    BY <1>0, <1>1, FS_Subset
  <2> QED  BY <1>0, <2>1
<1>2. CASE Cardinality(G) < MaxFiles
  BY <1>0, <1>2
<1>3. ASSUME NEW r \in A, B \subseteq A \ {r}, NEW i \in RowId, G \subseteq F \cup {i}
      PROVE  Cardinality(G) + Cardinality(B) < MaxFiles + Cardinality(Request)
  <2>1. Cardinality(A \ {r}) = Cardinality(A) - 1 /\ IsFiniteSet(A \ {r})
    BY <1>0, FS_RemoveElement
  <2>2. Cardinality(B) <= Cardinality(A) - 1
    BY <2>1, <1>3, FS_Subset
  <2>3. Cardinality(F \cup {i}) <= Cardinality(F) + 1 /\ IsFiniteSet(F \cup {i})
    <3>1. IsFiniteSet(F \cup {i})
          /\ Cardinality(F \cup {i}) = IF i \in F THEN Cardinality(F) ELSE Cardinality(F) + 1
      BY <1>0, FS_AddElement
    <3> QED  BY <1>0, <3>1
  <2>4. Cardinality(G) <= Cardinality(F \cup {i}) /\ Cardinality(F \cup {i}) \in Nat
    BY <2>3, <1>3, FS_Subset, FS_CardinalityType
  <2> QED  BY <1>0, <2>2, <2>3, <2>4
<1> QED  BY <1>1, <1>2, <1>3

\* The rows of a path that nobody touched say what they said.
LEMMA ContentKept ==
  ASSUME NEW p \in Path, Row(p)' = Row(p), \A i \in Row(p) : file'[i] = file[i]
  PROVE  ContentAt(p)' = ContentAt(p)
<1>1. CASE Row(p) = {}
  BY <1>1 DEF ContentAt
<1>2. CASE Row(p) # {}
  <2>1. (CHOOSE i \in Row(p) : TRUE) \in Row(p)
    BY <1>2
  <2> QED  BY <1>2, <2>1 DEF ContentAt
<1> QED  BY <1>1, <1>2

LEMMA ContentType ==
  ASSUME file \in [RowId -> FileRow \cup {Nothing}], NEW p \in Path
  PROVE  ContentAt(p) \in Content \cup {Nothing}
<1>1. CASE Row(p) = {}
  BY <1>1 DEF ContentAt
<1>2. CASE Row(p) # {}
  <2>1. (CHOOSE i \in Row(p) : TRUE) \in Row(p)
    BY <1>2
  <2>2. \A i \in Row(p) : file[i] \in FileRow
    BY DEF Row, Files
  <2> QED  BY <1>2, <2>1, <2>2 DEF ContentAt, FileRow
<1> QED  BY <1>1, <1>2

Alike(s) ==
    /\ request'[s].op = request[s].op /\ request'[s].at = request[s].at
    /\ request'[s].id = request[s].id /\ request'[s].list = request[s].list
    /\ request'[s].bundle = request[s].bundle /\ request'[s].snap = request[s].snap

LEMMA AssetStep ==
  ASSUME AssetInv, NEW r \in Request,
         file' \in [RowId -> FileRow \cup {Nothing}], request' \in [Request -> AnyRequest],
         touched' \in [Request -> SUBSET Path],
         \A s \in Request \ {r} : Alike(s),
         \A s \in Request \ {r} : request[s].op = "deploy" => touched[s] \subseteq touched'[s],
         \A s \in Request \ {r}, p \in Path :
            request[s].op = "deploy" => ContentAt(p)' = ContentAt(p) \/ p \in touched'[s],
         DeployOK(r)',
         \/ Files' \subseteq Files /\ (r \in Adding' => r \in Adding)
         \/ Cardinality(Files') < MaxFiles
         \/ r \in Adding /\ r \notin Adding' /\ \E i \in RowId : Files' \subseteq Files \cup {i}
  PROVE  AssetInv'
<1>1. /\ Files \in SUBSET RowId /\ Adding \in SUBSET Request
      /\ Files' \in SUBSET RowId /\ Adding' \in SUBSET Request
  BY DEF Files, Adding
<1>2. \A s \in Request \ {r} : s \in Adding' => s \in Adding
  BY DEF Adding, Alike
<1>3. Cardinality(Files') + Cardinality(Adding') < MaxFiles + Cardinality(Request)
  <2>1. Cardinality(Files) + Cardinality(Adding) < MaxFiles + Cardinality(Request)
    BY DEF AssetInv
  <2>2. CASE Files' \subseteq Files /\ (r \in Adding' => r \in Adding)
    <3>1. Adding' \subseteq Adding
      BY <2>2, <1>1, <1>2
    <3> QED  BY <1>1, <2>1, <2>2, <3>1, FileSums
  <2>3. CASE Cardinality(Files') < MaxFiles
    BY <1>1, <2>1, <2>3, FileSums
  <2>4. CASE r \in Adding /\ r \notin Adding' /\ \E i \in RowId : Files' \subseteq Files \cup {i}
    <3>1. Adding' \subseteq Adding \ {r}
      BY <2>4, <1>1, <1>2
    <3> QED  BY <1>1, <2>1, <2>4, <3>1, FileSums
  <2> QED  BY <2>2, <2>3, <2>4
<1>4. ASSUME NEW s \in Request, s # r
      PROVE  DeployOK(s)'
  <2>1. DeployOK(s) /\ Alike(s)
    BY <1>4 DEF AssetInv
  <2>2. CASE request[s].op # "deploy"
    BY <2>1, <2>2 DEF DeployOK, Alike
  <2>3. CASE request[s].op = "deploy"
    <3>1. touched[s] \subseteq touched'[s]
          /\ \A p \in Path : ContentAt(p)' = ContentAt(p) \/ p \in touched'[s]
      BY <1>4, <2>3
    <3> HIDE DEF Alike
    <3>2. /\ request'[s].op = request[s].op /\ request'[s].at = request[s].at
          /\ request'[s].list = request[s].list
          /\ request'[s].bundle = request[s].bundle /\ request'[s].snap = request[s].snap
      BY <2>1 DEF Alike
    <3> QED  BY <2>1, <3>1, <3>2 DEF DeployOK
  <2> QED  BY <2>2, <2>3
<1> QED  BY <1>3, <1>4 DEF AssetInv

\* A request that no deploy is, or that has only begun to be one.
LEMMA NoDeploy ==
  ASSUME NEW r \in Request, request'[r].op # "deploy",
         request'[r].at \notin {"list", "load", "snapshot", "done"}
  PROVE  DeployOK(r)'
  BY DEF DeployOK

\* The request alone changes: the files are as they were.
LEMMA OwnStep ==
  ASSUME AssetInv, NEW r \in Request, NEW new \in AnyRequest, request' = [request EXCEPT ![r] = new],
         file' = file, touched' = touched, DeployOK(r)',
         new.at = "write" /\ new.id = Nothing => Cardinality(Files) < MaxFiles
  PROVE  AssetInv'
<1>1. /\ request' \in [Request -> AnyRequest] /\ request'[r] = new
      /\ \A s \in Request \ {r} : request'[s] = request[s]
  BY DEF AssetInv
<1>2. \A s \in Request \ {r} : Alike(s)
  BY <1>1 DEF Alike
<1>3. Files' = Files /\ \A p \in Path : ContentAt(p)' = ContentAt(p)
  BY DEF Files, ContentAt, Row
<1>4. r \in Adding' => Cardinality(Files') < MaxFiles
  BY <1>1, <1>3 DEF Adding
<1>5. /\ file' \in [RowId -> FileRow \cup {Nothing}] /\ touched' \in [Request -> SUBSET Path]
      /\ \A s \in Request \ {r} : request[s].op = "deploy" => touched[s] \subseteq touched'[s]
      /\ \A s \in Request \ {r}, p \in Path :
            request[s].op = "deploy" => ContentAt(p)' = ContentAt(p) \/ p \in touched'[s]
  BY <1>3 DEF AssetInv
<1>6. \/ Files' \subseteq Files /\ (r \in Adding' => r \in Adding)
      \/ Cardinality(Files') < MaxFiles
  BY <1>3, <1>4
<1> QED  BY <1>1, <1>2, <1>5, <1>6, AssetStep

LEMMA RestingType ==
  /\ Resting \in AnyRequest /\ Resting.op = "none" /\ Resting.at = "idle"
  /\ NoFiles \in Stored /\ Resting.bundle = NoFiles /\ Resting.snap = NoFiles
<1>1. NoFiles \in Stored
  BY DEF Stored, NoFiles
<1>2. README \in Path
  BY AssetConstants DEF AssetConstants
<1>3. Resting \in AnyRequest
  BY <1>1, <1>2 DEF Resting, AnyRequest, AssetOps, AssetSteps
<1>4. Resting.op = "none" /\ Resting.at = "idle" /\ Resting.bundle = NoFiles /\ Resting.snap = NoFiles
  BY DEF Resting
<1> QED  BY <1>1, <1>3, <1>4

LEMMA EndKeeps ==
  ASSUME AssetInv, NEW r \in Request, End(r), file' = file, touched' = touched
  PROVE  AssetInv'
<1>1. request' = [request EXCEPT ![r] = Resting] /\ r \in DOMAIN request
  BY DEF End, AssetInv
<1>2. request'[r] = Resting
  BY <1>1
<1>3. DeployOK(r)'
  BY <1>2, RestingType, NoDeploy
<1> QED  BY <1>1, <1>3, RestingType, OwnStep

\* A request that is no deploy goes on to another step.
LEMMA ToKeeps ==
  ASSUME AssetInv, NEW r \in Request, NEW step \in AssetSteps, To(r, step), file' = file, touched' = touched,
         request[r].op # "deploy", step \notin {"list", "load", "snapshot", "done"},
         step = "write" /\ request[r].id = Nothing => Cardinality(Files) < MaxFiles
  PROVE  AssetInv'
<1> DEFINE new == [request[r] EXCEPT !.at = step]
<1>1. request' = [request EXCEPT ![r] = new]
  BY DEF To
<1>2. new \in AnyRequest /\ new.at = step /\ new.op = request[r].op /\ new.id = request[r].id
  BY DEF AssetInv, AnyRequest
<1> HIDE DEF new
<1>3. request'[r] = new
  BY <1>1 DEF AssetInv
<1>4. DeployOK(r)'
  BY <1>2, <1>3, NoDeploy
<1> QED  BY <1>1, <1>2, <1>4, OwnStep

LEMMA BeginsKeeps ==
  ASSUME AssetInv, NEW r \in Request, NEW job \in AnyRequest, Begins(r, job),
         job.at # "write", job.op = "deploy" <=> job.at = "list",
         job.at \notin {"load", "snapshot", "done"}, job.bundle = NoFiles, job.snap = NoFiles
  PROVE  AssetInv'
<1>0. UNCHANGED <<file, readme, apart, touched>>
  BY DEF Begins
<1>1. /\ request' = [q \in Request |->
                    IF q = r THEN [job EXCEPT !.alone = (Writers = {})]
                    ELSE IF q \in Writers THEN [request[q] EXCEPT !.alone = FALSE] ELSE request[q]]
  BY DEF Begins
<1>2. request'[r] = [job EXCEPT !.alone = (Writers = {})]
  BY <1>1
<1>3. /\ request'[r] \in AnyRequest /\ request'[r].op = job.op /\ request'[r].at = job.at
      /\ request'[r].bundle = job.bundle /\ request'[r].snap = job.snap
  <2> DEFINE none == Writers = {}
  <2>1. none \in BOOLEAN /\ request'[r] = [job EXCEPT !.alone = none]
    BY <1>2
  <2> HIDE DEF none
  <2> QED  BY <2>1 DEF AnyRequest
<1>4. ASSUME NEW s \in Request, s # r
      PROVE  request'[s] \in AnyRequest /\ Alike(s)
  <2>1. request'[s] = [request[s] EXCEPT !.alone = FALSE] \/ request'[s] = request[s]
    BY <1>1, <1>4
  <2>2. request[s] \in AnyRequest
    BY DEF AssetInv
  <2> QED  BY <2>1, <2>2 DEF AnyRequest, Alike
<1>5. request' \in [Request -> AnyRequest]
  BY <1>1, <1>3, <1>4
<1>6. Files' = Files /\ \A p \in Path : ContentAt(p)' = ContentAt(p)
  BY <1>0 DEF Files, ContentAt, Row
<1>7. DeployOK(r)'
  BY <1>3 DEF DeployOK
<1>8. r \notin Adding'
  BY <1>3 DEF Adding
<1>9. /\ file' \in [RowId -> FileRow \cup {Nothing}] /\ touched' \in [Request -> SUBSET Path]
      /\ \A s \in Request \ {r} : request[s].op = "deploy" => touched[s] \subseteq touched'[s]
      /\ \A s \in Request \ {r}, p \in Path :
            request[s].op = "deploy" => ContentAt(p)' = ContentAt(p) \/ p \in touched'[s]
  BY <1>0, <1>6 DEF AssetInv
<1> QED  BY <1>4, <1>5, <1>6, <1>7, <1>8, <1>9, AssetStep

\* The rows of some paths change, by a request that is no deploy.
LEMMA TouchingStep ==
  ASSUME AssetInv, NEW r \in Request, NEW paths \in SUBSET Path, NEW alone, Touch(paths, alone),
         file' \in [RowId -> FileRow \cup {Nothing}],
         \A p \in Path \ paths : Row(p)' = Row(p) /\ \A i \in Row(p) : file'[i] = file[i],
         NEW new \in AnyRequest, request' = [request EXCEPT ![r] = new],
         new.op # "deploy", new.at \notin {"list", "load", "snapshot", "done", "write"},
         \/ Files' \subseteq Files
         \/ r \in Adding /\ \E i \in RowId : Files' \subseteq Files \cup {i}
  PROVE  AssetInv'
<1>1. /\ request' \in [Request -> AnyRequest] /\ request'[r] = new
      /\ \A s \in Request \ {r} : request'[s] = request[s]
  BY DEF AssetInv
<1>2. \A s \in Request \ {r} : Alike(s)
  BY <1>1 DEF Alike
<1>3. touched' = [s \in Request |-> IF request[s].op = "deploy" THEN touched[s] \cup paths ELSE {}]
  BY DEF Touch
<1>4. touched' \in [Request -> SUBSET Path]
  BY <1>3 DEF AssetInv
<1>5. \A s \in Request : request[s].op = "deploy" => touched'[s] = touched[s] \cup paths
  BY <1>3
<1>6. \A p \in Path : ContentAt(p)' = ContentAt(p) \/ p \in paths
  BY ContentKept
<1>7. DeployOK(r)'
  BY <1>1, NoDeploy
<1>8. r \notin Adding'
  BY <1>1 DEF Adding
<1>9. /\ \A s \in Request \ {r} : request[s].op = "deploy" => touched[s] \subseteq touched'[s]
      /\ \A s \in Request \ {r}, p \in Path :
            request[s].op = "deploy" => ContentAt(p)' = ContentAt(p) \/ p \in touched'[s]
  BY <1>5, <1>6
<1> QED  BY <1>1, <1>2, <1>4, <1>7, <1>8, <1>9, AssetStep

LEMMA WriteProfileKeeps ==
  ASSUME AssetInv, NEW r \in Request, WriteProfile(r)
  PROVE  AssetInv'
<1> DEFINE to == IF Trimmed(request[r].body) = Nothing THEN "remove" ELSE "find"
           new == [request[r] EXCEPT !.at = to]
<1>0. request[r].at = "profile" /\ file' = file /\ Touch({README}, request[r].alone) /\ To(r, to)
  BY DEF WriteProfile, In
<1>1. to \in {"remove", "find"} /\ to \in AssetSteps
  BY DEF AssetSteps
<1> HIDE DEF to
<1>2. request' = [request EXCEPT ![r] = new]
  BY <1>0 DEF To
<1>3. new \in AnyRequest /\ new.at = to /\ new.op = request[r].op
  BY <1>1 DEF AssetInv, AnyRequest
<1>4. request[r].op # "deploy"
  BY <1>0 DEF AssetInv, DeployOK
<1>5. Files' = Files /\ \A p \in Path : Row(p)' = Row(p)
  BY <1>0 DEF Files, Row
<1>6. {README} \in SUBSET Path /\ file' \in [RowId -> FileRow \cup {Nothing}]
  BY <1>0, AssetConstants DEF AssetConstants, AssetInv
<1> HIDE DEF new
<1> QED  BY <1>0, <1>1, <1>2, <1>3, <1>4, <1>5, <1>6, TouchingStep

\* What a request that changed the rows does next.
LEMMA AfterTouch ==
  ASSUME AssetInv, NEW r \in Request, NEW step \in AssetSteps, request[r].op # "deploy",
         step \notin {"list", "load", "snapshot", "done", "write"}, To(r, step) \/ End(r)
  PROVE  \E new \in AnyRequest :
            /\ request' = [request EXCEPT ![r] = new] /\ new.op # "deploy"
            /\ new.at \notin {"list", "load", "snapshot", "done", "write"}
<1>1. CASE End(r)
  BY <1>1, RestingType DEF End
<1>2. CASE To(r, step)
  <2> DEFINE new == [request[r] EXCEPT !.at = step]
  <2>1. new \in AnyRequest /\ new.at = step /\ new.op = request[r].op
    BY DEF AssetInv, AnyRequest
  <2>2. request' = [request EXCEPT ![r] = new]
    BY <1>2 DEF To
  <2> HIDE DEF new
  <2> QED  BY <2>1, <2>2
<1> QED  BY <1>1, <1>2

LEMMA WriteKeeps ==
  ASSUME AssetInv, NEW r \in Request, Write(r)
  PROVE  AssetInv'
<1> DEFINE q == request[r]
           paths == {q.path} \cup (IF q.id \in Files THEN {file[q.id].path} ELSE {})
<1>0. /\ q.at = "write" /\ q.path \in Path /\ q.id \in RowId \cup {Nothing}
      /\ q.body \in Content \cup {Nothing}
      /\ file \in [RowId -> FileRow \cup {Nothing}] /\ Nothing \notin RowId
  BY AssetConstants DEF Write, In, AssetInv, AnyRequest, AssetConstants
<1>1. q.op # "deploy"
  BY <1>0 DEF AssetInv, DeployOK
<1>a. ASSUME To(r, "sync") \/ End(r)
      PROVE  \E new \in AnyRequest :
                /\ request' = [request EXCEPT ![r] = new] /\ new.op # "deploy"
                /\ new.at \notin {"list", "load", "snapshot", "done", "write"}
  BY <1>1, <1>a, AfterTouch DEF AssetSteps
<1>2. CASE /\ q.id # Nothing
           /\ file' = [file EXCEPT ![q.id] = IF @ = Nothing THEN @ ELSE [@ EXCEPT !.content = q.body]]
           /\ Touch(paths, q.alone)
           /\ To(r, "sync") \/ End(r)
  <2> DEFINE entry == IF file[q.id] = Nothing THEN Nothing ELSE [file[q.id] EXCEPT !.content = q.body]
  <2>1. q.id \in RowId /\ file' = [file EXCEPT ![q.id] = entry]
    BY <1>0, <1>2
  <2>2. /\ entry \in FileRow \cup {Nothing}
        /\ file[q.id] = Nothing => entry = Nothing
        /\ file[q.id] # Nothing => entry.path = file[q.id].path
    BY <1>0, <2>1 DEF FileRow
  <2> HIDE DEF entry
  <2>3. /\ file' \in [RowId -> FileRow \cup {Nothing}] /\ file'[q.id] = entry
        /\ \A i \in RowId \ {q.id} : file'[i] = file[i]
    BY <1>0, <2>1, <2>2
  <2>4. Files' \subseteq Files
    BY <2>1, <2>2, <2>3 DEF Files
  <2>5. ASSUME NEW p \in Path \ paths
        PROVE  Row(p)' = Row(p) /\ \A i \in Row(p) : file'[i] = file[i]
    <3>1. q.id \in Files => file[q.id].path # p
      BY <2>5
    <3>2. q.id \notin Row(p)
      BY <3>1 DEF Row
    <3>3. q.id \notin Row(p)'
      BY <2>1, <2>2, <2>3, <3>1 DEF Row, Files
    <3>4. \A i \in RowId \ {q.id} : i \in Row(p) <=> i \in Row(p)'
      BY <2>3 DEF Row, Files
    <3>5. Row(p) \subseteq RowId /\ Row(p)' \subseteq RowId
      BY DEF Row, Files
    <3> QED  BY <2>3, <3>2, <3>3, <3>4, <3>5
  <2>6. paths \subseteq Path
    BY <1>0 DEF Files, FileRow
  <2>7. PICK new \in AnyRequest :
            /\ request' = [request EXCEPT ![r] = new] /\ new.op # "deploy"
            /\ new.at \notin {"list", "load", "snapshot", "done", "write"}
    BY <1>a, <1>2
  <2> HIDE DEF paths
  <2> QED  BY <1>2, <2>3, <2>4, <2>5, <2>6, <2>7, TouchingStep
<1>3. CASE /\ q.id = Nothing /\ Fresh # {}
           /\ file' = [file EXCEPT ![CHOOSE i \in Fresh : TRUE] = [path |-> q.path, content |-> q.body]]
           /\ Touch({q.path}, q.alone)
           /\ To(r, "sync") \/ End(r)
  <2> DEFINE entry == [path |-> q.path, content |-> q.body]
  <2>1. PICK i \in RowId : i \notin Files /\ file' = [file EXCEPT ![i] = entry]
    <3>1. (CHOOSE i \in Fresh : TRUE) \in Fresh
      BY <1>3
    <3> QED  BY <1>3, <3>1 DEF Fresh
  <2>2. entry \in FileRow /\ entry.path = q.path
    BY <1>0 DEF FileRow
  <2> HIDE DEF entry
  <2>3. /\ file' \in [RowId -> FileRow \cup {Nothing}] /\ file'[i] = entry
        /\ \A j \in RowId \ {i} : file'[j] = file[j]
    BY <1>0, <2>1, <2>2
  <2>4. Files' \subseteq Files \cup {i} /\ r \in Adding
    BY <1>0, <1>3, <2>3 DEF Files, Adding
  <2>5. ASSUME NEW p \in Path \ {q.path}
        PROVE  Row(p)' = Row(p) /\ \A j \in Row(p) : file'[j] = file[j]
    <3>1. i \notin Row(p) /\ i \notin Row(p)'
      BY <2>1, <2>2, <2>3, <2>5 DEF Row
    <3>2. \A j \in RowId \ {i} : j \in Row(p) <=> j \in Row(p)'
      BY <2>3 DEF Row, Files
    <3>3. Row(p) \subseteq RowId /\ Row(p)' \subseteq RowId
      BY DEF Row, Files
    <3> QED  BY <2>3, <3>1, <3>2, <3>3
  <2>7. PICK new \in AnyRequest :
            /\ request' = [request EXCEPT ![r] = new] /\ new.op # "deploy"
            /\ new.at \notin {"list", "load", "snapshot", "done", "write"}
    BY <1>a, <1>3
  <2>8. {q.path} \in SUBSET Path
    BY <1>0
  <2> QED  BY <1>3, <2>3, <2>4, <2>5, <2>7, <2>8, TouchingStep
<1>4. CASE End(r) /\ Touch({}, q.alone) /\ file' = file
  <2>1. Files' = Files /\ \A p \in Path : Row(p)' = Row(p)
    BY <1>4 DEF Files, Row
  <2>2. {} \in SUBSET Path /\ file' \in [RowId -> FileRow \cup {Nothing}]
    BY <1>0, <1>4
  <2>3. PICK new \in AnyRequest :
            /\ request' = [request EXCEPT ![r] = new] /\ new.op # "deploy"
            /\ new.at \notin {"list", "load", "snapshot", "done", "write"}
    BY <1>a, <1>4
  <2> QED  BY <1>4, <2>1, <2>2, <2>3, TouchingStep
<1> QED  BY <1>2, <1>3, <1>4 DEF Write, Conflict

LEMMA MoveFileKeeps ==
  ASSUME AssetInv, NEW r \in Request, MoveFile(r)
  PROVE  AssetInv'
<1> DEFINE q == request[r]
           paths == {q.path, q.to} \cup (IF q.id \in Files THEN {file[q.id].path} ELSE {})
<1>0. /\ q.at = "move" /\ q.path \in Path /\ q.to \in Path /\ q.id \in RowId \cup {Nothing}
      /\ file \in [RowId -> FileRow \cup {Nothing}] /\ Nothing \notin RowId
  BY AssetConstants DEF MoveFile, In, AssetInv, AnyRequest, AssetConstants
<1>1. q.op # "deploy"
  BY <1>0 DEF AssetInv, DeployOK
<1>2. CASE End(r) /\ UNCHANGED <<file, touched>>
  BY <1>2, EndKeeps
<1>3. CASE /\ file' = [file EXCEPT ![q.id] = IF @ = Nothing THEN @ ELSE [@ EXCEPT !.path = q.to]]
           /\ Touch(paths, q.alone)
           /\ To(r, AfterMove(q)) \/ End(r)
  <2> DEFINE entry == IF file[q.id] = Nothing THEN Nothing ELSE [file[q.id] EXCEPT !.path = q.to]
  <2>1. file' = [file EXCEPT ![q.id] = entry]
    BY <1>3
  <2>2. q.id \in RowId => /\ entry \in FileRow \cup {Nothing}
                          /\ file[q.id] = Nothing => entry = Nothing
                          /\ file[q.id] # Nothing => entry.path = q.to
    BY <1>0 DEF FileRow
  <2> HIDE DEF entry
  <2>3. /\ file' \in [RowId -> FileRow \cup {Nothing}]
        /\ q.id \in RowId => file'[q.id] = entry
        /\ \A i \in RowId \ {q.id} : file'[i] = file[i]
    BY <1>0, <2>1, <2>2
  <2>4. Files' \subseteq Files
    BY <2>2, <2>3 DEF Files
  <2>5. ASSUME NEW p \in Path \ paths
        PROVE  Row(p)' = Row(p) /\ \A i \in Row(p) : file'[i] = file[i]
    <3>1. (q.id \in Files => file[q.id].path # p) /\ q.to # p
      BY <2>5
    <3>2. q.id \notin Row(p)
      BY <3>1 DEF Row
    <3>3. q.id \notin Row(p)'
      BY <2>2, <2>3, <3>1 DEF Row, Files
    <3>4. \A i \in RowId \ {q.id} : i \in Row(p) <=> i \in Row(p)'
      BY <2>3 DEF Row, Files
    <3>5. Row(p) \subseteq RowId /\ Row(p)' \subseteq RowId
      BY DEF Row, Files
    <3> QED  BY <2>3, <3>2, <3>3, <3>4, <3>5
  <2>6. paths \subseteq Path
    BY <1>0 DEF Files, FileRow
  <2>7. PICK new \in AnyRequest :
            /\ request' = [request EXCEPT ![r] = new] /\ new.op # "deploy"
            /\ new.at \notin {"list", "load", "snapshot", "done", "write"}
    <3>1. AfterMove(q) \in {"clear", "sync", "idle"}
      BY DEF AfterMove
    <3> HIDE DEF q
    <3> DEFINE step == AfterMove(q)
    <3>2. step \in AssetSteps /\ step \notin {"list", "load", "snapshot", "done", "write"}
      BY <3>1 DEF AssetSteps
    <3>3. request[r].op # "deploy" /\ (To(r, step) \/ End(r))
      BY <1>1, <1>3 DEF q
    <3> HIDE DEF step
    <3> QED  BY <3>2, <3>3, AfterTouch
  <2> HIDE DEF paths
  <2> QED  BY <1>3, <2>3, <2>4, <2>5, <2>6, <2>7, TouchingStep
<1>4. \/ End(r) /\ UNCHANGED <<file, touched>>
      \/ /\ file' = [file EXCEPT ![q.id] = IF @ = Nothing THEN @ ELSE [@ EXCEPT !.path = q.to]]
         /\ Touch(paths, q.alone)
         /\ To(r, AfterMove(q)) \/ End(r)
  BY DEF MoveFile
<1> QED  BY <1>2, <1>3, <1>4

LEMMA RemoveKeeps ==
  ASSUME AssetInv, NEW r \in Request, Remove(r)
  PROVE  AssetInv'
<1> DEFINE q == request[r]
<1>0. /\ q.at = "remove" /\ q.path \in Path /\ file \in [RowId -> FileRow \cup {Nothing}]
      /\ file' = [i \in RowId |-> IF i \in Row(q.path) THEN Nothing ELSE file[i]]
      /\ Touch({q.path}, q.alone)
      /\ To(r, "clear") \/ End(r)
  BY DEF Remove, In, AssetInv, AnyRequest
<1>1. q.op # "deploy"
  BY <1>0 DEF AssetInv, DeployOK
<1>2. /\ file' \in [RowId -> FileRow \cup {Nothing}] /\ Files' \subseteq Files
      /\ \A p \in Path \ {q.path} : Row(p)' = Row(p) /\ \A i \in Row(p) : file'[i] = file[i]
  BY <1>0 DEF Files, Row
<1>3. PICK new \in AnyRequest :
          /\ request' = [request EXCEPT ![r] = new] /\ new.op # "deploy"
          /\ new.at \notin {"list", "load", "snapshot", "done", "write"}
  BY <1>0, <1>1, AfterTouch DEF AssetSteps
<1>4. {q.path} \in SUBSET Path
  BY <1>0
<1> QED  BY <1>0, <1>2, <1>3, <1>4, TouchingStep

\* The steps of an edit that change no row.
LEMMA EditStepsKeep ==
  ASSUME AssetInv, NEW r \in Request,
         Find(r) \/ CheckCaps(r) \/ Sync(r) \/ CheckCollision(r) \/ Clear(r) \/ Leave(r)
  PROVE  AssetInv'
<1>0. request[r] \in AnyRequest /\ DeployOK(r)
  BY DEF AssetInv
<1>1. CASE Find(r)
  <2>1. PICK i \in IF Row(request[r].path) = {} THEN {Nothing} ELSE Row(request[r].path) :
            request' = [request EXCEPT ![r].at = "caps", ![r].id = i]
    BY <1>1 DEF Find
  <2> DEFINE new == [request[r] EXCEPT !.at = "caps", !.id = i]
  <2>2. i \in RowId \cup {Nothing}
    BY <2>1 DEF Row, Files
  <2>3. new \in AnyRequest /\ new.at = "caps" /\ new.op = request[r].op
    BY <1>0, <2>2 DEF AnyRequest, AssetSteps
  <2>4. request' = [request EXCEPT ![r] = new]
    BY <2>1 DEF AssetInv
  <2>5. request[r].op # "deploy" /\ file' = file /\ touched' = touched
    BY <1>0, <1>1 DEF Find, In, DeployOK
  <2> HIDE DEF new
  <2>6. request'[r] = new
    BY <2>4 DEF AssetInv
  <2>7. DeployOK(r)'
    BY <2>3, <2>5, <2>6, NoDeploy
  <2> QED  BY <2>3, <2>4, <2>5, <2>7, OwnStep
<1>2. CASE CheckCaps(r)
  <2>1. request[r].op # "deploy" /\ file' = file /\ touched' = touched
    BY <1>0, <1>2 DEF CheckCaps, In, DeployOK
  <2>2. CASE request[r].id = Nothing /\ Cardinality(Files) + 1 > MaxFiles
    BY <1>2, <2>1, <2>2, EndKeeps DEF CheckCaps
  <2>3. CASE ~(request[r].id = Nothing /\ Cardinality(Files) + 1 > MaxFiles)
    <3>1. To(r, "write")
      BY <1>2, <2>3 DEF CheckCaps
    <3>2. Files \in SUBSET RowId
      BY DEF Files
    <3>3. request[r].id = Nothing => Cardinality(Files) < MaxFiles
      BY <2>3, <3>2, FileSizes
    <3> QED  BY <2>1, <3>1, <3>3, ToKeeps DEF AssetSteps
  <2> QED  BY <2>2, <2>3
<1>3. CASE Sync(r) \/ Clear(r) \/ Leave(r)
  BY <1>3, EndKeeps DEF Sync, Clear, Leave
<1>4. CASE CheckCollision(r)
  <2>1. request[r].op # "deploy" /\ file' = file /\ touched' = touched
    BY <1>0, <1>4 DEF CheckCollision, In, DeployOK
  <2>2. To(r, "move") \/ End(r)
    BY <1>4 DEF CheckCollision
  <2> QED  BY <2>1, <2>2, ToKeeps, EndKeeps DEF AssetSteps
<1> QED  BY <1>1, <1>2, <1>3, <1>4

\* A request begins.
LEMMA StartsKeep ==
  ASSUME AssetInv, NEW r \in Request,
         \/ Publish(r)
         \/ \E c \in Content \cup {Nothing} : EditProfile(r, c)
         \/ \E p \in Path : \/ Delete(r, p)
                            \/ \E c \in Content : Put(r, p, c)
                            \/ \E to \in Path : RenameFile(r, p, to)
  PROVE  AssetInv'
<1>0. NoFiles \in Stored /\ README \in Path
  BY AssetConstants, RestingType DEF AssetConstants
<1> USE DEF Resting
<1>1. ASSUME Publish(r)
      PROVE  AssetInv'
  <2> DEFINE job == [Resting EXCEPT !.op = "deploy", !.at = "list"]
  <2>1. job \in AnyRequest /\ job.op = "deploy" /\ job.at = "list" /\ job.bundle = NoFiles /\ job.snap = NoFiles
    BY <1>0 DEF AnyRequest, AssetOps, AssetSteps
  <2>2. Begins(r, job)
    BY <1>1 DEF Publish
  <2> HIDE DEF job
  <2> QED  BY <2>1, <2>2, BeginsKeeps
<1>2. ASSUME NEW c \in Content \cup {Nothing}, EditProfile(r, c)
      PROVE  AssetInv'
  <2> DEFINE job == [Resting EXCEPT !.op = "profile", !.at = "profile", !.body = c]
  <2>1. job \in AnyRequest /\ job.op = "profile" /\ job.at = "profile" /\ job.bundle = NoFiles /\ job.snap = NoFiles
    BY <1>0 DEF AnyRequest, AssetOps, AssetSteps
  <2>2. Begins(r, job)
    BY <1>2 DEF EditProfile
  <2> HIDE DEF job
  <2> QED  BY <2>1, <2>2, BeginsKeeps
<1>3. ASSUME NEW p \in Path, Delete(r, p)
      PROVE  AssetInv'
  <2> DEFINE job == [Resting EXCEPT !.op = "delete", !.at = "remove", !.path = p]
  <2>1. job \in AnyRequest /\ job.op = "delete" /\ job.at = "remove" /\ job.bundle = NoFiles /\ job.snap = NoFiles
    BY <1>0 DEF AnyRequest, AssetOps, AssetSteps
  <2>2. Begins(r, job)
    BY <1>3 DEF Delete
  <2> HIDE DEF job
  <2> QED  BY <2>1, <2>2, BeginsKeeps
<1>4. ASSUME NEW p \in Path, NEW c \in Content, Put(r, p, c)
      PROVE  AssetInv'
  <2> DEFINE job == [Resting EXCEPT !.op = "put", !.at = "find", !.path = p, !.body = c]
  <2>1. job \in AnyRequest /\ job.op = "put" /\ job.at = "find" /\ job.bundle = NoFiles /\ job.snap = NoFiles
    BY <1>0 DEF AnyRequest, AssetOps, AssetSteps
  <2>2. Begins(r, job)
    BY <1>4 DEF Put
  <2> HIDE DEF job
  <2> QED  BY <2>1, <2>2, BeginsKeeps
<1>5. ASSUME NEW p \in Path, NEW to \in Path, RenameFile(r, p, to)
      PROVE  AssetInv'
  <2> DEFINE i == CHOOSE i \in Row(p) : TRUE
             body == ContentAt(p)
             job == [Resting EXCEPT !.op = "rename", !.at = "collision", !.path = p, !.to = to,
                                    !.id = i, !.body = body]
  <2>0. i \in RowId /\ body \in Content \cup {Nothing}
    <3>1. Row(p) # {}
      BY <1>5 DEF RenameFile
    <3>2. i \in Row(p)
      BY <3>1
    <3> QED  BY <3>2, ContentType DEF Row, Files, AssetInv
  <2>2. Begins(r, job)
    BY <1>5 DEF RenameFile
  <2> HIDE DEF i, body
  <2>1. job \in AnyRequest /\ job.op = "rename" /\ job.at = "collision" /\ job.bundle = NoFiles /\ job.snap = NoFiles
    BY <1>0, <2>0 DEF AnyRequest, AssetOps, AssetSteps
  <2> HIDE DEF job
  <2> QED  BY <2>1, <2>2, BeginsKeeps
<1> QED  BY <1>1, <1>2, <1>3, <1>4, <1>5

\* The deploy reads the list, each file and the snapshot.
LEMMA ListKeeps ==
  ASSUME AssetInv, NEW r \in Request, List(r)
  PROVE  AssetInv'
<1> DEFINE paths == {file[i].path : i \in Files}
           new == [request[r] EXCEPT !.at = "load", !.list = paths]
<1>0. /\ request[r] \in AnyRequest /\ DeployOK(r) /\ request[r].at = "list"
      /\ touched' = [touched EXCEPT ![r] = {}] /\ file' = file
  BY DEF AssetInv, List, In
<1>1. paths \in SUBSET Path
  BY DEF AssetInv, Files, FileRow
<1>2. request' = [request EXCEPT ![r] = new]
  BY DEF List, AssetInv
<1>3. \A p \in Path \ paths : ContentAt(p) = Nothing
  BY DEF ContentAt, Row
<1> HIDE DEF paths
<1>4. /\ new \in AnyRequest /\ new.at = "load" /\ new.op = request[r].op /\ new.list = paths
      /\ new.bundle = request[r].bundle /\ new.snap = request[r].snap
  BY <1>0, <1>1 DEF AnyRequest, AssetSteps
<1> HIDE DEF new
<1>5. /\ request' \in [Request -> AnyRequest] /\ request'[r] = new
      /\ \A s \in Request \ {r} : request'[s] = request[s]
  BY <1>2, <1>4 DEF AssetInv
<1>6. \A s \in Request \ {r} : Alike(s)
  BY <1>5 DEF Alike
<1>7. Files' = Files /\ \A p \in Path : ContentAt(p)' = ContentAt(p)
  BY <1>0 DEF Files, ContentAt, Row
<1>8. /\ touched' \in [Request -> SUBSET Path]
      /\ \A s \in Request \ {r} : touched'[s] = touched[s]
  BY <1>0 DEF AssetInv
<1>9. DeployOK(r)'
  <2>1. request[r].op = "deploy" /\ request[r].bundle = NoFiles /\ request[r].snap = NoFiles
    BY <1>0 DEF DeployOK
  <2>2. \A p \in Path \ paths : NoFiles[p] = ContentAt(p)'
    BY <1>3, <1>7 DEF NoFiles
  <2> QED  BY <1>4, <1>5, <2>1, <2>2 DEF DeployOK
<1>10. r \notin Adding' /\ file' \in [RowId -> FileRow \cup {Nothing}]
  BY <1>0, <1>4, <1>5 DEF Adding, AssetInv
<1> QED  BY <1>5, <1>6, <1>7, <1>8, <1>9, <1>10, AssetStep

LEMMA LoadKeeps ==
  ASSUME AssetInv, NEW r \in Request, NEW p \in Path, Load(r, p)
  PROVE  AssetInv'
<1> DEFINE body == ContentAt(p)
           new == [request[r] EXCEPT !.list = @ \ {p}, !.bundle[p] = body]
<1>0. /\ request[r] \in AnyRequest /\ DeployOK(r) /\ request[r].at = "load"
      /\ touched' = touched /\ file' = file
  BY DEF AssetInv, Load, In
<1>1. body \in Content \cup {Nothing}
  BY ContentType DEF AssetInv
<1>2. request' = [request EXCEPT ![r] = new]
  BY DEF Load, AssetInv
<1> HIDE DEF body
<1>4. /\ new \in AnyRequest /\ new.at = "load" /\ new.op = request[r].op /\ new.list = request[r].list \ {p}
      /\ new.snap = request[r].snap
      /\ new.bundle[p] = body /\ \A o \in Path \ {p} : new.bundle[o] = request[r].bundle[o]
  BY <1>0, <1>1 DEF AnyRequest, AssetSteps, Stored
<1> HIDE DEF new
<1>5. request'[r] = new
  BY <1>2 DEF AssetInv
<1>7. \A o \in Path : ContentAt(o)' = ContentAt(o)
  BY <1>0 DEF Files, ContentAt, Row
<1>9. DeployOK(r)'
  <2>1. request[r].op = "deploy" /\ request[r].snap = NoFiles
    BY <1>0 DEF DeployOK
  <2>2. ASSUME NEW o \in Path \ new.list
        PROVE  new.bundle[o] = ContentAt(o)' \/ o \in touched'[r]
    <3>1. CASE o = p
      BY <3>1, <1>4, <1>7 DEF body
    <3>2. CASE o # p
      <4>1. o \in Path \ request[r].list /\ o \in Path \ {p}
        BY <3>2, <1>4
      <4>2. request[r].bundle[o] = ContentAt(o) \/ o \in touched[r]
        BY <1>0, <4>1 DEF DeployOK
      <4> QED  BY <4>1, <4>2, <1>0, <1>4, <1>7
    <3> QED  BY <3>1, <3>2
  <2> QED  BY <1>4, <1>5, <2>1, <2>2 DEF DeployOK
<1> QED  BY <1>0, <1>2, <1>4, <1>9, OwnStep

LEMMA LoadedKeeps ==
  ASSUME AssetInv, NEW r \in Request, Loaded(r)
  PROVE  AssetInv'
<1> DEFINE to == IF request[r].bundle = NoFiles THEN "done" ELSE "snapshot"
           new == [request[r] EXCEPT !.at = to]
<1>0. /\ request[r] \in AnyRequest /\ DeployOK(r) /\ request[r].at = "load" /\ request[r].list = {}
      /\ touched' = touched /\ file' = file
  BY DEF AssetInv, Loaded, In
<1>1. /\ to \in {"done", "snapshot"} /\ to \in AssetSteps
      /\ to = "done" => request[r].bundle = NoFiles
  BY DEF AssetSteps
<1>2. request' = [request EXCEPT ![r] = new]
  BY DEF Loaded, To
<1> HIDE DEF to
<1>4. /\ new \in AnyRequest /\ new.at = to /\ new.op = request[r].op /\ new.list = request[r].list
      /\ new.bundle = request[r].bundle /\ new.snap = request[r].snap
  BY <1>0, <1>1 DEF AnyRequest
<1> HIDE DEF new
<1>5. request'[r] = new
  BY <1>2 DEF AssetInv
<1>7. \A o \in Path : ContentAt(o)' = ContentAt(o)
  BY <1>0 DEF Files, ContentAt, Row
<1>9. DeployOK(r)'
  BY <1>0, <1>1, <1>4, <1>5, <1>7 DEF DeployOK
<1> QED  BY <1>0, <1>1, <1>2, <1>4, <1>9, OwnStep

LEMMA SnapshotKeeps ==
  ASSUME AssetInv, NEW r \in Request, Snapshot(r)
  PROVE  AssetInv'
<1> DEFINE all == [p \in Path |-> ContentAt(p)]
           new == [request[r] EXCEPT !.at = "done", !.snap = all]
<1>0. /\ request[r] \in AnyRequest /\ DeployOK(r) /\ request[r].at = "snapshot"
      /\ touched' = touched /\ file' = file
  BY DEF AssetInv, Snapshot, In
<1>1. all \in Stored /\ \A p \in Path : all[p] = ContentAt(p)
  BY ContentType DEF AssetInv, Stored
<1>2. request' = [request EXCEPT ![r] = new]
  BY DEF Snapshot, AssetInv
<1> HIDE DEF all
<1>4. /\ new \in AnyRequest /\ new.at = "done" /\ new.op = request[r].op
      /\ new.bundle = request[r].bundle /\ new.snap = all
  BY <1>0, <1>1 DEF AnyRequest, AssetSteps
<1> HIDE DEF new
<1>5. request'[r] = new
  BY <1>2 DEF AssetInv
<1>9. DeployOK(r)'
  <2>1. request[r].op = "deploy" /\ request[r].list = {}
    BY <1>0 DEF DeployOK
  <2>2. \A p \in Path : request[r].bundle[p] = ContentAt(p) \/ p \in touched[r]
    BY <1>0, <2>1 DEF DeployOK
  <2> QED  BY <1>0, <1>1, <1>4, <1>5, <2>1, <2>2 DEF DeployOK
<1> QED  BY <1>0, <1>2, <1>4, <1>9, OwnStep

LEMMA AssetInitially == AssetInit => AssetInv
<1> SUFFICES ASSUME AssetInit PROVE AssetInv
  OBVIOUS
<1>1. Files = {} /\ Adding = {}
  BY RestingType DEF AssetInit, Files, Adding
<1>2. Cardinality({}) = 0 /\ Cardinality(Request) \in Nat \ {0} /\ MaxFiles \in Nat
  BY AssetConstants, FS_EmptySet, FS_CardinalityType DEF AssetConstants
<1>3. \A r \in Request : DeployOK(r)
  BY RestingType DEF AssetInit, DeployOK
<1>4. Cardinality(Files) + Cardinality(Adding) < MaxFiles + Cardinality(Request)
  BY <1>1, <1>2, AssetConstants DEF AssetConstants
<1> QED  BY <1>3, <1>4, RestingType DEF AssetInit, AssetInv

LEMMA AssetNextKeeps == AssetInv /\ [AssetNext]_assetVars => AssetInv'
<1> SUFFICES ASSUME AssetInv, [AssetNext]_assetVars PROVE AssetInv'
  OBVIOUS
<1>1. CASE UNCHANGED assetVars
  BY <1>1 DEF assetVars, AssetInv, Files, Adding, DeployOK, ContentAt, Row
<1>2. ASSUME NEW r \in Request, HandleFiles(r) PROVE AssetInv'
  BY <1>2, WriteProfileKeeps, WriteKeeps, MoveFileKeeps, RemoveKeeps, EditStepsKeep, StartsKeep,
     ListKeeps, LoadKeeps, LoadedKeeps, SnapshotKeeps DEF HandleFiles
<1> QED  BY <1>1, <1>2 DEF AssetNext

\* However uploads, renames, deletions and deploys interleave, the limit on a function's
\* files is exceeded by less than the number of requests.
THEOREM FilesCorrect == AssetSpec => []FilesOvershoot
<1>1. AssetInv => FilesOvershoot
  <2> SUFFICES ASSUME AssetInv PROVE FilesOvershoot
    OBVIOUS
  <2>1. Files \in SUBSET RowId /\ Adding \in SUBSET Request
    BY DEF Files, Adding
  <2>2. /\ Cardinality(Files) \in Nat /\ Cardinality(Adding) \in Nat /\ Cardinality(Request) \in Nat
        /\ MaxFiles \in Nat
    BY <2>1, FileSizes
  <2> QED  BY <2>2 DEF AssetInv, FilesOvershoot
<1> QED  BY AssetInitially, AssetNextKeeps, <1>1, PTL DEF AssetSpec

\* A version's snapshot and the bundle its deploy uploaded hold the same files, but for
\* those that were changed while the deploy read them.
THEOREM BundleCorrect == AssetSpec => []BundleIsSnapshot
<1>1. AssetInv => BundleIsSnapshot
  BY DEF AssetInv, DeployOK, BundleIsSnapshot, In
<1> QED  BY AssetInitially, AssetNextKeeps, <1>1, PTL DEF AssetSpec

-----------------------------------------------------------------------------
(* Assets: the profile's readme and README.md, which a writer changes one    *)
(* after the other.                                                          *)

\* What a request may hold at its step.
Shape(q) ==
    /\ q.op = "put" => q.at \in {"find", "caps", "write", "sync"}
    /\ q.op = "profile" =>
         /\ q.at \in {"profile", "find", "caps", "write", "sync", "remove", "clear"}
         /\ q.path = README
    /\ q.op = "rename" => q.at \in {"collision", "move", "clear", "sync"} /\ q.path # q.to /\ q.id # Nothing
    /\ q.op = "delete" => q.at \in {"remove", "clear"}
    /\ q.op = "deploy" => q.at \in {"list", "load", "snapshot", "done"}
    /\ q.at \in {"find", "caps", "write", "sync", "collision", "move"} => q.body \in Content

EditInv == AssetTypeOK /\ \A r \in Request : Shape(request[r])

\* A request that owes the profile or README.md its second half.
Owes(q) == q.at \in {"sync", "clear"} \/ (q.op = "profile" /\ q.at # "profile")
Owing == {r \in Request : Owes(request[r])}

\* What a request that is alone has read is still so.
Found(q) ==
    /\ q.at \in {"caps", "write"} => IF Row(q.path) = {} THEN q.id = Nothing ELSE q.id \in Row(q.path)
    /\ q.at \in {"collision", "move"} => q.id \in Row(q.path) /\ ContentAt(q.path) = q.body

\* The half it has written, or taken away, is README.md.
Due(q) ==
    /\ q.at = "sync" => ContentAt(README) = q.body
    /\ q.at = "clear" => Row(README) = {}

\* A profile that is to be given a file has none until it is written.
HalfDone(q) ==
    /\ Due(q)
    /\ q.op = "profile" /\ q.at \in {"caps", "write"} /\ q.id = Nothing => Row(README) = {}

\* A writer that is alone is the only one, and nothing moves under it.
AloneOK(r) ==
    r \in Writers /\ request[r].alone => Writers = {r} /\ Found(request[r]) /\ Due(request[r])

\* At most one request is between the two halves; between requests they agree.
Together ==
    /\ \A r, s \in Owing : r = s
    /\ \A r \in Owing : HalfDone(request[r])
    /\ Owing = {} => readme = Shown(ContentAt(README))

ReadmeInv == EditInv /\ (\A r \in Request : AloneOK(r)) /\ (apart \/ Together)

Anyone == Working \cup {Resting}

LEMMA Fields ==
  ASSUME NEW q \in Anyone
  PROVE  /\ q.op \in {"none", "put", "rename", "delete", "profile", "deploy"}
         /\ q.path \in Path /\ q.to \in Path /\ q.id \in RowId \cup {Nothing}
         /\ q.body \in Content \cup {Nothing} /\ q.alone \in BOOLEAN
         /\ q.at = "idle" <=> q.op = "none"
         /\ q.op = "none" <=> q = Resting
         /\ q.op # "none" => q \in Working
<1>1. CASE q \in Working
  <2>1. q.op # "none" /\ q.at # "idle" /\ q # Resting
    BY <1>1 DEF Working, Resting
  <2> QED  BY <1>1, <2>1 DEF Working
<1>2. CASE q = Resting
  BY <1>2, AssetConstants DEF AssetConstants, Resting
<1> QED  BY <1>1, <1>2 DEF Anyone

LEMMA Readmes ==
  ASSUME NEW body \in Content \cup {Nothing}
  PROVE  /\ Shown(body) \in Text \cup {Nothing} /\ Trimmed(body) \in Text \cup {Nothing}
         /\ Trimmed(body) # Nothing => body \in Content
  BY AssetConstants DEF AssetConstants, Shown, Trimmed

LEMMA RestingShape ==
  Resting \in Anyone /\ Shape(Resting) /\ ~Owes(Resting) /\ Resting.op = "none" /\ Resting.at = "idle"
  BY DEF Anyone, Resting, Shape, Owes

\* The only row of a path says what is at the path.
LEMMA RowSays ==
  ASSUME AssetTypeOK, NEW p \in Path, NEW i \in Row(p)
  PROVE  ContentAt(p) = file[i].content /\ Row(p) = {i} /\ i \in RowId /\ file[i] \in File /\ file[i].path = p
<1>1. (CHOOSE j \in Row(p) : TRUE) \in Row(p)
  OBVIOUS
<1>2. \A j \in Row(p) : j = i
  BY DEF AssetTypeOK
<1>3. i \in RowId /\ file[i] \in File /\ file[i].path = p
  BY DEF Row, Files, AssetTypeOK
<1> QED  BY <1>1, <1>2, <1>3 DEF ContentAt

\* One request has become `new`, the others are as they were.
Becomes(r, new) == request' = [request EXCEPT ![r] = new] /\ new \in Anyone /\ Shape(new)

LEMMA BecomesEdit ==
  ASSUME EditInv, NEW r \in Request, NEW new, Becomes(r, new),
         file' \in [RowId -> File \cup {Nothing}], readme' \in Text \cup {Nothing},
         apart' \in BOOLEAN, touched' \in [Request -> SUBSET Path],
         \A p \in Path : \A i, j \in Row(p)' : i = j
  PROVE  EditInv'
<1>1. /\ request' \in [Request -> Anyone] /\ request'[r] = new /\ Shape(new)
      /\ \A s \in Request \ {r} : request'[s] = request[s]
  BY DEF Becomes, EditInv, AssetTypeOK, Anyone
<1>2. \A s \in Request : Shape(request'[s])
  BY <1>1 DEF EditInv
<1> QED  BY <1>1, <1>2 DEF EditInv, AssetTypeOK, Anyone

\* A writer takes a step.  Either it is the only one that owes anything, or README.md and
\* the profile are not touched and it owes what it owed.
LEMMA WriterStep ==
  ASSUME ReadmeInv, EditInv', NEW r \in Request, NEW new, Becomes(r, new),
         request[r].op \notin {"none", "deploy"},
         new = Resting \/ (new.op = request[r].op /\ new.alone = request[r].alone),
         new # Resting /\ request[r].alone => Found(new)' /\ Due(new)',
         \/ apart'
         \/ /\ Owing \subseteq {r}
            /\ Owes(new) => HalfDone(new)'
            /\ ~Owes(new) => readme' = Shown(ContentAt(README))'
         \/ /\ ~apart
            /\ Owes(new) <=> Owes(request[r])
            /\ Owes(new) => HalfDone(new)'
            /\ Row(README)' = Row(README) /\ ContentAt(README)' = ContentAt(README) /\ readme' = readme
  PROVE  ReadmeInv'
<1>1. /\ request'[r] = new /\ new \in Anyone /\ \A s \in Request \ {r} : request'[s] = request[s]
      /\ \A s \in Request : request[s] \in Anyone
  BY DEF Becomes, ReadmeInv, EditInv, AssetTypeOK, Anyone
<1>2. r \in Writers
  BY DEF Writers
<1>3. /\ Writers' \subseteq Writers
      /\ \A s \in Request \ {r} : s \in Writers' <=> s \in Writers
      /\ new # Resting => r \in Writers'
      /\ Writers \subseteq Request /\ Writers' \subseteq Request
  BY <1>1, RestingShape, Fields DEF Writers
<1>4. ASSUME NEW s \in Request PROVE AloneOK(s)'
  <2>1. CASE s = r
    <3>1. CASE new = Resting
      BY <1>1, <2>1, <3>1, RestingShape DEF AloneOK, Writers
    <3>2. CASE new # Resting /\ ~request[r].alone
      BY <1>1, <2>1, <3>2 DEF AloneOK
    <3>3. CASE new # Resting /\ request[r].alone
      <4>1. Writers = {r}
        BY <1>2, <3>3 DEF ReadmeInv, AloneOK
      <4>2. Writers' = {r}
        BY <1>3, <3>3, <4>1
      <4>3. Found(new)' /\ Due(new)'
        BY <3>3
      <4>4. Found(request[s])' /\ Due(request[s])'
        BY <1>1, <2>1, <4>3 DEF Found, Due
      <4> QED  BY <2>1, <4>2, <4>4 DEF AloneOK
    <3> QED  BY <3>1, <3>2, <3>3
  <2>2. CASE s # r
    <3>1. s \in Writers => ~request[s].alone
      BY <1>2, <2>2 DEF ReadmeInv, AloneOK
    <3> QED  BY <1>1, <1>3, <2>2, <3>1 DEF AloneOK
  <2> QED  BY <2>1, <2>2
<1>5. \A s \in Request \ {r} : s \in Owing' <=> s \in Owing
  BY <1>1 DEF Owing
<1>6. (r \in Owing' <=> Owes(new)) /\ Owing \subseteq Request /\ Owing' \subseteq Request
  BY <1>1 DEF Owing
<1>7. CASE /\ Owing \subseteq {r}
           /\ Owes(new) => HalfDone(new)'
           /\ ~Owes(new) => readme' = Shown(ContentAt(README))'
  <2>1. Owing' \subseteq {r}
    BY <1>5, <1>6, <1>7
  <2>2. Owes(new) => HalfDone(request[r])'
    BY <1>1, <1>7 DEF HalfDone, Due
  <2> QED  BY <1>4, <1>6, <1>7, <2>1, <2>2 DEF ReadmeInv, Together
<1>8. CASE /\ ~apart
           /\ Owes(new) <=> Owes(request[r])
           /\ Owes(new) => HalfDone(new)'
           /\ Row(README)' = Row(README) /\ ContentAt(README)' = ContentAt(README) /\ readme' = readme
  <2>1. Owing' = Owing
    BY <1>5, <1>6, <1>8 DEF Owing
  <2>2. Together
    BY <1>8 DEF ReadmeInv
  <2>3. ASSUME NEW s \in Owing, s # r PROVE HalfDone(request[s])'
    <3>1. HalfDone(request[s]) /\ request'[s] = request[s]
      BY <1>1, <1>6, <2>2, <2>3 DEF Together
    <3> QED  BY <1>8, <3>1 DEF HalfDone, Due
  <2>4. r \in Owing => HalfDone(request[r])'
    BY <1>1, <1>6, <1>8, <2>1 DEF HalfDone, Due
  <2> QED  BY <1>4, <1>8, <2>1, <2>2, <2>3, <2>4 DEF ReadmeInv, Together
<1> QED  BY <1>4, <1>7, <1>8 DEF ReadmeInv

LEMMA OwingWrite == ASSUME EditInv PROVE Owing \subseteq Writers
<1> SUFFICES ASSUME NEW r \in Owing PROVE r \in Writers
  OBVIOUS
<1>1. request[r] \in Anyone /\ Shape(request[r]) /\ r \in Request /\ Owes(request[r])
  BY DEF EditInv, AssetTypeOK, Anyone, Owing
<1>2. request[r].op \notin {"none", "deploy"}
  BY <1>1, Fields, RestingShape DEF Owes, Shape
<1> QED  BY <1>1, <1>2 DEF Writers

\* What is known of the request that takes a step.
LEMMA Acting ==
  ASSUME ReadmeInv, NEW r \in Request
  PROVE  /\ EditInv /\ AssetTypeOK /\ request[r] \in Anyone /\ Shape(request[r])
         /\ request[r].op \notin {"none", "deploy"} /\ request[r].alone =>
              Owing \subseteq {r} /\ Found(request[r]) /\ Due(request[r])
         /\ ~apart /\ Owes(request[r]) => Owing = {r} /\ HalfDone(request[r])
         /\ ~apart /\ Owing = {} => readme = Shown(ContentAt(README))
<1>1. EditInv /\ AssetTypeOK /\ request[r] \in Anyone /\ Shape(request[r])
  BY DEF ReadmeInv, EditInv, AssetTypeOK, Anyone
<1>2. ASSUME request[r].op \notin {"none", "deploy"}, request[r].alone
      PROVE  Owing \subseteq {r} /\ Found(request[r]) /\ Due(request[r])
  <2>1. r \in Writers
    BY <1>2 DEF Writers
  <2>2. Writers = {r} /\ Found(request[r]) /\ Due(request[r])
    BY <1>2, <2>1 DEF ReadmeInv, AloneOK
  <2> QED  BY <1>1, <2>2, OwingWrite
<1>3. ASSUME ~apart, Owes(request[r])
      PROVE  Owing = {r} /\ HalfDone(request[r])
  <2>1. r \in Owing
    BY <1>3 DEF Owing
  <2> QED  BY <1>3, <2>1 DEF ReadmeInv, Together
<1> QED  BY <1>1, <1>2, <1>3 DEF ReadmeInv, Together

\* It goes on to another step.
LEMMA GoesOn ==
  ASSUME EditInv, NEW r \in Request, request[r].op # "none",
         NEW step \in {"find", "caps", "write", "move", "remove", "clear", "sync"}, To(r, step)
  PROVE  \E new \in Anyone :
            /\ request' = [request EXCEPT ![r] = new] /\ new.at = step
            /\ new.op = request[r].op /\ new.path = request[r].path /\ new.to = request[r].to
            /\ new.body = request[r].body /\ new.id = request[r].id /\ new.alone = request[r].alone
<1> DEFINE q == [request[r] EXCEPT !.at = step]
<1>1. /\ request' = [request EXCEPT ![r] = q]
  BY DEF To
<1>2. request[r] \in Working
  BY Fields DEF EditInv, AssetTypeOK, Anyone
<1>3. /\ q \in Anyone /\ q.at = step
      /\ q.op = request[r].op /\ q.path = request[r].path /\ q.to = request[r].to
      /\ q.body = request[r].body /\ q.id = request[r].id /\ q.alone = request[r].alone
  BY <1>2 DEF Working, Anyone
<1> HIDE DEF q
<1> QED  BY <1>1, <1>3 DEF q

LEMMA SameFiles ==
  ASSUME file' = file
  PROVE  /\ Files' = Files /\ \A p : Row(p)' = Row(p) /\ ContentAt(p)' = ContentAt(p)
         /\ \A q : (Found(q)' <=> Found(q)) /\ (Due(q)' <=> Due(q))
<1>1. Files' = Files /\ \A p : Row(p)' = Row(p) /\ ContentAt(p)' = ContentAt(p)
  BY DEF Files, Row, ContentAt
<1> QED  BY <1>1 DEF Found, Due

LEMMA WriteProfileTogether ==
  ASSUME ReadmeInv, NEW r \in Request, WriteProfile(r)
  PROVE  ReadmeInv'
<1> DEFINE q == request[r]
           step == IF Trimmed(q.body) = Nothing THEN "remove" ELSE "find"
<1>1. /\ q.at = "profile" /\ readme' = Trimmed(q.body) /\ To(r, step) /\ Touch({README}, q.alone) /\ file' = file
  BY DEF WriteProfile, In
<1>2. q \in Anyone /\ Shape(q) /\ EditInv /\ q.op = "profile" /\ q.path = README
  BY <1>1, Acting, Fields DEF Shape
<1>3. q.op # "none" /\ step \in {"remove", "find"}
  BY <1>2
<1>4. PICK new \in Anyone :
          /\ request' = [request EXCEPT ![r] = new] /\ new.at = step
          /\ new.op = q.op /\ new.path = q.path /\ new.body = q.body /\ new.alone = q.alone
  BY <1>1, <1>2, <1>3, GoesOn
<1>5. Becomes(r, new)
  <2>1. q.body \in Content \cup {Nothing} /\ q.op = new.op
    BY <1>2, <1>4, Fields
  <2>2. new.at = "find" => q.body \in Content
    BY <1>4, <2>1, Readmes
  <2> QED  BY <1>2, <1>3, <1>4, <2>1, <2>2 DEF Becomes, Shape
<1>6. apart' = (apart \/ ~q.alone) /\ touched' \in [Request -> SUBSET Path] /\ apart' \in BOOLEAN
  <2>1. README \in Path
    BY AssetConstants DEF AssetConstants
  <2> QED  BY <1>1, <1>2, <2>1, Fields DEF Touch, EditInv, AssetTypeOK
<1>7. EditInv'
  <2>1. readme' \in Text \cup {Nothing}
    BY <1>1, <1>2, Fields, Readmes
  <2> QED  BY <1>1, <1>2, <1>5, <1>6, <2>1, SameFiles, BecomesEdit DEF EditInv, AssetTypeOK
<1>8. new # Resting /\ Found(new)' /\ Due(new)' /\ HalfDone(new)' /\ Owes(new)
  BY <1>1, <1>2, <1>3, <1>4, RestingShape DEF Found, Due, HalfDone, Owes
<1>9. q.alone => Owing \subseteq {r}
  BY <1>2, Acting
<1> QED  BY <1>2, <1>4, <1>5, <1>6, <1>7, <1>8, <1>9, WriterStep

\* The steps that change neither the files nor the profile.
LEMMA LookingTogether ==
  ASSUME ReadmeInv, NEW r \in Request, Find(r) \/ CheckCaps(r) \/ CheckCollision(r)
  PROVE  ReadmeInv'
<1> DEFINE q == request[r]
<1>1. file' = file /\ readme' = readme /\ touched' = touched
  BY DEF Find, CheckCaps, CheckCollision
<1>2. /\ q \in Anyone /\ Shape(q) /\ EditInv /\ q.op \notin {"none", "deploy"}
      /\ q.at \in {"find", "caps"} => q.op \in {"put", "profile"}
      /\ q.at = "collision" => q.op = "rename"
      /\ q.at \in {"find", "caps", "collision"}
  BY Acting, Fields DEF Shape, Find, CheckCaps, CheckCollision, In
<1>e. ASSUME NEW new, Becomes(r, new), apart' \in BOOLEAN
      PROVE  EditInv'
  BY <1>1, <1>2, <1>e, SameFiles, BecomesEdit DEF EditInv, AssetTypeOK
<1>3. CASE Find(r)
  <2>1. PICK i \in IF Row(q.path) = {} THEN {Nothing} ELSE Row(q.path) :
            request' = [request EXCEPT ![r].at = "caps", ![r].id = i]
    BY <1>3 DEF Find
  <2>2. /\ i \in RowId \cup {Nothing} /\ q.at = "find" /\ apart' = apart
        /\ IF Row(q.path) = {} THEN i = Nothing ELSE i \in Row(q.path)
        /\ i = Nothing => Row(q.path) = {}
    BY <1>3, <2>1, AssetConstants DEF Find, In, Row, Files, AssetConstants
  <2>3. PICK new : new = [q EXCEPT !.at = "caps", !.id = i]
    OBVIOUS
  <2>4. q \in Working
    BY <1>2, Fields
  <2>5. /\ new \in Anyone /\ new.at = "caps" /\ new.id = i /\ new.op = q.op /\ new.path = q.path
        /\ new.to = q.to /\ new.body = q.body /\ new.alone = q.alone
    BY <2>2, <2>3, <2>4 DEF Working, Anyone
  <2>6. request' = [request EXCEPT ![r] = new]
    BY <2>1, <2>3 DEF EditInv, AssetTypeOK
  <2>7. Becomes(r, new)
    BY <1>2, <2>2, <2>5, <2>6 DEF Becomes, Shape
  <2>8. EditInv'
    BY <1>2, <1>e, <2>2, <2>7 DEF EditInv, AssetTypeOK
  <2>9. Found(new)' /\ Due(new)'
    BY <1>1, <2>2, <2>5, SameFiles DEF Found, Due
  <2>10. Owes(new) <=> Owes(q)
    BY <2>2, <2>5 DEF Owes
  <2>11. ~apart /\ Owes(new) => HalfDone(new)'
    <3>1. ASSUME ~apart, Owes(new) PROVE HalfDone(new)'
      <4>1. HalfDone(q) /\ q.op = "profile" /\ q.path = README
        BY <1>2, <2>2, <2>10, <3>1, Acting DEF Owes, Shape
      <4> QED  BY <1>1, <2>2, <2>5, <2>9, <4>1, SameFiles DEF HalfDone
    <3> QED  BY <3>1
  <2> QED  BY <1>1, <1>2, <2>2, <2>5, <2>7, <2>8, <2>9, <2>10, <2>11, SameFiles, WriterStep
<1>4. CASE /\ End(r) /\ apart' = (apart \/ q.op = "profile")
  <2>1. Becomes(r, Resting)
    BY <1>4, RestingShape DEF End, Becomes
  <2>2. EditInv'
    BY <1>2, <1>4, <1>e, <2>1 DEF EditInv, AssetTypeOK
  <2>3. q.op # "profile" => ~Owes(q)
    BY <1>2 DEF Owes
  <2> QED  BY <1>1, <1>2, <1>4, <2>1, <2>2, <2>3, RestingShape, SameFiles, WriterStep
<1>5. ASSUME NEW step, \/ q.at = "caps" /\ step = "write"
                       \/ q.at = "collision" /\ step = "move",
             To(r, step), apart' = apart
      PROVE  ReadmeInv'
  <2>1. PICK new \in Anyone :
          /\ request' = [request EXCEPT ![r] = new] /\ new.at = step
          /\ new.op = q.op /\ new.path = q.path /\ new.to = q.to /\ new.body = q.body
          /\ new.id = q.id /\ new.alone = q.alone
    <3>1. q.op # "none" /\ step \in {"write", "move"}
      BY <1>2, <1>5
    <3> QED  BY <1>2, <1>5, <3>1, GoesOn
  <2>2. Becomes(r, new)
    BY <1>2, <1>5, <2>1 DEF Becomes, Shape
  <2>3. EditInv'
    BY <1>2, <1>5, <1>e, <2>2 DEF EditInv, AssetTypeOK
  <2>4. (Found(q) => Found(new)') /\ (HalfDone(q) => HalfDone(new)') /\ (Owes(new) <=> Owes(q)) /\ Due(new)'
    BY <1>1, <1>5, <2>1, SameFiles DEF Found, HalfDone, Owes, Due
  <2>5. q.alone => Found(q)
    BY <1>2, Acting
  <2>6. ~apart /\ Owes(q) => HalfDone(q)
    BY Acting
  <2> QED  BY <1>1, <1>2, <1>5, <2>1, <2>2, <2>3, <2>4, <2>5, <2>6, SameFiles, WriterStep
<1>6. CASE CheckCaps(r)
  <2>1. q.at = "caps" /\ (\/ End(r) /\ apart' = (apart \/ q.op = "profile")
                          \/ To(r, "write") /\ apart' = apart)
    BY <1>6 DEF CheckCaps, In
  <2> QED  BY <1>4, <1>5, <2>1
<1>7. CASE CheckCollision(r)
  <2>1. q.at = "collision" /\ q.op = "rename" /\ apart' = apart /\ (End(r) \/ To(r, "move"))
    BY <1>2, <1>7 DEF CheckCollision, In
  <2>2. End(r) => apart' = (apart \/ q.op = "profile")
    BY <1>2, <2>1 DEF EditInv, AssetTypeOK
  <2> QED  BY <1>4, <1>5, <2>1, <2>2
<1> QED  BY <1>3, <1>6, <1>7

\* The second half: README.md and the profile are together again.
LEMMA SecondHalfTogether ==
  ASSUME ReadmeInv, NEW r \in Request, Sync(r) \/ Clear(r)
  PROVE  ReadmeInv'
<1> DEFINE q == request[r]
<1>1. /\ file' = file /\ touched' = touched /\ End(r) /\ apart' = (apart /\ ~q.alone)
      /\ \/ q.at = "sync" /\ readme' = Shown(q.body)
         \/ q.at = "clear" /\ readme' = Nothing
  BY DEF Sync, Clear, In
<1>2. q \in Anyone /\ Shape(q) /\ EditInv /\ q.op \notin {"none", "deploy"} /\ Owes(q)
  BY <1>1, Acting, Fields DEF Shape, Owes
<1>3. Becomes(r, Resting)
  BY <1>1, RestingShape DEF End, Becomes
<1>4. EditInv'
  <2>1. readme' \in Text \cup {Nothing}
    BY <1>1, <1>2, Fields, Readmes
  <2>2. apart' \in BOOLEAN
    BY <1>1, <1>2, Fields
  <2> QED  BY <1>1, <1>2, <1>3, <2>1, <2>2, SameFiles, BecomesEdit DEF EditInv, AssetTypeOK
<1>5. ~apart' => Owing \subseteq {r} /\ Due(q)
  <2>1. q.alone => Owing \subseteq {r} /\ Due(q)
    BY <1>2, Acting
  <2>2. ~apart => Owing \subseteq {r} /\ Due(q)
    BY <1>2, Acting DEF HalfDone
  <2> QED  BY <1>1, <2>1, <2>2
<1>6. Due(q) => readme' = Shown(ContentAt(README))'
  <2>1. ContentAt(README)' = ContentAt(README)
    BY <1>1, SameFiles
  <2>2. q.at = "clear" /\ Due(q) => ContentAt(README) = Nothing
    BY DEF Due, ContentAt
  <2>3. Shown(Nothing) = Nothing
    BY DEF Shown
  <2>4. q.at = "sync" /\ Due(q) => ContentAt(README) = q.body
    BY DEF Due
  <2>5. Shown(ContentAt(README))' = Shown(ContentAt(README))
    BY <2>1 DEF Shown
  <2> QED  BY <1>1, <2>2, <2>3, <2>4, <2>5
<1> QED  BY <1>2, <1>3, <1>4, <1>5, <1>6, RestingShape, WriterStep

\* A request that is no writer does anything with neither.
LEMMA ReaderStep ==
  ASSUME ReadmeInv, EditInv', NEW r \in Request, NEW new, Becomes(r, new),
         request[r].op \in {"none", "deploy"}, new.op \in {"none", "deploy"},
         file' = file, readme' = readme, apart' = apart
  PROVE  ReadmeInv'
<1>1. /\ request'[r] = new /\ new \in Anyone /\ \A s \in Request \ {r} : request'[s] = request[s]
  BY DEF Becomes, ReadmeInv, EditInv, AssetTypeOK, Anyone
<1>2. Writers' = Writers /\ r \notin Writers
  BY <1>1 DEF Writers
<1>3. r \notin Owing
  BY <1>2, OwingWrite DEF ReadmeInv
<1>4. r \notin Owing'
  <2>1. Shape(new)
    BY DEF Becomes
  <2>2. ~Owes(new)
    BY <1>1, <2>1, Fields, RestingShape DEF Shape, Owes
  <2> QED  BY <1>1, <2>2 DEF Owing
<1>5. Owing' = Owing
  BY <1>1, <1>3, <1>4 DEF Owing
<1>6. \A s \in Writers : request'[s] = request[s]
  BY <1>1, <1>2 DEF Writers
<1>7. \A s \in Request : AloneOK(s)'
  BY <1>2, <1>6, SameFiles DEF ReadmeInv, AloneOK
<1>8. Owing \subseteq Writers
  BY OwingWrite DEF ReadmeInv
<1>9. Together => Together'
  <2> SUFFICES ASSUME Together PROVE Together'
    OBVIOUS
  <2>1. ASSUME NEW s \in Owing PROVE HalfDone(request[s])'
    <3>1. HalfDone(request[s]) /\ request'[s] = request[s]
      BY <1>6, <1>8, <2>1 DEF Together
    <3> QED  BY <3>1, SameFiles DEF HalfDone
  <2> QED  BY <1>5, <2>1, SameFiles DEF Together
<1> QED  BY <1>7, <1>9 DEF ReadmeInv

LEMMA LeaveTogether ==
  ASSUME ReadmeInv, NEW r \in Request, Leave(r)
  PROVE  ReadmeInv'
<1> DEFINE q == request[r]
<1>1. /\ file' = file /\ touched' = touched /\ readme' = readme /\ End(r)
      /\ apart' = (apart \/ Owes(q))
  BY DEF Leave, In, Owes
<1>2. q \in Anyone /\ Shape(q) /\ EditInv
  BY Acting
<1>3. Becomes(r, Resting)
  BY <1>1, RestingShape DEF End, Becomes
<1>4. Owes(q) \in BOOLEAN
  BY DEF Owes
<1>5. EditInv'
  BY <1>1, <1>2, <1>3, <1>4, SameFiles, BecomesEdit DEF EditInv, AssetTypeOK
<1>6. CASE q.op \in {"none", "deploy"}
  <2>1. ~Owes(q)
    BY <1>2, <1>6, Fields, RestingShape DEF Shape, Owes
  <2>2. apart' = apart
    BY <1>1, <1>2, <2>1 DEF EditInv, AssetTypeOK
  <2> QED  BY <1>1, <1>3, <1>5, <1>6, <2>2, RestingShape, ReaderStep
<1>7. CASE q.op \notin {"none", "deploy"}
  BY <1>1, <1>3, <1>5, <1>7, SameFiles, RestingShape, WriterStep
<1> QED  BY <1>6, <1>7

\* The rows of some paths change.
LEMMA TouchedEdit ==
  ASSUME EditInv, NEW r \in Request, NEW paths \in SUBSET Path, Touch(paths, request[r].alone)
  PROVE  /\ touched' \in [Request -> SUBSET Path] /\ apart' \in BOOLEAN
         /\ apart' = (apart \/ (README \in paths /\ ~request[r].alone))
  BY Fields DEF Touch, EditInv, AssetTypeOK, Anyone

LEMMA RemoveTogether ==
  ASSUME ReadmeInv, NEW r \in Request, Remove(r)
  PROVE  ReadmeInv'
<1> DEFINE q == request[r]
<1>1. /\ q.at = "remove" /\ Touch({q.path}, q.alone) /\ readme' = readme
      /\ file' = [i \in RowId |-> IF i \in Row(q.path) THEN Nothing ELSE file[i]]
      /\ IF q.path = README THEN To(r, "clear") ELSE End(r)
  BY DEF Remove, In
<1>2. /\ q \in Anyone /\ Shape(q) /\ EditInv /\ q.op \in {"delete", "profile"} /\ q.path \in Path
      /\ AssetTypeOK
  BY <1>1, Acting, Fields DEF Shape
<1>p. PICK gone \in Path : gone = q.path
  BY <1>2
<1>3. /\ file' \in [RowId -> File \cup {Nothing}] /\ Row(gone)' = {}
      /\ \A p \in Path \ {gone} : Row(p)' = Row(p) /\ \A i \in Row(p) : file'[i] = file[i]
  <2>1. file \in [RowId -> File \cup {Nothing}]
    BY <1>2 DEF AssetTypeOK
  <2>2. file' \in [RowId -> File \cup {Nothing}]
    BY <1>1, <2>1
  <2>0. file' = [i \in RowId |-> IF i \in Row(gone) THEN Nothing ELSE file[i]]
    BY <1>1, <1>p
  <2>3. Row(gone)' = {}
    BY <2>0 DEF Row, Files
  <2>4. ASSUME NEW p \in Path \ {gone}
        PROVE  Row(p)' = Row(p) /\ \A i \in Row(p) : file'[i] = file[i]
    BY <2>0, <2>4 DEF Row, Files
  <2> QED  BY <2>2, <2>3, <2>4
<1>4. \A p \in Path : \A i, j \in Row(p)' : i = j
  <2>1. \A p \in Path : \A i, j \in Row(p) : i = j
    BY <1>2 DEF AssetTypeOK
  <2>2. ASSUME NEW p \in Path PROVE Row(p)' = {} \/ Row(p)' = Row(p)
    BY <1>3
  <2> QED  BY <2>1, <2>2
<1>5. PICK new \in Anyone :
          /\ request' = [request EXCEPT ![r] = new]
          /\ \/ new = Resting /\ q.path # README
             \/ /\ q.path = README /\ new.at = "clear" /\ new # Resting
                /\ new.op = q.op /\ new.path = q.path /\ new.to = q.to
                /\ new.body = q.body /\ new.id = q.id /\ new.alone = q.alone
  <2>1. CASE q.path = README
    <3>1. q.op # "none" /\ To(r, "clear")
      BY <1>1, <1>2, <2>1
    <3> QED  BY <1>2, <2>1, <3>1, GoesOn, RestingShape
  <2>2. CASE q.path # README
    BY <1>1, <2>2, RestingShape DEF End
  <2> QED  BY <2>1, <2>2
<1>6. Becomes(r, new)
  BY <1>2, <1>5, RestingShape DEF Becomes, Shape
<1>7. {q.path} \in SUBSET Path
  BY <1>2
<1>8. EditInv'
  BY <1>1, <1>2, <1>3, <1>4, <1>6, <1>7, TouchedEdit, BecomesEdit DEF EditInv, AssetTypeOK
<1>9. CASE q.path = README
  <2>1. new.at = "clear" /\ Row(README)' = {}
    BY <1>3, <1>5, <1>9, <1>p
  <2>2. Found(new)' /\ Due(new)' /\ HalfDone(new)' /\ Owes(new)
    BY <2>1 DEF Found, Due, HalfDone, Owes
  <2>3. q.alone => Owing \subseteq {r}
    BY <1>2, Acting
  <2>4. apart' = (apart \/ ~q.alone)
    BY <1>1, <1>2, <1>7, <1>9, TouchedEdit
  <2> QED  BY <1>2, <1>5, <1>6, <1>8, <2>2, <2>3, <2>4, WriterStep
<1>10. CASE q.path # README
  <2>1. new = Resting /\ q.op = "delete"
    BY <1>2, <1>5, <1>10 DEF Shape
  <2>2. Row(README)' = Row(README) /\ ContentAt(README)' = ContentAt(README)
    BY <1>3, <1>10, <1>p, ContentKept, AssetConstants DEF AssetConstants
  <2>3. ~Owes(q) /\ ~Owes(new) /\ q.op \notin {"none", "deploy"}
    BY <1>1, <2>1, RestingShape DEF Owes
  <2>4. apart => apart'
    BY <1>1, <1>2, <1>7, TouchedEdit
  <2> QED  BY <1>1, <1>6, <1>8, <2>1, <2>2, <2>3, <2>4, WriterStep
<1> QED  BY <1>9, <1>10

RowIs(i, new) == file' = [file EXCEPT ![i] = new]

\* What a write of rows leaves in place: the types, the unique index, and README.md if its
\* path is not among those touched.
LEMMA RowsKept ==
  ASSUME EditInv, NEW paths \in SUBSET Path, NEW i \in RowId, NEW new \in File \cup {Nothing},
         RowIs(i, new),
         file[i] # Nothing => file[i].path \in paths,
         new # Nothing => new.path \in paths /\ Row(new.path) \subseteq {i}
  PROVE  /\ file' \in [RowId -> File \cup {Nothing}]
         /\ \A p \in Path : \A j, k \in Row(p)' : j = k
         /\ \A p \in Path \ paths : Row(p)' = Row(p) /\ ContentAt(p)' = ContentAt(p)
         /\ \A p \in Path : Row(p)' = (Row(p) \ {i}) \cup (IF new # Nothing /\ new.path = p THEN {i} ELSE {})
<1>1. /\ file \in [RowId -> File \cup {Nothing}] /\ file' \in [RowId -> File \cup {Nothing}]
      /\ file'[i] = new /\ \A j \in RowId \ {i} : file'[j] = file[j]
      /\ \A p \in Path : \A j, k \in Row(p) : j = k
  BY DEF EditInv, AssetTypeOK, RowIs
<1>2. ASSUME NEW p \in Path
      PROVE  Row(p)' = (Row(p) \ {i}) \cup (IF new # Nothing /\ new.path = p THEN {i} ELSE {})
  <2>1. \A j \in RowId \ {i} : j \in Row(p)' <=> j \in Row(p)
    BY <1>1 DEF Row, Files
  <2>2. i \in Row(p)' <=> new # Nothing /\ new.path = p
    BY <1>1 DEF Row, Files
  <2>3. Row(p) \subseteq RowId /\ Row(p)' \subseteq RowId
    BY DEF Row, Files
  <2> QED  BY <2>1, <2>2, <2>3
<1>3. ASSUME NEW p \in Path, NEW j \in Row(p)', NEW k \in Row(p)' PROVE j = k
  <2>1. CASE new # Nothing /\ new.path = p
    BY <1>2, <1>3, <2>1
  <2>2. CASE ~(new # Nothing /\ new.path = p)
    BY <1>1, <1>2, <1>3, <2>2
  <2> QED  BY <2>1, <2>2
<1>4. ASSUME NEW p \in Path \ paths
      PROVE  Row(p)' = Row(p) /\ ContentAt(p)' = ContentAt(p)
  <2>1. i \notin Row(p)
    BY <1>4 DEF Row, Files
  <2>2. Row(p)' = Row(p)
    BY <1>2, <1>4, <2>1
  <2>3. \A j \in Row(p) : file'[j] = file[j]
    BY <1>1, <2>1 DEF Row, Files
  <2> QED  BY <2>2, <2>3, ContentKept
<1> QED  BY <1>1, <1>2, <1>3, <1>4

\* A writer has changed the rows of some paths.
LEMMA TouchTogether ==
  ASSUME ReadmeInv, NEW r \in Request, NEW new, Becomes(r, new), NEW paths \in SUBSET Path,
         request[r].op \notin {"none", "deploy"}, ~Owes(request[r]) \/ README \in paths,
         Touch(paths, request[r].alone), readme' = readme,
         file' \in [RowId -> File \cup {Nothing}],
         \A p \in Path : \A i, j \in Row(p)' : i = j,
         \A p \in Path \ paths : Row(p)' = Row(p) /\ ContentAt(p)' = ContentAt(p),
         \/ new = Resting
         \/ /\ new.op = request[r].op /\ new.alone = request[r].alone /\ new.at \in {"clear", "sync"}
            /\ README \in paths,
         new # Resting /\ request[r].alone => Due(new)',
         README \in paths /\ request[r].alone /\ new = Resting => readme = Shown(ContentAt(README))'
  PROVE  ReadmeInv'
<1>1. EditInv /\ AssetTypeOK
  BY Acting
<1>2. apart' = (apart \/ (README \in paths /\ ~request[r].alone))
  BY <1>1, TouchedEdit
<1>3. EditInv'
  BY <1>1, TouchedEdit, BecomesEdit DEF AssetTypeOK
<1>4. new # Resting => Owes(new) /\ (Due(new)' => Found(new)' /\ HalfDone(new)')
  BY DEF Owes, Due, Found, HalfDone
<1>5. request[r].alone => Owing \subseteq {r}
  BY Acting
<1>6. CASE README \notin paths
  <2>1. new = Resting /\ ~Owes(request[r]) /\ ~Owes(new)
    BY <1>6, RestingShape
  <2>2. Row(README)' = Row(README) /\ ContentAt(README)' = ContentAt(README)
    BY <1>6, AssetConstants DEF AssetConstants
  <2> QED  BY <1>2, <1>3, <2>1, <2>2, WriterStep
<1>7. CASE README \in paths
  <2>1. CASE ~request[r].alone
    BY <1>2, <1>3, <1>7, <2>1, WriterStep
  <2>2. CASE request[r].alone
    <3>1. CASE new = Resting
      BY <1>3, <1>5, <1>7, <2>2, <3>1, RestingShape, WriterStep
    <3>2. CASE new # Resting
      BY <1>3, <1>4, <1>5, <2>2, <3>2, WriterStep
    <3> QED  BY <3>1, <3>2
  <2> QED  BY <2>1, <2>2
<1> QED  BY <1>6, <1>7

LEMMA OnlyRow ==
  ASSUME NEW p \in Path, NEW i, Row(p)' = {i}
  PROVE  ContentAt(p)' = file'[i].content
  BY DEF ContentAt

LEMMA WriteTogether ==
  ASSUME ReadmeInv, NEW r \in Request, Write(r)
  PROVE  ReadmeInv'
<1>q. PICK q : q = request[r]
  OBVIOUS
<1>1. /\ q \in Working /\ Shape(q) /\ EditInv /\ q.op \in {"put", "profile"} /\ q.at = "write"
      /\ q.op \notin {"none", "deploy"} /\ AssetTypeOK
      /\ q.alone => Found(q)
      /\ q.op = "profile" => q.path = README
  BY <1>q, Acting, Fields DEF Shape, Write, In
<1>2. /\ q.path \in Path /\ q.body \in Content /\ q.id \in RowId \cup {Nothing} /\ readme' = readme
      /\ Nothing \notin RowId /\ Nothing \notin Content /\ README \in Path
      /\ file \in [RowId -> File \cup {Nothing}]
      /\ Nothing \notin File
  <2>1. Nothing \notin File
    BY AssetConstants DEF AssetConstants, File
  <2> QED  BY <1>1, <2>1, Fields, AssetConstants DEF Shape, Write, Anyone, AssetConstants, AssetTypeOK
<1>3. ~Owes(q) \/ q.path = README
  BY <1>1 DEF Owes
<1>4. ASSUME IF q.path = README THEN To(r, "sync") ELSE End(r)
      PROVE  \E new : /\ Becomes(r, new)
                      /\ \/ new = Resting /\ q.path # README
                         \/ /\ new # Resting /\ q.path = README /\ new.at = "sync"
                            /\ new.op = q.op /\ new.alone = q.alone /\ new.body = q.body
  <2>1. CASE q.path # README
    BY <1>4, <2>1, RestingShape DEF End, Becomes
  <2>2. CASE q.path = README
    <3>1. To(r, "sync") /\ q.op # "none"
      BY <1>1, <1>4, <2>2
    <3>2. PICK new \in Anyone :
            /\ request' = [request EXCEPT ![r] = new] /\ new.at = "sync"
            /\ new.op = q.op /\ new.path = q.path /\ new.to = q.to
            /\ new.body = q.body /\ new.id = q.id /\ new.alone = q.alone
      BY <1>1, <1>q, <3>1, GoesOn
    <3>3. Becomes(r, new) /\ new # Resting
      BY <1>1, <1>2, <3>2, RestingShape DEF Becomes, Shape
    <3> QED  BY <2>2, <3>2, <3>3
  <2> QED  BY <2>1, <2>2
<1>5. CASE /\ q.id # Nothing
           /\ file' = [file EXCEPT ![q.id] = IF @ = Nothing THEN @ ELSE [@ EXCEPT !.content = q.body]]
           /\ Touch({q.path} \cup (IF q.id \in Files THEN {file[q.id].path} ELSE {}), q.alone)
           /\ IF q.path = README THEN To(r, "sync") ELSE End(r)
  <2>1. PICK paths : paths = {q.path} \cup (IF q.id \in Files THEN {file[q.id].path} ELSE {})
    OBVIOUS
  <2>2. PICK entry : entry = IF file[q.id] = Nothing THEN Nothing ELSE [file[q.id] EXCEPT !.content = q.body]
    OBVIOUS
  <2>3. /\ q.id \in RowId /\ file' = [file EXCEPT ![q.id] = entry] /\ entry \in File \cup {Nothing}
        /\ file[q.id] # Nothing => entry # Nothing /\ entry.path = file[q.id].path /\ entry.content = q.body
        /\ entry # Nothing => file[q.id] # Nothing
    BY <1>2, <1>5, <2>2 DEF File
  <2>4. /\ paths \in SUBSET Path /\ q.path \in paths
        /\ file[q.id] # Nothing => q.id \in Files /\ file[q.id].path \in paths /\ q.id \in Row(file[q.id].path)
    BY <1>2, <2>1, <2>3 DEF Files, Row, File
  <2>5. entry # Nothing => entry.path \in paths /\ Row(entry.path) \subseteq {q.id}
    BY <1>1, <2>3, <2>4 DEF AssetTypeOK
  <2>6. /\ file' \in [RowId -> File \cup {Nothing}]
        /\ \A p \in Path : \A j, k \in Row(p)' : j = k
        /\ \A p \in Path \ paths : Row(p)' = Row(p) /\ ContentAt(p)' = ContentAt(p)
        /\ \A p \in Path : Row(p)' = (Row(p) \ {q.id}) \cup (IF entry # Nothing /\ entry.path = p THEN {q.id} ELSE {})
    <3>1. RowIs(q.id, entry)
      BY <2>3 DEF RowIs
    <3> QED  BY <3>1, <1>1, <1>2, <2>3, <2>4, <2>5, RowsKept
  <2>7. PICK new : /\ Becomes(r, new)
                   /\ \/ new = Resting /\ q.path # README
                      \/ /\ new # Resting /\ q.path = README /\ new.at = "sync"
                         /\ new.op = q.op /\ new.alone = q.alone /\ new.body = q.body
    BY <1>4, <1>5
  <2>8. ASSUME q.alone
        PROVE  q.id \in Row(q.path) /\ file[q.id] # Nothing /\ file[q.id].path = q.path
    BY <1>1, <1>5, <2>8 DEF Found, Row, Files
  <2>9. q.alone => paths = {q.path}
    BY <2>1, <2>8
  <2>10. new # Resting /\ q.alone => Due(new)'
    <3>1. ASSUME new # Resting, q.alone PROVE Due(new)'
      <4>1. Row(README)' = {q.id}
        BY <1>2, <2>3, <2>5, <2>6, <2>7, <2>8, <3>1
      <4>2. file'[q.id].content = q.body
        BY <1>2, <2>3, <2>8, <3>1
      <4>3. ContentAt(README)' = new.body
        BY <1>2, <2>7, <3>1, <4>1, <4>2, OnlyRow
      <4> QED  BY <2>7, <3>1, <4>3 DEF Due
    <3> QED  BY <3>1
  <2>11. Touch(paths, request[r].alone)
    BY <1>q, <1>5, <2>1
  <2> QED  BY <1>q, <1>1, <1>2, <1>3, <2>4, <2>6, <2>7, <2>9, <2>10, <2>11, TouchTogether
<1>6. CASE /\ q.id = Nothing /\ ~Conflict(q) /\ Fresh # {}
           /\ file' = [file EXCEPT ![CHOOSE i \in Fresh : TRUE] = [path |-> q.path, content |-> q.body]]
           /\ Touch({q.path}, q.alone)
           /\ IF q.path = README THEN To(r, "sync") ELSE End(r)
  <2>1. PICK i : i = CHOOSE j \in Fresh : TRUE
    OBVIOUS
  <2>2. i \in Fresh
    BY <1>6, <2>1
  <2>3. PICK entry : entry = [path |-> q.path, content |-> q.body]
    OBVIOUS
  <2>4. /\ i \in RowId /\ file[i] = Nothing /\ file' = [file EXCEPT ![i] = entry] /\ entry \in File
        /\ entry # Nothing /\ entry.path = q.path /\ entry.content = q.body
    BY <1>2, <1>6, <2>1, <2>2, <2>3 DEF Fresh, Files, File
  <2>5. Row(q.path) = {} /\ {q.path} \in SUBSET Path
    BY <1>2, <1>6 DEF Conflict
  <2>6. /\ file' \in [RowId -> File \cup {Nothing}]
        /\ \A p \in Path : \A j, k \in Row(p)' : j = k
        /\ \A p \in Path \ {q.path} : Row(p)' = Row(p) /\ ContentAt(p)' = ContentAt(p)
        /\ \A p \in Path : Row(p)' = (Row(p) \ {i}) \cup (IF entry # Nothing /\ entry.path = p THEN {i} ELSE {})
    <3>1. RowIs(i, entry)
      BY <2>4 DEF RowIs
    <3>2. PICK paths \in SUBSET Path : paths = {q.path}
      BY <2>5
    <3>3. entry # Nothing => entry.path \in paths /\ Row(entry.path) \subseteq {i}
      BY <2>4, <2>5, <3>2
    <3>4. file[i] # Nothing => file[i].path \in paths
      BY <2>4
    <3>5. entry \in File \cup {Nothing} /\ i \in RowId
      BY <2>4
    <3>6. EditInv
      BY <1>1
    <3>7. /\ file' \in [RowId -> File \cup {Nothing}]
          /\ \A p \in Path : \A j, k \in Row(p)' : j = k
          /\ \A p \in Path \ paths : Row(p)' = Row(p) /\ ContentAt(p)' = ContentAt(p)
          /\ \A p \in Path : Row(p)' = (Row(p) \ {i}) \cup (IF entry # Nothing /\ entry.path = p THEN {i} ELSE {})
      BY <3>1, <3>3, <3>4, <3>5, <3>6, RowsKept
    <3> QED  BY <3>2, <3>7
  <2>7. PICK new : /\ Becomes(r, new)
                   /\ \/ new = Resting /\ q.path # README
                      \/ /\ new # Resting /\ q.path = README /\ new.at = "sync"
                         /\ new.op = q.op /\ new.alone = q.alone /\ new.body = q.body
    BY <1>4, <1>6
  <2>8. new # Resting => Due(new)'
    <3>1. ASSUME new # Resting PROVE Due(new)'
      <4>1. Row(README)' = {i}
        BY <1>2, <2>4, <2>5, <2>6, <2>7, <3>1
      <4>2. file'[i].content = q.body
        BY <1>2, <2>4
      <4>3. ContentAt(README)' = new.body
        BY <1>2, <2>7, <3>1, <4>1, <4>2, OnlyRow
      <4> QED  BY <2>7, <3>1, <4>3 DEF Due
    <3> QED  BY <3>1
  <2>11. Touch({q.path}, request[r].alone)
    BY <1>q, <1>6
  <2> QED  BY <1>q, <1>1, <1>2, <1>3, <2>5, <2>6, <2>7, <2>8, <2>11, TouchTogether
<1>7. CASE Conflict(q) /\ End(r) /\ Touch({}, q.alone) /\ file' = file
  <2>1. Becomes(r, Resting)
    BY <1>7, RestingShape DEF End, Becomes
  <2>2. /\ apart' = apart /\ touched' \in [Request -> SUBSET Path] /\ apart' \in BOOLEAN
    <3>1. Touch({}, request[r].alone) /\ {} \in SUBSET Path
      BY <1>q, <1>7
    <3>2. /\ touched' \in [Request -> SUBSET Path] /\ apart' \in BOOLEAN
          /\ apart' = (apart \/ (README \in {} /\ ~request[r].alone))
      BY <1>1, <3>1, TouchedEdit
    <3>3. apart \in BOOLEAN
      BY <1>1 DEF EditInv, AssetTypeOK
    <3> QED  BY <3>2, <3>3
  <2>3. EditInv'
    BY <1>1, <1>2, <1>7, <2>1, <2>2, SameFiles, BecomesEdit DEF AssetTypeOK
  <2>4. ~apart => ~Owes(q)
    <3>1. ASSUME ~apart, Owes(q) PROVE FALSE
      <4>1. HalfDone(q) /\ q.op = "profile"
        BY <1>q, <1>1, <3>1, Acting DEF Owes
      <4> QED  BY <1>1, <1>7, <4>1 DEF HalfDone, Conflict
    <3> QED  BY <3>1
  <2> QED  BY <1>q, <1>1, <1>2, <1>7, <2>1, <2>2, <2>3, <2>4, RestingShape, SameFiles, WriterStep
<1> QED  BY <1>q, <1>5, <1>6, <1>7 DEF Write

LEMMA MoveTogether ==
  ASSUME ReadmeInv, NEW r \in Request, MoveFile(r)
  PROVE  ReadmeInv'
<1>q. PICK q : q = request[r]
  OBVIOUS
<1>1. /\ q \in Working /\ Shape(q) /\ EditInv /\ q.op = "rename" /\ q.at = "move" /\ AssetTypeOK
      /\ q.op \notin {"none", "deploy"}
      /\ q.alone => Found(q)
      /\ q.path # q.to /\ q.id # Nothing /\ ~Owes(q)
  BY <1>q, Acting, Fields DEF Shape, MoveFile, In, Owes
<1>2. /\ q.path \in Path /\ q.to \in Path /\ q.id \in RowId /\ readme' = readme
      /\ README \in Path /\ q.body \in Content
      /\ file \in [RowId -> File \cup {Nothing}] /\ Nothing \notin File
  <2>1. Nothing \notin File
    BY AssetConstants DEF AssetConstants, File
  <2> QED  BY <1>1, <2>1, Fields, AssetConstants DEF Shape, MoveFile, Anyone, AssetConstants, AssetTypeOK
<1>3. CASE End(r) /\ UNCHANGED <<file, apart, touched>>
  <2>1. Becomes(r, Resting)
    BY <1>3, RestingShape DEF End, Becomes
  <2>2. EditInv'
    BY <1>1, <1>2, <1>3, <2>1, SameFiles, BecomesEdit DEF AssetTypeOK
  <2> QED  BY <1>q, <1>1, <1>2, <1>3, <2>1, <2>2, RestingShape, SameFiles, WriterStep
<1>4. CASE /\ Row(q.to) \ {q.id} = {} \/ q.id \notin Files
           /\ file' = [file EXCEPT ![q.id] = IF @ = Nothing THEN @ ELSE [@ EXCEPT !.path = q.to]]
           /\ Touch({q.path, q.to} \cup (IF q.id \in Files THEN {file[q.id].path} ELSE {}), q.alone)
           /\ IF AfterMove(q) = "idle" THEN End(r) ELSE To(r, AfterMove(q))
  <2>1. PICK paths : paths = {q.path, q.to} \cup (IF q.id \in Files THEN {file[q.id].path} ELSE {})
    OBVIOUS
  <2>2. PICK entry : entry = IF file[q.id] = Nothing THEN Nothing ELSE [file[q.id] EXCEPT !.path = q.to]
    OBVIOUS
  <2>3. /\ file' = [file EXCEPT ![q.id] = entry] /\ entry \in File \cup {Nothing}
        /\ file[q.id] # Nothing => entry # Nothing /\ entry.path = q.to /\ entry.content = file[q.id].content
        /\ entry # Nothing => file[q.id] # Nothing
    BY <1>2, <1>4, <2>2 DEF File
  <2>4. /\ paths \in SUBSET Path /\ {q.path, q.to} \subseteq paths
        /\ file[q.id] # Nothing => q.id \in Files /\ file[q.id].path \in paths
    BY <1>2, <2>1, <2>3 DEF Files, File
  <2>5. entry # Nothing => entry.path \in paths /\ Row(entry.path) \subseteq {q.id}
    BY <1>4, <2>3, <2>4
  <2>6. /\ file' \in [RowId -> File \cup {Nothing}]
        /\ \A p \in Path : \A j, k \in Row(p)' : j = k
        /\ \A p \in Path \ paths : Row(p)' = Row(p) /\ ContentAt(p)' = ContentAt(p)
        /\ \A p \in Path : Row(p)' = (Row(p) \ {q.id}) \cup (IF entry # Nothing /\ entry.path = p THEN {q.id} ELSE {})
    <3>1. RowIs(q.id, entry)
      BY <2>3 DEF RowIs
    <3> QED  BY <3>1, <1>1, <1>2, <2>3, <2>4, <2>5, RowsKept
  <2>7. PICK new : /\ Becomes(r, new)
                   /\ \/ new = Resting /\ README \notin {q.path, q.to}
                      \/ /\ new # Resting /\ new.op = q.op /\ new.alone = q.alone /\ new.body = q.body
                         /\ \/ q.path = README /\ new.at = "clear"
                            \/ q.to = README /\ new.at = "sync"
    <3>1. CASE README \notin {q.path, q.to}
      <4>1. End(r)
        BY <1>4, <3>1 DEF AfterMove
      <4> QED  BY <3>1, <4>1, RestingShape DEF End, Becomes
    <3>2. ASSUME NEW step, To(r, step), \/ q.path = README /\ step = "clear"
                                        \/ q.to = README /\ step = "sync"
          PROVE  \E new : /\ Becomes(r, new)
                          /\ new # Resting /\ new.op = q.op /\ new.alone = q.alone /\ new.body = q.body
                          /\ \/ q.path = README /\ new.at = "clear"
                             \/ q.to = README /\ new.at = "sync"
      <4>1. q.op # "none" /\ step \in {"clear", "sync"}
        BY <1>1, <3>2
      <4>2. PICK new \in Anyone :
            /\ request' = [request EXCEPT ![r] = new] /\ new.at = step
            /\ new.op = q.op /\ new.path = q.path /\ new.to = q.to
            /\ new.body = q.body /\ new.id = q.id /\ new.alone = q.alone
        BY <1>1, <1>q, <3>2, <4>1, GoesOn
      <4>3. Becomes(r, new) /\ new # Resting
        BY <1>1, <1>2, <4>1, <4>2, RestingShape DEF Becomes, Shape
      <4> QED  BY <3>2, <4>2, <4>3
    <3>3. CASE q.path = README
      <4>1. To(r, "clear")
        BY <1>4, <3>3 DEF AfterMove
      <4> QED  BY <3>2, <3>3, <4>1
    <3>4. CASE q.to = README
      <4>1. To(r, "sync")
        BY <1>1, <1>4, <3>4 DEF AfterMove
      <4> QED  BY <3>2, <3>4, <4>1
    <3> QED  BY <3>1, <3>3, <3>4
  <2>8. ASSUME q.alone
        PROVE  /\ Row(q.path) = {q.id} /\ file[q.id] # Nothing /\ file[q.id].path = q.path
               /\ file[q.id].content = q.body
    <3>1. q.id \in Row(q.path) /\ ContentAt(q.path) = q.body
      BY <1>1, <2>8 DEF Found
    <3>2. ContentAt(q.path) = file[q.id].content /\ Row(q.path) = {q.id} /\ file[q.id].path = q.path
      BY <1>1, <1>2, <3>1, RowSays
    <3> QED  BY <3>1, <3>2 DEF Row, Files
  <2>9. q.alone => paths = {q.path, q.to}
    BY <2>1, <2>8
  <2>10. new # Resting /\ q.alone => Due(new)'
    <3>1. CASE q.alone /\ q.path = README /\ new.at = "clear"
      <4>1. Row(README)' = {}
        BY <1>1, <1>2, <2>3, <2>6, <2>8, <3>1
      <4> QED  BY <3>1, <4>1 DEF Due
    <3>2. CASE q.alone /\ q.to = README /\ new.at = "sync" /\ new.body = q.body
      <4>1. Row(README)' = {q.id}
        BY <1>2, <2>3, <2>5, <2>6, <2>8, <3>2
      <4>2. file'[q.id].content = q.body
        BY <1>2, <2>3, <2>8, <3>2
      <4>3. ContentAt(README)' = new.body
        BY <1>2, <3>2, <4>1, <4>2, OnlyRow
      <4> QED  BY <3>2, <4>3 DEF Due
    <3> QED  BY <2>7, <3>1, <3>2
  <2>11. Touch(paths, request[r].alone)
    BY <1>q, <1>4, <2>1
  <2> QED  BY <1>q, <1>1, <1>2, <2>4, <2>6, <2>7, <2>9, <2>10, <2>11, TouchTogether
<1> QED  BY <1>q, <1>3, <1>4 DEF MoveFile

\* A request that begins owes nothing, and the others are not alone any more.
LEMMA BeginsTogether ==
  ASSUME ReadmeInv, NEW r \in Request, NEW job \in Working, Begins(r, job), Shape(job), ~Owes(job),
         job.at \notin {"caps", "write", "move"},
         job.at = "collision" => job.id \in Row(job.path) /\ ContentAt(job.path) = job.body
  PROVE  ReadmeInv'
<1>1. /\ request[r].at = "idle" /\ file' = file /\ readme' = readme /\ apart' = apart /\ touched' = touched
      /\ request' = [q \in Request |->
                    IF q = r THEN [job EXCEPT !.alone = (Writers = {})]
                    ELSE IF q \in Writers THEN [request[q] EXCEPT !.alone = FALSE] ELSE request[q]]
  BY DEF Begins, In
<1>2. /\ EditInv /\ AssetTypeOK /\ \A s \in Request : request[s] \in Anyone /\ Shape(request[s])
  BY DEF ReadmeInv, EditInv, AssetTypeOK, Anyone
<1>3. r \notin Writers /\ r \notin Owing
  BY <1>1, <1>2, Fields, OwingWrite DEF Writers
<1>n. PICK none \in BOOLEAN : none = (Writers = {})
  <2>1. (Writers = {}) \in BOOLEAN
    OBVIOUS
  <2> QED  BY <2>1
<1>4. /\ request'[r] \in Working /\ request'[r].op = job.op /\ request'[r].at = job.at
      /\ request'[r].path = job.path /\ request'[r].to = job.to /\ request'[r].id = job.id
      /\ request'[r].body = job.body /\ request'[r].alone = none
  <2>1. request'[r] = [job EXCEPT !.alone = none]
    BY <1>1, <1>n
  <2> QED  BY <2>1 DEF Working
<1>5. ASSUME NEW s \in Request, s # r
      PROVE  /\ request'[s] \in Anyone /\ request'[s].op = request[s].op /\ request'[s].at = request[s].at
             /\ request'[s].path = request[s].path /\ request'[s].to = request[s].to
             /\ request'[s].id = request[s].id /\ request'[s].body = request[s].body
             /\ s \in Writers => ~request'[s].alone
  <2>1. CASE s \in Writers
    <3>1. request'[s] = [request[s] EXCEPT !.alone = FALSE] /\ request[s] \in Working
      BY <1>1, <1>2, <1>5, <2>1, Fields DEF Writers
    <3> QED  BY <3>1 DEF Working, Anyone
  <2>2. CASE s \notin Writers
    <3>1. request'[s] = request[s]
      BY <1>1, <1>5, <2>2
    <3> QED  BY <1>2, <2>2, <3>1
  <2> QED  BY <2>1, <2>2
<1>6. Shape(job) <=> Shape(request[r])'
  BY <1>4 DEF Shape
<1>7. ASSUME NEW s \in Request, s # r
      PROVE  Shape(request[s])' /\ (Owes(request[s])' <=> Owes(request[s])) /\ (HalfDone(request[s]) => HalfDone(request[s])')
  <2>1. Shape(request[s])'
    BY <1>2, <1>5, <1>7 DEF Shape
  <2>2. Owes(request[s])' <=> Owes(request[s])
    BY <1>5, <1>7 DEF Owes
  <2>3. HalfDone(request[s]) => HalfDone(request[s])'
    BY <1>1, <1>5, <1>7, SameFiles DEF HalfDone, Due
  <2> QED  BY <2>1, <2>2, <2>3
<1>8. EditInv'
  <2>1. request' \in [Request -> Working \cup {Resting}]
    BY <1>1, <1>4, <1>5 DEF Anyone
  <2>2. \A s \in Request : Shape(request[s])'
    BY <1>6, <1>7
  <2> QED  BY <1>1, <1>2, <2>1, <2>2, SameFiles DEF EditInv, AssetTypeOK
<1>9. Writers' = IF job.op = "deploy" THEN Writers ELSE Writers \cup {r}
  <2>1. job.op # "none"
    BY DEF Working
  <2>2. \A s \in Request \ {r} : s \in Writers' <=> s \in Writers
    BY <1>5 DEF Writers
  <2>3. r \in Writers' <=> job.op # "deploy"
    BY <1>4, <2>1 DEF Writers
  <2>4. Writers \subseteq Request /\ Writers' \subseteq Request
    BY DEF Writers
  <2> QED  BY <1>3, <2>2, <2>3, <2>4
<1>10. ASSUME NEW s \in Request PROVE AloneOK(s)'
  <2>1. CASE s = r
    <3>1. ASSUME none, job.op # "deploy" PROVE Writers' = {r} /\ Found(request[r])' /\ Due(request[r])'
      <4>1. Writers' = {r}
        BY <1>n, <1>9, <3>1
      <4>2. Found(request[r])' /\ Due(request[r])'
        BY <1>1, <1>4, SameFiles DEF Found, Due, Owes
      <4> QED  BY <4>1, <4>2
    <3> QED  BY <1>3, <1>4, <1>9, <2>1, <3>1 DEF AloneOK
  <2>2. CASE s # r
    BY <1>5, <1>9, <2>2 DEF AloneOK
  <2> QED  BY <2>1, <2>2
<1>11. Owing' = Owing
  <2>1. r \notin Owing'
    BY <1>4 DEF Owing, Owes
  <2>2. Owing \subseteq Request /\ Owing' \subseteq Request /\ \A s \in Request \ {r} : s \in Owing' <=> s \in Owing
    BY <1>7 DEF Owing
  <2> QED  BY <1>3, <2>1, <2>2
<1>12. Together => Together'
  <2> SUFFICES ASSUME Together PROVE Together'
    OBVIOUS
  <2>1. ASSUME NEW s \in Owing PROVE HalfDone(request[s])'
    <3>1. s \in Request /\ s # r /\ HalfDone(request[s])
      BY <1>3, <2>1 DEF Together, Owing
    <3> QED  BY <1>7, <3>1
  <2> QED  BY <1>1, <1>11, <2>1, SameFiles DEF Together
<1> QED  BY <1>1, <1>8, <1>10, <1>12 DEF ReadmeInv

LEMMA StartsTogether ==
  ASSUME ReadmeInv, NEW r \in Request,
         \/ Publish(r)
         \/ \E c \in Content \cup {Nothing} : EditProfile(r, c)
         \/ \E p \in Path : \/ Delete(r, p)
                            \/ \E c \in Content : Put(r, p, c)
                            \/ \E to \in Path : RenameFile(r, p, to)
  PROVE  ReadmeInv'
<1>0. README \in Path /\ NoFiles \in Stored /\ AssetTypeOK /\ Nothing \notin RowId
  BY AssetConstants, Acting DEF AssetConstants, NoFiles, Stored
<1> DEFINE Begun == \E job \in Working :
              /\ Begins(r, job) /\ Shape(job) /\ ~Owes(job) /\ job.at \notin {"caps", "write", "move"}
              /\ job.at = "collision" => job.id \in Row(job.path) /\ ContentAt(job.path) = job.body
<1>1. ASSUME Publish(r) PROVE Begun
  <2> DEFINE job == [Resting EXCEPT !.op = "deploy", !.at = "list"]
  <2>1. job \in Working /\ Shape(job) /\ ~Owes(job) /\ job.at \notin {"caps", "write", "move", "collision"}
    BY <1>0 DEF Working, Resting, Shape, Owes
  <2>2. Begins(r, job)
    BY <1>1 DEF Publish
  <2> HIDE DEF job
  <2> QED  BY <2>1, <2>2
<1>2. ASSUME NEW c \in Content \cup {Nothing}, EditProfile(r, c) PROVE Begun
  <2> DEFINE job == [Resting EXCEPT !.op = "profile", !.at = "profile", !.body = c]
  <2>1. job \in Working /\ Shape(job) /\ ~Owes(job) /\ job.at \notin {"caps", "write", "move", "collision"}
    BY <1>0 DEF Working, Resting, Shape, Owes
  <2>2. Begins(r, job)
    BY <1>2 DEF EditProfile
  <2> HIDE DEF job
  <2> QED  BY <2>1, <2>2
<1>3. ASSUME NEW p \in Path, Delete(r, p) PROVE Begun
  <2> DEFINE job == [Resting EXCEPT !.op = "delete", !.at = "remove", !.path = p]
  <2>1. job \in Working /\ Shape(job) /\ ~Owes(job) /\ job.at \notin {"caps", "write", "move", "collision"}
    BY <1>0 DEF Working, Resting, Shape, Owes
  <2>2. Begins(r, job)
    BY <1>3 DEF Delete
  <2> HIDE DEF job
  <2> QED  BY <2>1, <2>2
<1>4. ASSUME NEW p \in Path, NEW c \in Content, Put(r, p, c) PROVE Begun
  <2> DEFINE job == [Resting EXCEPT !.op = "put", !.at = "find", !.path = p, !.body = c]
  <2>1. job \in Working /\ Shape(job) /\ ~Owes(job) /\ job.at \notin {"caps", "write", "move", "collision"}
    BY <1>0 DEF Working, Resting, Shape, Owes
  <2>2. Begins(r, job)
    BY <1>4 DEF Put
  <2> HIDE DEF job
  <2> QED  BY <2>1, <2>2
<1>5. ASSUME NEW p \in Path, NEW to \in Path, RenameFile(r, p, to) PROVE Begun
  <2>1. PICK i : i = CHOOSE j \in Row(p) : TRUE
    OBVIOUS
  <2>2. PICK body : body = ContentAt(p)
    OBVIOUS
  <2>3. p # to /\ i \in Row(p)
    BY <1>5, <2>1 DEF RenameFile
  <2>4. i \in RowId /\ body \in Content
    BY <1>0, <2>2, <2>3, RowSays DEF File
  <2> DEFINE job == [Resting EXCEPT !.op = "rename", !.at = "collision", !.path = p, !.to = to,
                                    !.id = i, !.body = body]
  <2>5. /\ job \in Working /\ Shape(job) /\ ~Owes(job) /\ job.at \notin {"caps", "write", "move"}
        /\ job.id = i /\ job.path = p /\ job.body = body
    BY <1>0, <2>3, <2>4 DEF Working, Resting, Shape, Owes
  <2>6. Begins(r, job)
    BY <1>5, <2>1, <2>2 DEF RenameFile
  <2> HIDE DEF job
  <2> QED  BY <2>2, <2>3, <2>5, <2>6
<1>6. Begun
  BY <1>1, <1>2, <1>3, <1>4, <1>5
<1> QED  BY <1>6, BeginsTogether

\* A deploy only reads.
LEMMA ReadingTogether ==
  ASSUME ReadmeInv, NEW r \in Request,
         List(r) \/ Loaded(r) \/ Snapshot(r) \/ \E p \in Path : Load(r, p)
  PROVE  ReadmeInv'
<1> DEFINE q == request[r]
<1>1. /\ q.at \in {"list", "load", "snapshot"} /\ file' = file /\ readme' = readme /\ apart' = apart
      /\ touched' \in [Request -> SUBSET Path]
  BY Acting DEF List, Loaded, Snapshot, Load, In, AssetTypeOK
<1>2. /\ EditInv /\ AssetTypeOK /\ q \in Working /\ q.op = "deploy"
  BY <1>1, Acting, Fields DEF Shape
<1>3. ASSUME NEW place \in {"load", "snapshot", "done"}, NEW list \in SUBSET Path,
             NEW bundle \in Stored, NEW snap \in Stored, NEW new,
             new = [q EXCEPT !.at = place, !.list = list, !.bundle = bundle, !.snap = snap],
             request' = [request EXCEPT ![r] = new]
      PROVE  ReadmeInv'
  <2>1. new \in Working /\ new.op = "deploy" /\ new.at = place
    BY <1>2, <1>3 DEF Working
  <2>2. Becomes(r, new)
    BY <1>3, <2>1 DEF Becomes, Shape, Anyone
  <2>3. EditInv'
    BY <1>1, <1>2, <2>2, SameFiles, BecomesEdit DEF AssetTypeOK
  <2> QED  BY <1>1, <1>2, <2>1, <2>2, <2>3, ReaderStep
<1>c. ASSUME NEW p \in Path PROVE ContentAt(p) \in Content \cup {Nothing}
  <2>1. CASE Row(p) = {}
    BY <2>1 DEF ContentAt
  <2>2. ASSUME NEW i \in Row(p) PROVE ContentAt(p) \in Content
    BY <1>2, <2>2, RowSays DEF File
  <2> QED  BY <2>1, <2>2
<1>t. q.list \in SUBSET Path /\ q.bundle \in Stored /\ q.snap \in Stored
  BY <1>2 DEF Working
<1>4. CASE List(r)
  <2>1. PICK paths : paths = {file[i].path : i \in Files}
    OBVIOUS
  <2>2. paths \in SUBSET Path
    BY <1>2, <2>1 DEF AssetTypeOK, Files, File
  <2>3. PICK new : new = [q EXCEPT !.at = "load", !.list = paths]
    OBVIOUS
  <2>4. request' = [request EXCEPT ![r] = new]
    BY <1>4, <2>1, <2>3 DEF List, AssetTypeOK
  <2>5. new = [q EXCEPT !.at = "load", !.list = paths, !.bundle = q.bundle, !.snap = q.snap]
    BY <1>2, <2>3 DEF Working
  <2> QED  BY <1>3, <1>t, <2>2, <2>4, <2>5
<1>5. CASE Loaded(r)
  <2>1. PICK step \in {"done", "snapshot"} : To(r, step)
    BY <1>5 DEF Loaded
  <2>2. PICK new : new = [q EXCEPT !.at = step]
    OBVIOUS
  <2>3. request' = [request EXCEPT ![r] = new]
    BY <2>1, <2>2 DEF To, AssetTypeOK
  <2>4. new = [q EXCEPT !.at = step, !.list = q.list, !.bundle = q.bundle, !.snap = q.snap]
    BY <1>2, <2>2 DEF Working
  <2> QED  BY <1>3, <1>t, <2>3, <2>4
<1>6. CASE Snapshot(r)
  <2>1. PICK all : all = [p \in Path |-> ContentAt(p)]
    OBVIOUS
  <2>2. all \in Stored
    BY <1>c, <2>1 DEF Stored
  <2>3. PICK new : new = [q EXCEPT !.at = "done", !.snap = all]
    OBVIOUS
  <2>4. request' = [request EXCEPT ![r] = new]
    BY <1>2, <1>6, <2>1, <2>3 DEF Snapshot, AssetTypeOK
  <2>5. new = [q EXCEPT !.at = "done", !.list = q.list, !.bundle = q.bundle, !.snap = all]
    BY <1>2, <2>3 DEF Working
  <2> QED  BY <1>3, <1>t, <2>2, <2>4, <2>5
<1>7. ASSUME NEW p \in Path, Load(r, p) PROVE ReadmeInv'
  <2>1. PICK body : body = ContentAt(p)
    OBVIOUS
  <2>2. PICK bundle : bundle = [q.bundle EXCEPT ![p] = body]
    OBVIOUS
  <2>3. bundle \in Stored
    BY <1>c, <1>t, <2>1, <2>2 DEF Stored
  <2>4. PICK list \in SUBSET Path : list = q.list \ {p}
    BY <1>t
  <2>5. PICK new : new = [q EXCEPT !.list = @ \ {p}, !.bundle[p] = body]
    OBVIOUS
  <2>6. request' = [request EXCEPT ![r] = new] /\ q.at = "load"
    <3>1. request \in [Request -> Anyone]
      BY <1>2 DEF AssetTypeOK, Anyone
    <3>2. request' = [request EXCEPT ![r].list = @ \ {p}, ![r].bundle[p] = ContentAt(p)]
      BY <1>7 DEF Load
    <3>3. request' = [request EXCEPT ![r] = [request[r] EXCEPT !.list = @ \ {p}, !.bundle[p] = ContentAt(p)]]
      BY ONLY <3>1, <3>2, r \in Request
    <3> QED  BY <1>7, <2>1, <2>5, <3>3 DEF Load, In
  <2>7. new = [q EXCEPT !.at = "load", !.list = list, !.bundle = bundle, !.snap = q.snap]
    BY <1>2, <2>2, <2>4, <2>5, <2>6 DEF Working
  <2> QED  BY <1>3, <1>t, <2>3, <2>6, <2>7
<1> QED  BY <1>4, <1>5, <1>6, <1>7

LEMMA ReadmeInitially == AssetInit => ReadmeInv
<1> SUFFICES ASSUME AssetInit PROVE ReadmeInv
  OBVIOUS
<1>1. Files = {} /\ \A p : Row(p) = {} /\ ContentAt(p) = Nothing
  BY DEF AssetInit, Files, Row, ContentAt
<1>2. EditInv
  BY <1>1, RestingShape DEF AssetInit, EditInv, AssetTypeOK, Anyone
<1>3. Writers = {} /\ Owing = {}
  BY RestingShape DEF AssetInit, Writers, Owing
<1>4. Shown(ContentAt(README)) = Nothing
  BY <1>1 DEF Shown
<1> QED  BY <1>1, <1>2, <1>3, <1>4 DEF ReadmeInv, AloneOK, Together, AssetInit

LEMMA ReadmeKeeps == ReadmeInv /\ [AssetNext]_assetVars => ReadmeInv'
<1> SUFFICES ASSUME ReadmeInv, [AssetNext]_assetVars PROVE ReadmeInv'
  OBVIOUS
<1>1. CASE UNCHANGED assetVars
  <2>1. /\ file' = file /\ readme' = readme /\ request' = request /\ apart' = apart /\ touched' = touched
    BY <1>1 DEF assetVars
  <2> QED  BY <2>1 DEF ReadmeInv, EditInv, AssetTypeOK, Row, Files, AloneOK, Writers, Found, Due, ContentAt,
             Together, Owing, HalfDone
<1>2. ASSUME NEW r \in Request, HandleFiles(r) PROVE ReadmeInv'
  BY <1>2, WriteProfileTogether, LookingTogether, WriteTogether, SecondHalfTogether, MoveTogether,
     RemoveTogether, StartsTogether, ReadingTogether, LeaveTogether DEF HandleFiles
<1> QED  BY <1>1, <1>2 DEF AssetNext

\* The variables of the function's files keep their types, and a path names one entry at most.
THEOREM AssetTypeCorrect == AssetSpec => []AssetTypeOK
<1>1. ReadmeInv => AssetTypeOK
  BY DEF ReadmeInv, EditInv
<1> QED  BY ReadmeInitially, ReadmeKeeps, <1>1, PTL DEF AssetSpec

\* While no request writes, the profile's readme is what the profile takes of README.md's
\* content, unless two writers overlapped on them or a refused upload left the profile without its file.
THEOREM ReadmeCorrect == AssetSpec => []ReadmeShown
<1>1. ReadmeInv => ReadmeShown
  <2> SUFFICES ASSUME ReadmeInv, Writers = {}, ~apart PROVE readme = Shown(ContentAt(README))
    BY DEF ReadmeShown
  <2>1. Owing = {}
    BY OwingWrite DEF ReadmeInv
  <2> QED  BY <2>1 DEF ReadmeInv, Together
<1> QED  BY ReadmeInitially, ReadmeKeeps, <1>1, PTL DEF AssetSpec

-----------------------------------------------------------------------------
(* The parts side by side.                                                  *)

LEMMA CronTypeKeeps ==
  ASSUME CronInv, won \subseteq DedupeKey, missed \subseteq DedupeKey, [CronNext]_cronVars
  PROVE  won' \subseteq DedupeKey /\ missed' \subseteq DedupeKey
<1>1. ASSUME NEW w \in Wake, NEW t \in Cronjob, FireTrigger(w, t)
      PROVE  won' \subseteq DedupeKey /\ missed' \subseteq DedupeKey
  <2>1. <<t, wake[w].stamp>> \in DedupeKey
    BY DEF CronInv, WakeRecord, DedupeKey
  <2> QED  BY <1>1, <2>1 DEF FireTrigger
<1>2. ASSUME NEW w \in Wake, Acknowledge(w) \/ AcknowledgeThrows(w)
      PROVE  won' \subseteq DedupeKey /\ missed' \subseteq DedupeKey
  <2>1. KeyOf(w) \in DedupeKey
    BY <1>2, AckKey DEF Acknowledge, AcknowledgeThrows
  <2> QED  BY <1>2, <2>1 DEF Acknowledge, AcknowledgeThrows
<1> QED  BY <1>1, <1>2 DEF CronNext, cronVars, TickMinute, AskDue, MatchSchedules, NoAnswer, EndLoop

\* The clock, the invocations and what is on record of their keys keep their types.
THEOREM CronTypeCorrect == CronSpec => []CronTypeOK
<1> DEFINE Inv == CronInv /\ won \subseteq DedupeKey /\ missed \subseteq DedupeKey
<1>1. CronInit => Inv
  BY CronInitially DEF CronInit
<1>2. Inv /\ [CronNext]_cronVars => Inv'
  BY CronNextKeeps, CronTypeKeeps
<1>3. Inv => CronTypeOK
  BY DEF CronInv, WakeRecord, CronTypeOK
<1> QED  BY <1>1, <1>2, <1>3, PTL DEF CronSpec

\* The rest of the marketplace's types, which MarketInv has no use for.
MarketTypes == tally \in 0..Cardinality(Entry) /\ lock \in Txn \cup {NoTxn} /\ drift \in BOOLEAN

LEMMA MarketTypeKeeps ==
  ASSUME MarketInv, MarketTypes, [MarketNext]_marketVars
  PROVE  MarketTypes'
<1>1. ASSUME NEW t \in Txn, CommitTxn(t) PROVE MarketTypes'
  <2>1. txn[t].count \in 0..Cardinality(Entry) /\ txn[t].alone \in BOOLEAN
    BY DEF MarketInv, Changes
  <2>2. tally' \in 0..Cardinality(Entry)
    BY <1>1, <2>1 DEF CommitTxn, MarketTypes
  <2>3. lock' \in Txn \cup {NoTxn} /\ drift' \in BOOLEAN
    BY <1>1, <2>1 DEF CommitTxn, MarketTypes
  <2> QED  BY <2>2, <2>3 DEF MarketTypes
<1>2. ASSUME NEW t \in Txn, UpdateTally(t) \/ RollBack(t) PROVE MarketTypes'
  BY <1>2 DEF UpdateTally, RollBack, MarketTypes
<1>3. CASE UNCHANGED <<tally, lock, drift>>
  BY <1>3 DEF MarketTypes
<1> QED  BY <1>1, <1>2, <1>3 DEF MarketNext, marketVars, BeginTxn, EnsureProfile, ChangeEntry, Recount

\* The rows, the count, the profile and the transactions keep their types.
THEOREM MarketTypeCorrect == MarketSpec => []MarketTypeOK
<1> DEFINE Inv == MarketInv /\ MarketTypes
<1>1. MarketInit => Inv
  <2>1. Cardinality(Entry) \in Nat
    BY MarketConstants, FS_CardinalityType DEF MarketConstants
  <2>2. 0 \in 0..Cardinality(Entry) /\ FALSE \in BOOLEAN
    BY <2>1
  <2>3. ASSUME MarketInit PROVE MarketTypes
    <3>1. tally = 0 /\ lock = NoTxn /\ drift = FALSE
      BY <2>3 DEF MarketInit
    <3> QED  BY <2>2, <3>1 DEF MarketTypes
  <2> QED  BY <2>3, MarketInitially
<1>2. Inv /\ [MarketNext]_marketVars => Inv'
  BY MarketKeeps, MarketTypeKeeps
<1>3. Inv => MarketTypeOK
  BY DEF MarketInv, MarketTypes, Changes, MarketTypeOK
<1> QED  BY <1>1, <1>2, <1>3, PTL DEF MarketSpec

\* What is shown of a part on its own holds of it among the others: the composition lets
\* each part start and move as its own specification does, and otherwise rest.
THEOREM EachOnItsOwn == PartSpec =>
    /\ Spec /\ UsageSpec /\ QuotaSpec /\ RateSpec /\ AssetSpec /\ LinkSpec /\ CronSpec
    /\ DraftSpec /\ MarketSpec
<1>1. PartInit => /\ Init /\ UsageInit /\ QuotaInit /\ RateInit /\ AssetInit /\ LinkInit /\ CronInit
                  /\ DraftInit /\ MarketInit
  BY DEF PartInit
<1>2. ASSUME [PartNext]_partVars
      PROVE  /\ [Next]_vars /\ [UsageNext]_usageVars /\ [QuotaNext]_quotaVars /\ [RateNext]_rateVars
             /\ [AssetNext]_assetVars /\ [LinkNext]_linkVars /\ [CronNext]_cronVars
             /\ [DraftNext]_draftVars /\ [MarketNext]_marketVars
  <2>1. CASE UNCHANGED partVars
    BY <2>1 DEF partVars
  <2>2. CASE PartNext
    BY <2>2 DEF PartNext, Only
  <2> QED  BY <1>2, <2>1, <2>2
<1> QED  BY <1>1, <1>2, PTL DEF PartSpec, Spec, UsageSpec, QuotaSpec, RateSpec, AssetSpec, LinkSpec, CronSpec,
                               DraftSpec, MarketSpec

\* The variables of the part that moves keep their types, for any number of requests, rows,
\* triggers and transactions.
THEOREM PartTypeCorrect == PartSpec => []PartTypeOK
<1>1. UsageInv => UsageTypeOK
  BY DEF UsageInv
<1>2. QuotaInv => QuotaTypeOK
  BY DEF QuotaInv
<1>3. RateInv => RateTypeOK
  BY DEF RateInv
<1>4. DraftInv => DraftTypeOK
  BY DEF DraftInv
<1>5. ASSUME TypeOK, UsageTypeOK, QuotaTypeOK, RateTypeOK, AssetTypeOK, LinkTypeOK, CronTypeOK,
             DraftTypeOK, MarketTypeOK
      PROVE  PartTypeOK
  BY <1>5 DEF PartTypeOK
<1>6. UsageSpec => []UsageTypeOK
  BY UsageInitially, UsageKeeps, <1>1, PTL DEF UsageSpec
<1>7. QuotaSpec => []QuotaTypeOK
  BY QuotaInitially, QuotaNextKeeps, <1>2, PTL DEF QuotaSpec
<1>8. RateSpec => []RateTypeOK
  BY RateInvariant, <1>3, PTL
<1>9. DraftSpec => []DraftTypeOK
  BY DraftInvariant, <1>4, PTL
<1> QED  BY EachOnItsOwn, IngestTypeCorrect, <1>5, <1>6, <1>7, <1>8, <1>9, AssetTypeCorrect, LinkTypeCorrect,
            CronTypeCorrect, MarketTypeCorrect, PTL

=============================================================================
