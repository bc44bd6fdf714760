---------------------------- MODULE Ingest_proofs ----------------------------
(***************************************************************************)
(* The ingest route for any executions, events and handlers: an event is   *)
(* billed at most once, only for a recorded execution, and completely once *)
(* it is marked processed.                                                 *)
(*                                                                         *)
(* None of the three is inductive: they rest on an event having one owner, *)
(* who knows by where it is what has been done for the event.              *)
(***************************************************************************)
EXTENDS Ingest, TLAPS

\* The unique index on (source, external id): nobody else is past recording the event.
SoleOwner == \A g, h \in Handler : g # h /\ Owner(g) /\ Owner(h) => key[g] # key[h]

\* What is done for an event when its owner has come to a statement.
PlaceInv ==
    \A h \in Handler :
        /\ at[h] # "idle" => key[h] \in Key
        /\ Owner(h) => event[key[h]] # "none"
        /\ at[h] \in {"work", "update", "usage"} => usage[key[h]] = 0
        /\ at[h] \in {"log", "mark"} => usage[key[h]] = 1
        /\ at[h] \in {"update", "usage", "log", "mark"} => key[h].exec \in start
        /\ at[h] \in {"usage", "log", "mark"} => row[key[h].exec].by # "start"
        /\ at[h] = "mark" /\ key[h].lines /\ row[key[h].exec] # NoRow => key[h] \in logged

\* ... and what is left of it when there is no owner any more.
EventInv ==
    \A k \in Key :
        /\ usage[k] \in {0, 1}
        /\ event[k] = "none" => usage[k] = 0
        /\ usage[k] = 1 => k.exec \in start
        /\ k \in logged => row[k.exec] # NoRow /\ usage[k] = 1
        /\ event[k] = "processed" =>
             /\ usage[k] = 1 /\ row[k.exec].by # "start"
             /\ k.lines /\ row[k.exec] # NoRow => k \in logged

RowInv == \A e \in Exec : row[e] # NoRow => e \in start

IInv == TypeOK /\ SoleOwner /\ PlaceInv /\ EventInv /\ RowInv

USE DEF InboxTypeOK, Steps, Answers, Owner

LEMMA InitInv == Init => IInv
<1> SUFFICES ASSUME Init PROVE IInv
  OBVIOUS
<1>1. TypeOK /\ SoleOwner /\ PlaceInv
  BY DEF Init, InboxInit, TypeOK, SoleOwner, PlaceInv
<1>2. EventInv /\ RowInv
  BY DEF Init, InboxInit, EventInv, RowInv
<1> QED  BY <1>1, <1>2 DEF IInv

\* Steps that leave the rows of Ingest alone.
LEMMA InboxStep ==
    ASSUME IInv, IngestConstants, NEW h \in Handler, UNCHANGED ingestVars,
           Record(h) \/ Settle(h) \/ \E k \in Key : Deliver(h, k)
    PROVE  IInv'
<1> USE DEF ingestVars, Goto
<1>0. TypeOK /\ SoleOwner /\ PlaceInv /\ EventInv /\ RowInv
  BY DEF IInv
<1>1. CASE \E k \in Key : Deliver(h, k)
  <2>1. PICK k \in Key : Deliver(h, k)
    BY <1>1
  <2>2. TypeOK'
    BY <1>0, <2>1 DEF Deliver, TypeOK
  <2>3. SoleOwner'
    BY <1>0, <2>1 DEF Deliver, SoleOwner, TypeOK
  <2>4. PlaceInv'
    BY <1>0, <2>1 DEF Deliver, PlaceInv, TypeOK
  <2>5. EventInv' /\ RowInv'
    BY <1>0, <2>1 DEF Deliver, EventInv, RowInv
  <2> QED  BY <2>2, <2>3, <2>4, <2>5 DEF IInv
<1>2. CASE LookUp(h) \/ Throws(h) \/ Crash(h)
  <2> USE <1>2 DEF LookUp, Throws, Crash
  <2>1. /\ UNCHANGED <<event, key>>
        /\ \E to \in {"insert", "fail"} \cup Answers :
              /\ at' = [at EXCEPT ![h] = to]
              /\ to = "fail" => Owner(h)
              /\ at[h] # "idle"
    OBVIOUS
  <2>2. TypeOK'
    BY <1>0, <2>1 DEF TypeOK
  <2>3. SoleOwner'
    BY <1>0, <2>1 DEF SoleOwner, TypeOK
  <2>4. PlaceInv'
    BY <1>0, <2>1 DEF PlaceInv, TypeOK
  <2>5. EventInv' /\ RowInv'
    BY <1>0, <2>1 DEF EventInv, RowInv
  <2> QED  BY <2>2, <2>3, <2>4, <2>5 DEF IInv
<1>3. CASE Insert(h)
  <2> USE <1>3 DEF Insert
  <2>0. at[h] = "insert" /\ key[h] \in Key
    BY <1>0 DEF PlaceInv
  <2>1. TypeOK'
    BY <1>0, <2>0 DEF TypeOK
  <2>2. SoleOwner'
    BY <1>0, <2>0 DEF SoleOwner, PlaceInv, TypeOK
  <2>3. PlaceInv'
    BY <1>0, <2>0 DEF PlaceInv, EventInv, TypeOK
  <2>4. EventInv' /\ RowInv'
    BY <1>0, <2>0 DEF EventInv, RowInv, TypeOK
  <2> QED  BY <2>1, <2>2, <2>3, <2>4 DEF IInv
<1>4. CASE MarkProcessed(h) \/ MarkFailed(h)
  <2> USE <1>4 DEF MarkProcessed, MarkFailed, Ran
  <2>0. at[h] \in {"mark", "fail"} /\ key[h] \in Key /\ event[key[h]] # "none"
    BY <1>0 DEF PlaceInv
  <2>1. TypeOK'
    BY <1>0, <2>0 DEF TypeOK
  <2>2. SoleOwner'
    BY <1>0, <2>0 DEF SoleOwner, TypeOK
  <2>3. PlaceInv'
    BY <1>0, <2>0 DEF PlaceInv, TypeOK
  <2>4. EventInv' /\ RowInv'
    BY <1>0, <2>0 DEF EventInv, RowInv, PlaceInv, TypeOK
  <2> QED  BY <2>1, <2>2, <2>3, <2>4 DEF IInv
<1> QED  BY <1>1, <1>2, <1>3, <1>4 DEF Record, Settle

\* The statements of the route's try block.
LEMMA WorkStep ==
    ASSUME IInv, IngestConstants, NEW h \in Handler,
           ReadRow(h) \/ UpdateRow(h) \/ InsertUsage(h) \/ InsertLogs(h)
    PROVE  IInv'
<1> USE DEF Goto, Ran
<1>0. TypeOK /\ SoleOwner /\ PlaceInv /\ EventInv /\ RowInv
  BY DEF IInv
<1>1. /\ key[h] \in Key /\ Owner(h) /\ event' = event /\ key' = key /\ start' = start
      /\ key[h].exec \in Exec /\ key[h].source \in Source
      /\ key[h].status \in Status \cup {"absent"}
  BY <1>0, IngestConstants DEF PlaceInv, ReadRow, UpdateRow, InsertUsage, InsertLogs, ingestVars, IngestConstants
<1>2. \E to \in {"update", "usage", "log", "mark", "fail"} : at' = [at EXCEPT ![h] = to]
  BY DEF ReadRow, UpdateRow, InsertUsage, InsertLogs
<1>3. SoleOwner'
  BY <1>0, <1>1, <1>2 DEF SoleOwner, TypeOK
<1>4. CASE ReadRow(h)
  <2> USE <1>4 DEF ReadRow, ingestVars
  <2>1. TypeOK'
    BY <1>0, <1>1 DEF TypeOK
  <2>2. PlaceInv'
    BY <1>0, <1>1 DEF PlaceInv, RowInv, TypeOK
  <2>3. EventInv' /\ RowInv'
    BY <1>0 DEF EventInv, RowInv
  <2> QED  BY <1>3, <2>1, <2>2, <2>3 DEF IInv
<1>5. CASE UpdateRow(h)
  <2> USE <1>5 DEF UpdateRow
  <2> DEFINE e == key[h].exec
  <2>1. PICK s \in Status : row' = IF row[e] = NoRow THEN row
                                   ELSE [row EXCEPT ![e] = [status |-> s, by |-> key[h].source]]
    BY <1>1 DEF Outcome, Status
  <2>2. /\ row' \in [Exec -> [status : Status, by : Source \cup {"start"}] \cup {NoRow}]
        /\ row'[e].by # "start"
        /\ \A x \in Exec : (row'[x] = NoRow <=> row[x] = NoRow) /\ (x # e => row'[x] = row[x])
    BY <1>0, <1>1, <2>1 DEF TypeOK, NoRow, Source
  <2>3. TypeOK'
    BY <1>0, <2>2 DEF TypeOK
  <2>4. PlaceInv'
    BY <1>0, <1>1, <2>2, IngestConstants DEF PlaceInv, TypeOK, IngestConstants
  <2>5. EventInv' /\ RowInv'
    BY <1>0, <1>1, <2>2, IngestConstants DEF EventInv, RowInv, IngestConstants
  <2> QED  BY <1>3, <2>3, <2>4, <2>5 DEF IInv
<1>6. CASE InsertUsage(h)
  <2> USE <1>6 DEF InsertUsage
  <2>1. usage' = [usage EXCEPT ![key[h]] = 1]
    <3>1. usage[key[h]] = 0
      BY <1>0 DEF PlaceInv
    <3>2. usage' = [usage EXCEPT ![key[h]] = usage[key[h]] + 1]
      OBVIOUS
    <3> QED  BY <3>1, <3>2
  <2>2. TypeOK'
    BY <1>0, <1>1, <2>1 DEF TypeOK
  <2>3. PlaceInv'
    BY <1>0, <1>1, <2>1 DEF PlaceInv, SoleOwner, TypeOK
  <2>4. EventInv' /\ RowInv'
    BY <1>0, <1>1, <2>1 DEF EventInv, RowInv, PlaceInv, TypeOK
  <2> QED  BY <1>3, <2>2, <2>3, <2>4 DEF IInv
<1>7. CASE InsertLogs(h)
  <2> USE <1>7 DEF InsertLogs
  <2>1. TypeOK'
    BY <1>0, <1>1 DEF TypeOK
  <2>2. PlaceInv'
    BY <1>0, <1>1 DEF PlaceInv, TypeOK
  <2>3. EventInv' /\ RowInv'
    BY <1>0, <1>1 DEF EventInv, RowInv, PlaceInv
  <2> QED  BY <1>3, <2>1, <2>2, <2>3 DEF IInv
<1> QED  BY <1>4, <1>5, <1>6, <1>7

\* What happens to an execution's row outside of the route.
LEMMA RowStep ==
    ASSUME IInv, IngestConstants, NEW e \in Exec, RecordStart(e) \/ DeleteFunction(e)
    PROVE  IInv'
<1>0. /\ TypeOK /\ SoleOwner /\ PlaceInv /\ EventInv /\ RowInv
      /\ UNCHANGED <<inboxVars, usage>>
      /\ \A k \in Key : k.exec \in Exec
  BY IngestConstants DEF IInv, RecordStart, DeleteFunction, IngestConstants
<1> USE <1>0 DEF inboxVars
<1>1. SoleOwner'
  BY DEF SoleOwner
<1>2. CASE RecordStart(e)
  <2> USE <1>2 DEF RecordStart, Started
  <2>1. row[e] = NoRow /\ e \notin start
    BY DEF RowInv
  <2>2. TypeOK'
    BY DEF TypeOK, Status
  <2>3. PlaceInv'
    BY <2>1 DEF PlaceInv, TypeOK
  <2>4. EventInv' /\ RowInv'
    BY <2>1 DEF EventInv, RowInv, TypeOK
  <2> QED  BY <1>1, <2>2, <2>3, <2>4 DEF IInv
<1>3. CASE DeleteFunction(e)
  <2> USE <1>3 DEF DeleteFunction
  <2>1. TypeOK'
    BY DEF TypeOK
  <2>2. PlaceInv'
    BY DEF PlaceInv, TypeOK, NoRow
  <2>3. EventInv' /\ RowInv'
    BY DEF EventInv, RowInv, TypeOK, NoRow
  <2> QED  BY <1>1, <2>1, <2>2, <2>3 DEF IInv
<1> QED  BY <1>2, <1>3

LEMMA NextInv == IInv /\ [Next]_vars => IInv'
<1> SUFFICES ASSUME IInv, [Next]_vars PROVE IInv'
  OBVIOUS
<1>1. CASE UNCHANGED vars
  BY <1>1 DEF vars, inboxVars, ingestVars, IInv, TypeOK, SoleOwner, PlaceInv, EventInv, RowInv
<1>2. ASSUME NEW h \in Handler, Handle(h) PROVE IInv'
  BY <1>2, InboxStep, WorkStep, IngestConstants DEF Handle
<1>3. ASSUME NEW h \in Handler, NEW k \in Key, Post(h, k) PROVE IInv'
  BY <1>3, InboxStep, IngestConstants DEF Post
<1>4. ASSUME NEW e \in Exec, RecordStart(e) \/ DeleteFunction(e) PROVE IInv'
  BY <1>4, RowStep, IngestConstants
<1> QED  BY <1>1, <1>2, <1>3, <1>4 DEF Next

LEMMA Invariant == Spec => []IInv
<1> QED  BY InitInv, NextInv, PTL DEF Spec

-----------------------------------------------------------------------------
(* The promise of the inbox                                                 *)

Claimed == {k \in Key : event[k] # "none"}

LEMMA OnceInit == Init => Once!Init
<1> QED  BY DEF Init, InboxInit, Once!Init

LEMMA OnceStep ==
    IInv /\ [Next]_vars => [Once!Next]_<<Claimed, usage>>
<1> SUFFICES ASSUME IInv, [Next]_vars PROVE Once!Next \/ UNCHANGED <<Claimed, usage>>
  OBVIOUS
<1>0. TypeOK /\ PlaceInv
  BY DEF IInv
<1>1. CASE UNCHANGED vars \/ \E e \in Exec : RecordStart(e) \/ DeleteFunction(e)
  BY <1>1 DEF vars, inboxVars, ingestVars, RecordStart, DeleteFunction, Claimed
<1>2. ASSUME NEW h \in Handler, Handle(h) PROVE Once!Next \/ UNCHANGED <<Claimed, usage>>
  <2>1. CASE Insert(h) /\ UNCHANGED ingestVars
    <3>1. at[h] = "insert" /\ key[h] \in Key /\ usage' = usage
      BY <1>0, <2>1 DEF Insert, PlaceInv, ingestVars
    <3>2. CASE event[key[h]] = "none"
      <4>1. event' = [event EXCEPT ![key[h]] = "open"]
        BY <2>1, <3>2 DEF Insert
      <4>2. key[h] \notin Claimed /\ Claimed' = Claimed \cup {key[h]}
        BY <1>0, <3>1, <3>2, <4>1 DEF Claimed, TypeOK
      <4> QED  BY <3>1, <4>2 DEF Once!Next, Once!Claim, Claimed
    <3>3. CASE event[key[h]] # "none"
      BY <2>1, <3>1, <3>3 DEF Insert, Claimed
    <3> QED  BY <3>2, <3>3
  <2>2. CASE (LookUp(h) \/ Throws(h) \/ Crash(h)) /\ UNCHANGED ingestVars
    BY <2>2 DEF LookUp, Throws, Crash, ingestVars, Claimed
  <2>3. CASE (MarkProcessed(h) \/ MarkFailed(h)) /\ UNCHANGED ingestVars
    <3>1. key[h] \in Claimed
      BY <1>0, <2>3 DEF MarkProcessed, MarkFailed, PlaceInv, Claimed
    <3>2. Claimed' = Claimed
      BY <1>0, <2>3, <3>1 DEF MarkProcessed, MarkFailed, Claimed, TypeOK
    <3> QED  BY <2>3, <3>2 DEF ingestVars
  <2>4. CASE ReadRow(h) \/ UpdateRow(h) \/ InsertLogs(h)
    BY <2>4 DEF ReadRow, UpdateRow, InsertLogs, ingestVars, Claimed
  <2>5. CASE InsertUsage(h)
    <3>1. key[h] \in Claimed /\ usage[key[h]] = 0 /\ Claimed' = Claimed
      BY <1>0, <2>5 DEF InsertUsage, PlaceInv, Claimed
    <3>2. usage' = [usage EXCEPT ![key[h]] = usage[key[h]] + 1]
      BY <2>5 DEF InsertUsage
    <3>3. usage' = [usage EXCEPT ![key[h]] = 1]
      BY <3>1, <3>2
    <3>4. key[h] \in Key
      BY <3>1 DEF Claimed
    <3> QED  BY <3>1, <3>3, <3>4 DEF Once!Next, Once!Act, Claimed
  <2> QED  BY <1>2, <2>1, <2>2, <2>3, <2>4, <2>5 DEF Handle, Record, Settle
<1>3. ASSUME NEW h \in Handler, NEW k \in Key, Post(h, k) PROVE UNCHANGED <<Claimed, usage>>
  BY <1>3 DEF Post, Deliver, ingestVars, Claimed
<1> QED  BY <1>1, <1>2, <1>3 DEF Next

-----------------------------------------------------------------------------
(* Theorems                                                                 *)

\* The inbox's and the ingest route's rows and handlers keep their types.
THEOREM IngestTypeCorrect == Spec => []TypeOK
<1>1. IInv => TypeOK
  BY DEF IInv
<1> QED  BY Invariant, <1>1, PTL

\* An event marked processed was billed and its lines are stored, for any executions,
\* events and handlers.
THEOREM CompletenessCorrect == Spec => []ProcessedIsComplete
<1>1. IInv => ProcessedIsComplete
  BY DEF IInv, EventInv, ProcessedIsComplete
<1> QED  BY Invariant, <1>1, PTL

\* Nothing is billed or logged without a recorded execution and an event on file.
THEOREM BillingCorrect == Spec => []BilledOnRecord
<1>1. IInv => BilledOnRecord
  BY DEF IInv, EventInv, BilledOnRecord
<1> QED  BY Invariant, <1>1, PTL

\* The ingest route implements AtMostOnce: however an event is delivered, it is billed
\* at most once.
THEOREM OnceCorrect == Spec => BilledAtMostOnce
<1>1. [Once!Next]_<<Claimed, usage>> => [Once!Next]_<<{k \in Key : event[k] # "none"}, usage>>
  BY DEF Claimed
<1> QED  BY OnceInit, OnceStep, <1>1, Invariant, PTL DEF Spec, BilledAtMostOnce, Once!Spec

=============================================================================
