--------------------------- MODULE KvStore_proofs ---------------------------
(***************************************************************************)
(* The key-value store for any keys, requests, limit and clock: the quota  *)
(* is overshot by less than the number of requests, and the statements of   *)
(* kv-store.ts implement the atomic map.                                    *)
(*                                                                         *)
(* QuotaOvershoot is not inductive: a request that has passed the quota     *)
(* check stores its key whatever happened since.  The invariant counts the  *)
(* keys such requests are about to store as if they were stored already.    *)
(***************************************************************************)
EXTENDS KvStore, FiniteSetTheorems, TLAPS

CreatesKey(h) == at[h].call.op \in {"set", "incr"}

\* The requests through with the quota check, and the keys that are, or will be, there.
Passed == {h \in Handler : at[h].step = "statement" /\ CreatesKey(h)}
Claimed == Stored \cup {at[h].call.key : h \in Passed}

QuotaInv == Cardinality(Claimed) < MaxKeys + Cardinality(Handler)

\* Only a call that may create a key is in the quota check; `expiresAt` is that of the
\* call's TTL.
StepInv ==
    \A h \in Handler :
        /\ at[h].step \in {"existing", "sweep", "count"} => CreatesKey(h)
        /\ at[h].call.op = "set" => (at[h].expiresAt = Never <=> ~at[h].call.ttl)

IInv == TypeOK /\ StepInv /\ QuotaInv

-----------------------------------------------------------------------------
(* Type correctness                                                         *)

LEMMA TypeStep == IInv /\ [Next]_vars => TypeOK'
<1> SUFFICES ASSUME IInv, [Next]_vars PROVE TypeOK'
  OBVIOUS
<1>0. TypeOK /\ ConstantsOK
  BY ConstantsOK DEF IInv
<1> USE <1>0 DEF TypeOK, ConstantsOK, Never
<1>1. CASE UNCHANGED vars
  BY <1>1 DEF vars
<1>2. CASE Tick
  BY <1>2 DEF Tick
<1>3. ASSUME NEW h \in Handler, Handle(h) PROVE TypeOK'
  <2>1. CASE Call(h)
    BY <2>1 DEF Call, Working, Op
  <2>2. CASE Existing(h)
    BY <2>2 DEF Existing, Continue, Working, Idle
  <2>3. CASE SweepExpired(h)
    BY <2>3 DEF SweepExpired, Working, Idle
  <2>4. CASE Count(h)
    BY <2>4 DEF Count, Continue, Reply, Refused, Answer, Working, Idle
  <2>5. CASE kvGet(h)
    <3>1. at[h] \in Working
      BY <2>5 DEF kvGet, At, Idle
    <3>2. at[h].call.key \in Key
      BY <3>1 DEF Working, Op
    <3>3. \A k \in Stored : fnKv[k].value \in Value
      BY DEF Stored, Row
    <3> QED  BY <2>5, <3>2, <3>3 DEF kvGet, Reply, NotFound, Refused, Answer
  <2>6. CASE kvDelete(h)
    <3>1. \A b \in BOOLEAN : Done(b) \in Answer
      BY DEF Answer
    <3>2. Done(at[h].call.key \in Stored) \in Answer
      <4>1. (at[h].call.key \in Stored) \in BOOLEAN
        OBVIOUS
      <4> QED  BY ONLY <3>1, <4>1, Zenon
    <3> QED  BY <2>6, <3>2 DEF kvDelete, Reply
  <2>7. CASE kvSet(h)
    <3>1. at[h] \in Working /\ at[h].call.op = "set"
      BY <2>7 DEF kvSet, At, Idle
    <3>2. at[h].call.key \in Key /\ at[h].call.value \in Value
          /\ at[h].expiresAt \in 0..Never
      BY <3>1 DEF Working, Op
    <3>3. fnKv' \in [Key -> Row \cup {NoRow}]
      BY <2>7, <3>2 DEF kvSet, Row
    <3> QED  BY <2>7, <3>3 DEF kvSet, Reply, Answer
  <2>8. CASE kvIncr(h)
    <3>1. at[h] \in Working
      BY <2>8 DEF kvIncr, At, Idle
    <3>2. at[h].call.key \in Key
      BY <3>1 DEF Working, Op
    <3> DEFINE k == at[h].call.key
    <3>3. CASE k \in Stored => Expired(k)
      <4>1. fnKv' \in [Key -> Row \cup {NoRow}]
        BY <2>8, <3>2, <3>3 DEF kvIncr, Row, Value, Number
      <4> QED  BY <2>8, <3>3, <4>1 DEF kvIncr, Reply, Answer, Value, Number
    <3>4. CASE ~(k \in Stored => Expired(k)) /\ fnKv[k].value \in Number \ {MaxNumber}
      <4>1. fnKv[k] \in Row /\ fnKv[k].value + 1 \in Value
        BY <3>2, <3>4 DEF Stored, Value, Number
      <4>2. fnKv[k].value # Text
        BY <3>4 DEF Number
      <4>3. fnKv' = [fnKv EXCEPT ![k].value = fnKv[k].value + 1]
            /\ Reply(h, Found(fnKv[k].value + 1)) /\ now' = now
        BY <2>8, <3>4, <4>2 DEF kvIncr
      <4>4. fnKv' \in [Key -> Row \cup {NoRow}]
        BY <3>2, <4>1, <4>3 DEF Row
      <4> QED  BY <4>1, <4>3, <4>4 DEF Reply, Answer
    <3>5. CASE ~(k \in Stored => Expired(k)) /\ fnKv[k].value \notin Number \ {MaxNumber}
      BY <2>8, <3>5 DEF kvIncr, Reply, Refused, Answer
    <3> QED  BY <3>3, <3>4, <3>5
  <2> QED  BY <1>3, <2>1, <2>2, <2>3, <2>4, <2>5, <2>6, <2>7, <2>8 DEF Handle
<1> QED  BY <1>1, <1>2, <1>3 DEF Next

LEMMA StepStep == IInv /\ [Next]_vars => StepInv'
<1> SUFFICES ASSUME IInv, [Next]_vars, NEW x \in Handler
             PROVE  /\ at'[x].step \in {"existing", "sweep", "count"} => CreatesKey(x)'
                    /\ at'[x].call.op = "set" =>
                           (at'[x].expiresAt = Never <=> ~at'[x].call.ttl)
  BY DEF StepInv
<1>0. /\ at[x].step \in {"existing", "sweep", "count"} => CreatesKey(x)
      /\ at[x].call.op = "set" => (at[x].expiresAt = Never <=> ~at[x].call.ttl)
      /\ TypeOK /\ ConstantsOK
  BY ConstantsOK DEF IInv, StepInv
<1> USE <1>0 DEF CreatesKey
<1>1. CASE at'[x] = at[x]
  BY <1>1
<1>2. CASE at'[x] = Idle
  BY <1>2 DEF Idle, None
<1>3. CASE Call(x)
  <2>1. PICK o \in Op :
          at'[x] = [call |-> o,
                    step |-> IF o.op \in {"set", "incr"} THEN "existing" ELSE "statement",
                    expiresAt |-> IF o.op = "set" /\ o.ttl THEN now + 1 ELSE Never]
    BY <1>3 DEF Call, TypeOK
  <2>2. now + 1 # Never /\ (o.op = "set" => o.ttl \in BOOLEAN)
    BY <2>1 DEF TypeOK, ConstantsOK, Never, Op
  <2> QED  BY <2>1, <2>2
<1>4. CASE at'[x].call = at[x].call /\ at'[x].expiresAt = at[x].expiresAt
           /\ at[x].step \in {"existing", "sweep", "count"}
  BY <1>4
<1>5. \/ at'[x] = at[x] \/ at'[x] = Idle \/ Call(x)
      \/ /\ at'[x].call = at[x].call /\ at'[x].expiresAt = at[x].expiresAt
         /\ at[x].step \in {"existing", "sweep", "count"}
  <2>1. CASE UNCHANGED vars \/ Tick
    BY <2>1 DEF vars, Tick
  <2>2. ASSUME NEW h \in Handler, Handle(h)
        PROVE  <1>5!:
    <3>1. CASE Call(h)
      BY <3>1 DEF Call, TypeOK
    <3>2. CASE Existing(h) \/ SweepExpired(h) \/ Count(h)
      BY <3>2 DEF Existing, SweepExpired, Count, Continue, Reply, TypeOK, Working, Idle
    <3>3. CASE kvGet(h) \/ kvDelete(h) \/ kvSet(h) \/ kvIncr(h)
      BY <3>3 DEF kvGet, kvDelete, kvSet, kvIncr, Reply, TypeOK
    <3> QED  BY <2>2, <3>1, <3>2, <3>3 DEF Handle
  <2> QED  BY <2>1, <2>2 DEF Next
<1> QED  BY <1>1, <1>2, <1>3, <1>4, <1>5

-----------------------------------------------------------------------------
(* The quota                                                                *)

\* What a step that lets no new key past the check does to the claimed keys.
LEMMA QuotaShrinks ==
    ASSUME TypeOK, QuotaInv, ConstantsOK, Claimed' \subseteq Claimed
    PROVE  QuotaInv'
<1>1. IsFiniteSet(Claimed)
  <2>1. Claimed \subseteq Key
    BY DEF Claimed, Stored, Passed, CreatesKey, TypeOK, Working, Idle, Op
  <2> QED  BY <2>1, FS_Subset DEF ConstantsOK
<1>2. /\ Cardinality(Claimed) \in Nat /\ Cardinality(Claimed') \in Nat
      /\ Cardinality(Claimed') <= Cardinality(Claimed)
  <2>1. IsFiniteSet(Claimed') /\ Cardinality(Claimed') <= Cardinality(Claimed)
    BY <1>1, FS_Subset
  <2> QED  BY <1>1, <2>1, FS_CardinalityType
<1>3. MaxKeys \in Nat /\ Cardinality(Handler) \in Nat
  BY FS_CardinalityType DEF ConstantsOK
<1> QED  BY <1>2, <1>3 DEF QuotaInv

\* The keys claimed by requests are no more than the requests.
LEMMA ClaimsBounded ==
    ASSUME ConstantsOK, NEW S, IsFiniteSet(S), Cardinality(S) < MaxKeys,
           NEW H \in SUBSET Handler, NEW f \in [H -> Key]
    PROVE  Cardinality(S \cup {f[h] : h \in H}) < MaxKeys + Cardinality(Handler)
<1> DEFINE T == {f[h] : h \in H}
<1>1. IsFiniteSet(Handler) /\ IsFiniteSet(H) /\ Cardinality(H) <= Cardinality(Handler)
  BY FS_Subset DEF ConstantsOK
<1>2. f \in Surjection(H, T)
  BY DEF Surjection
<1>3. IsFiniteSet(T) /\ Cardinality(T) <= Cardinality(H)
  BY <1>1, <1>2, FS_Surjection
<1>4. Cardinality(S \cup T) = Cardinality(S) + Cardinality(T) - Cardinality(S \cap T)
  BY <1>3, FS_Union
<1>5. /\ Cardinality(S) \in Nat /\ Cardinality(T) \in Nat /\ Cardinality(H) \in Nat
      /\ Cardinality(Handler) \in Nat /\ Cardinality(S \cap T) \in Nat
  BY <1>1, <1>3, FS_CardinalityType, FS_Intersection
<1> QED  BY <1>1, <1>3, <1>4, <1>5 DEF ConstantsOK

LEMMA QuotaStep == IInv /\ [Next]_vars => QuotaInv'
<1> SUFFICES ASSUME IInv, [Next]_vars PROVE QuotaInv'
  OBVIOUS
<1>0. TypeOK /\ QuotaInv /\ ConstantsOK
  BY ConstantsOK DEF IInv
<1> USE DEF CreatesKey, Passed
<1>1. CASE UNCHANGED vars \/ Tick
  <2>1. Claimed' = Claimed
    BY <1>1 DEF vars, Tick, Claimed, Stored
  <2> QED  BY <1>0, <2>1, QuotaShrinks
<1>2. ASSUME NEW h \in Handler, Handle(h) PROVE QuotaInv'
  <2>0. /\ at[h] \in Working \cup {Idle} /\ DOMAIN at = Handler
        /\ \A x \in Handler : at[x] \in Working \cup {Idle}
    BY <1>0 DEF TypeOK
  <2>1. CASE Call(h)
    <3>1. /\ Stored' = Stored
          /\ \A x \in Handler : x # h => at'[x] = at[x]
          /\ at'[h].step = "statement" => ~CreatesKey(h)'
      BY <2>0, <2>1 DEF Call, Stored
    <3> QED  BY <1>0, <3>1, QuotaShrinks DEF Claimed
  <2>2. CASE Existing(h)
    <3>1. /\ Stored' = Stored
          /\ \A x \in Handler : x # h => at'[x] = at[x]
          /\ at'[h].call = at[h].call
          /\ at'[h].step = "statement" => at[h].call.key \in Stored
      BY <2>0, <2>2 DEF Existing, Continue, Stored, Working, Idle
    <3> QED  BY <1>0, <3>1, QuotaShrinks DEF Claimed
  <2>3. CASE SweepExpired(h)
    <3>1. /\ Stored' \subseteq Stored
          /\ \A x \in Handler : x # h => at'[x] = at[x]
          /\ at'[h].step = "count"
      BY <1>0, <2>0, <2>3 DEF SweepExpired, Stored, TypeOK, Working, Idle
    <3> QED  BY <1>0, <3>1, QuotaShrinks DEF Claimed
  <2>4. CASE Count(h)
    <3>1. CASE Cardinality(Stored) < MaxKeys
      <4>1. Stored' = Stored
        BY <2>4 DEF Count, Continue, Stored
      <4>2. IsFiniteSet(Stored)
        BY <1>0, FS_Subset DEF Stored, ConstantsOK
      <4> DEFINE H == Passed'
                 f == [x \in H |-> at'[x].call.key]
      <4>3. H \in SUBSET Handler /\ f \in [H -> Key]
        BY <1>0, TypeStep DEF TypeOK, IInv, Working, Idle, Op
      <4>4. Claimed' = Stored \cup {f[x] : x \in H}
        BY <4>1 DEF Claimed
      <4>5. Cardinality(Claimed') < MaxKeys + Cardinality(Handler)
        <5> HIDE DEF H, f
        <5> QED  BY <1>0, <3>1, <4>2, <4>3, <4>4, ClaimsBounded
      <4> QED  BY <4>5 DEF QuotaInv
    <3>2. CASE ~(Cardinality(Stored) < MaxKeys)
      <4>1. /\ Stored' = Stored
            /\ \A x \in Handler : x # h => at'[x] = at[x]
            /\ at'[h] = Idle
        BY <2>0, <2>4, <3>2 DEF Count, Continue, Reply, Stored
      <4> QED  BY <1>0, <4>1, QuotaShrinks DEF Claimed, Idle
    <3> QED  BY <3>1, <3>2
  <2>5. CASE kvGet(h) \/ kvDelete(h)
    <3>1. /\ Stored' \subseteq Stored
          /\ \A x \in Handler : x # h => at'[x] = at[x]
          /\ at'[h] = Idle
      BY <1>0, <2>0, <2>5 DEF kvGet, kvDelete, Reply, Stored, TypeOK
    <3> QED  BY <1>0, <3>1, QuotaShrinks DEF Claimed, Idle
  <2>6. CASE kvSet(h) \/ kvIncr(h)
    <3>1. /\ Stored' \subseteq Stored \cup {at[h].call.key}
          /\ \A x \in Handler : x # h => at'[x] = at[x]
          /\ at'[h] = Idle
          /\ h \in Passed
      BY <1>0, <2>0, <2>6 DEF kvSet, kvIncr, At, Reply, Stored, TypeOK
    <3>2. at[h].call.key \in Claimed
      BY <3>1 DEF Claimed
    <3> QED  BY <1>0, <3>1, <3>2, QuotaShrinks DEF Claimed, Idle
  <2> QED  BY <1>2, <2>1, <2>2, <2>3, <2>4, <2>5, <2>6 DEF Handle
<1> QED  BY <1>1, <1>2 DEF Next

LEMMA IInvInit == Init => IInv
<1> SUFFICES ASSUME Init PROVE IInv
  OBVIOUS
<1>1. TypeOK
  BY ConstantsOK DEF Init, TypeOK, ConstantsOK
<1>2. StepInv
  BY DEF Init, StepInv, Idle, None
<1>3. Claimed = {}
  BY DEF Init, Claimed, Stored, Passed, Idle
<1>4. QuotaInv
  <2>1. Cardinality(Claimed) = 0
    BY <1>3, FS_EmptySet
  <2>2. Cardinality(Handler) \in Nat /\ Cardinality(Handler) # 0
    BY ConstantsOK, FS_CardinalityType, FS_EmptySet DEF ConstantsOK
  <2> QED  BY ConstantsOK, <2>1, <2>2 DEF QuotaInv, ConstantsOK
<1> QED  BY <1>1, <1>2, <1>4 DEF IInv

LEMMA IInvStep == IInv /\ [Next]_vars => IInv'
BY TypeStep, StepStep, QuotaStep DEF IInv

LEMMA IInvInvariant == Spec => []IInv
<1> QED  BY IInvInit, IInvStep, PTL DEF Spec

-----------------------------------------------------------------------------
(* The atomic map                                                           *)

\* What the map shows of a row.
LEMMA StoreOf ==
    ASSUME TypeOK, NEW k \in Key
    PROVE  /\ Store[k] \in Map!Entry <=> k \in Stored /\ ~Expired(k)
           /\ Store[k] # Map!Missing <=> k \in Stored
           /\ Store[k] = Map!Lapsed <=> k \in Stored /\ Expired(k)
           /\ k \in Stored /\ ~Expired(k) =>
                Store[k] = [value |-> fnKv[k].value, ttl |-> fnKv[k].expiresAt # Never]
<1>1. Map!Missing \notin Map!Entry /\ Map!Lapsed \notin Map!Entry
      /\ Map!Missing # Map!Lapsed
  BY DEF Map!Missing, Map!Lapsed, Map!Entry
<1>2. k \in Stored => fnKv[k] \in Row
  BY DEF TypeOK, Stored
<1>3. CASE k \notin Stored
  BY <1>1, <1>3 DEF Store, Map!Missing
<1>4. CASE k \in Stored /\ Expired(k)
  BY <1>1, <1>4 DEF Store, Expired, Map!Lapsed
<1>5. CASE k \in Stored /\ ~Expired(k)
  <2>1. Store[k] = [value |-> fnKv[k].value, ttl |-> fnKv[k].expiresAt # Never]
    BY <1>5 DEF Store, Expired
  <2>2. Store[k] \in Map!Entry
    <3>1. fnKv[k].value \in Map!Value
      BY <1>2, <1>5 DEF Row, Value, Map!Value
    <3>2. \A v \in Map!Value, b \in BOOLEAN : [value |-> v, ttl |-> b] \in Map!Entry
      BY DEF Map!Entry
    <3>3. (fnKv[k].expiresAt # Never) \in BOOLEAN
      OBVIOUS
    <3> QED  BY ONLY <2>1, <3>1, <3>2, <3>3, Zenon
  <2> QED  BY <1>1, <1>5, <2>1, <2>2
<1> QED  BY <1>3, <1>4, <1>5

\* A statement on one key leaves the others as the map shows them.
LEMMA StoreElsewhere ==
    ASSUME NEW k \in Key, now' = now, \A x \in Key \ {k} : fnKv'[x] = fnKv[x]
    PROVE  Store' = [Store EXCEPT ![k] = Store'[k]]
<1>1. \A x \in Key \ {k} : Store'[x] = Store[x]
  BY DEF Store, Stored
<1>2. Store = [x \in Key |-> Store[x]] /\ Store' = [x \in Key |-> Store'[x]]
  BY DEF Store
<1> QED  BY <1>1, <1>2

LEMMA ReplyMaps ==
    ASSUME TypeOK, NEW h \in Handler, NEW a, Reply(h, a)
    PROVE  Map!Reply(h, a)
BY DEF Reply, Map!Reply, Pending, Map!None, Idle, None, TypeOK

LEMMA MapInit == Init => Map!Init
BY DEF Init, Map!Init, Store, Stored, Pending, NoRow, Map!Missing, Map!None, Idle, None

\* A request's own key and call.
LEMMA CallOf ==
    ASSUME TypeOK, NEW h \in Handler, at[h].step # "idle"
    PROVE  /\ at[h].call \in Op /\ at[h].call.key \in Key
           /\ Pending[h] = at[h].call
           /\ at[h].call.op = "set" =>
                /\ at[h].call.value \in Value /\ at[h].call.ttl \in BOOLEAN
                /\ at[h].expiresAt \in 0..Never
BY DEF TypeOK, Working, Idle, Op, Pending

LEMMA GetMaps ==
    ASSUME TypeOK, NEW h \in Handler, kvGet(h)
    PROVE  Map!Get(h)
<1> DEFINE k == at[h].call.key
<1>1. k \in Key /\ Pending[h] = at[h].call /\ at[h].call.op = "get"
  BY CallOf DEF kvGet, At
<1>2. Store' = Store
  BY DEF kvGet, Store, Stored
<1>3. Reply(h, IF k \in Stored /\ ~Expired(k) THEN Found(fnKv[k].value) ELSE NotFound)
  BY DEF kvGet
<1>4. (IF k \in Stored /\ ~Expired(k) THEN Found(fnKv[k].value) ELSE NotFound)
      = (IF Store[k] \in Map!Entry THEN Map!Found(Store[k].value) ELSE Map!NotFound)
  <2>1. CASE k \in Stored /\ ~Expired(k)
    <3>1. Store[k] \in Map!Entry
      BY <1>1, <2>1, StoreOf
    <3>2. Store[k].value = fnKv[k].value
      <4>1. Store[k] = [value |-> fnKv[k].value, ttl |-> fnKv[k].expiresAt # Never]
        BY <1>1, <2>1, StoreOf, Zenon
      <4>2. PICK b : Store[k] = [value |-> fnKv[k].value, ttl |-> b]
        BY <4>1, Zenon
      <4> QED  BY ONLY <4>2
    <3> QED  BY <2>1, <3>1, <3>2, Zenon DEF Found, Map!Found
  <2>2. CASE ~(k \in Stored /\ ~Expired(k))
    BY <1>1, <2>2, StoreOf DEF NotFound, Map!NotFound
  <2> QED  BY <2>1, <2>2
<1>5. Map!Reply(h, IF Store[k] \in Map!Entry THEN Map!Found(Store[k].value)
                   ELSE Map!NotFound)
  BY <1>3, <1>4, ReplyMaps
<1> QED  BY <1>1, <1>2, <1>5 DEF Map!Get

LEMMA DeleteMaps ==
    ASSUME TypeOK, TypeOK', NEW h \in Handler, kvDelete(h)
    PROVE  Map!Delete(h)
<1> DEFINE k == at[h].call.key
<1>1. k \in Key /\ Pending[h] = at[h].call /\ at[h].call.op = "delete"
  BY CallOf DEF kvDelete, At
<1>2. /\ fnKv' = [fnKv EXCEPT ![k] = NoRow] /\ now' = now
      /\ Reply(h, Done(k \in Stored))
  BY DEF kvDelete
<1>3. Store' = [Store EXCEPT ![k] = Map!Missing]
  <2>1. Store'[k] = Map!Missing
    BY <1>1, <1>2 DEF Store, Stored, Map!Missing, TypeOK
  <2>2. \A x \in Key \ {k} : fnKv'[x] = fnKv[x]
    BY <1>2 DEF TypeOK
  <2> QED  BY <1>1, <1>2, <2>1, <2>2, StoreElsewhere
<1>4. Done(k \in Stored) = Map!Done(Store[k] # Map!Missing)
  <2>1. (k \in Stored) = (Store[k] # Map!Missing)
    <3>1. k \in Stored <=> Store[k] # Map!Missing
      BY <1>1, StoreOf
    <3> QED  BY ONLY <3>1, SMT
  <2> QED  BY <2>1 DEF Done, Map!Done
<1>5. Map!Reply(h, Map!Done(Store[k] # Map!Missing))
  BY <1>2, <1>4, ReplyMaps
<1> QED  BY <1>1, <1>3, <1>5 DEF Map!Delete

LEMMA SetMaps ==
    ASSUME TypeOK, StepInv, TypeOK', NEW h \in Handler, kvSet(h)
    PROVE  Map!Set(h)
<1> DEFINE o == at[h].call
           row == [value |-> o.value, expiresAt |-> at[h].expiresAt]
<1>1. /\ o.key \in Key /\ Pending[h] = o /\ o.op = "set"
      /\ o.value \in Value /\ o.ttl \in BOOLEAN /\ at[h].expiresAt \in 0..Never
      /\ at[h].expiresAt = Never <=> ~o.ttl
  BY CallOf DEF kvSet, At, StepInv
<1>2. fnKv' = [fnKv EXCEPT ![o.key] = row] /\ now' = now /\ Reply(h, Done(TRUE))
  BY DEF kvSet
<1>3. fnKv'[o.key] = row /\ \A x \in Key \ {o.key} : fnKv'[x] = fnKv[x]
  BY <1>1, <1>2 DEF TypeOK
<1>4. Store' = [Store EXCEPT ![o.key] = Store'[o.key]]
  BY <1>1, <1>2, <1>3, StoreElsewhere
<1>5. row # NoRow
  BY DEF NoRow
<1>6. CASE at[h].expiresAt <= now
  <2>1. Store'[o.key] = Map!Lapsed
    BY <1>1, <1>2, <1>3, <1>5, <1>6 DEF Store, Stored, Map!Lapsed
  <2>2. o.ttl
    BY <1>1, <1>6, ConstantsOK DEF TypeOK, Never, ConstantsOK
  <2>3. Map!Reply(h, Map!Done(TRUE))
    BY <1>2, ReplyMaps DEF Done, Map!Done
  <2> QED  BY <1>1, <1>4, <2>1, <2>2, <2>3 DEF Map!Set
<1>7. CASE ~(at[h].expiresAt <= now)
  <2>1. Store'[o.key] = [value |-> o.value, ttl |-> at[h].expiresAt # Never]
    BY <1>1, <1>2, <1>3, <1>5, <1>7 DEF Store, Stored
  <2>2. (at[h].expiresAt # Never) = o.ttl
    BY <1>1
  <2>3. Store'[o.key] = [value |-> o.value, ttl |-> o.ttl]
    BY <2>1, <2>2
  <2>4. Map!Reply(h, Map!Done(TRUE))
    BY <1>2, ReplyMaps DEF Done, Map!Done
  <2> QED  BY <1>1, <1>4, <2>3, <2>4 DEF Map!Set
<1> QED  BY <1>6, <1>7

LEMMA IncrMaps ==
    ASSUME TypeOK, TypeOK', NEW h \in Handler, kvIncr(h)
    PROVE  Map!Incr(h)
<1> DEFINE k == at[h].call.key
           fresh == k \in Stored => Expired(k)
<1>1. k \in Key /\ Pending[h] = at[h].call /\ at[h].call.op = "incr" /\ now' = now
  BY CallOf DEF kvIncr, At
<1>2. CASE fresh
  <2>1. /\ fnKv' = [fnKv EXCEPT ![k] = [value |-> 1, expiresAt |-> Never]]
        /\ Reply(h, Found(1))
    BY <1>2 DEF kvIncr
  <2>2. fnKv'[k] = [value |-> 1, expiresAt |-> Never]
        /\ \A x \in Key \ {k} : fnKv'[x] = fnKv[x]
    BY <1>1, <2>1 DEF TypeOK
  <2>3. Store'[k] = [value |-> 1, ttl |-> FALSE]
    <3>1. fnKv'[k] # NoRow /\ ~(fnKv'[k].expiresAt <= now') /\ fnKv'[k].expiresAt = Never
      BY <1>1, <2>2, ConstantsOK DEF NoRow, TypeOK, ConstantsOK, Never
    <3>2. Store'[k] = [value |-> fnKv'[k].value, ttl |-> fnKv'[k].expiresAt # Never]
      BY <1>1, <3>1 DEF Store, Stored
    <3>3. fnKv'[k].value = 1 /\ (fnKv'[k].expiresAt # Never) = FALSE
      BY <2>2, <3>1
    <3> QED  BY <3>2, <3>3
  <2>4. Store' = [Store EXCEPT ![k] = [value |-> 1, ttl |-> FALSE]]
    BY <1>1, <2>2, <2>3, StoreElsewhere
  <2>5. Store[k] \notin Map!Entry
    BY <1>1, <1>2, StoreOf
  <2>6. Map!Reply(h, Map!Found(1))
    BY <2>1, ReplyMaps DEF Found, Map!Found
  <2> QED  BY <1>1, <2>4, <2>5, <2>6 DEF Map!Incr
<1>3. CASE ~fresh
  <2>1. Store[k] \in Map!Entry /\ fnKv[k] \in Row
    BY <1>1, <1>3, StoreOf DEF TypeOK, Stored
  <2>2. PICK b : /\ Store[k] = [value |-> fnKv[k].value, ttl |-> b]
                 /\ b = (fnKv[k].expiresAt # Never)
    BY <1>1, <1>3, StoreOf, Zenon
  <2>3. Store[k].value = fnKv[k].value
    BY <2>2
  <2>4. CASE fnKv[k].value \in Number \ {MaxNumber}
    <3> DEFINE n == fnKv[k].value
    <3>1. n \in Nat /\ n # Text /\ n \in Number
      BY <2>4, ConstantsOK DEF Number, ConstantsOK
    <3>2. fnKv' = [fnKv EXCEPT ![k].value = n + 1] /\ Reply(h, Found(n + 1))
      BY <1>3, <2>4, <3>1 DEF kvIncr
    <3>3. /\ fnKv'[k].value = n + 1 /\ fnKv'[k].expiresAt = fnKv[k].expiresAt
          /\ fnKv'[k] \in Row /\ \A x \in Key \ {k} : fnKv'[x] = fnKv[x]
      <4>1. fnKv'[k] = [fnKv[k] EXCEPT !.value = n + 1]
            /\ \A x \in Key \ {k} : fnKv'[x] = fnKv[x]
        BY <1>1, <3>2 DEF TypeOK
      <4>2. n + 1 \in Value
        BY <2>4, ConstantsOK DEF Number, Value, ConstantsOK
      <4> QED  BY <2>1, <4>1, <4>2 DEF Row
    <3>4. Store'[k] = [value |-> n + 1, ttl |-> b]
      <4>1. fnKv'[k] # NoRow /\ ~(fnKv'[k].expiresAt <= now')
        BY <1>1, <1>3, <3>3 DEF Row, NoRow, Expired
      <4>2. Store'[k] = [value |-> n + 1, ttl |-> fnKv'[k].expiresAt # Never]
        BY <1>1, <3>3, <4>1 DEF Store, Stored
      <4>3. (fnKv'[k].expiresAt # Never) = b
        BY <2>2, <3>3
      <4> QED  BY <4>2, <4>3
    <3>5. Store' = [Store EXCEPT ![k].value = Store[k].value + 1]
      <4>1. Store'[k] = [Store[k] EXCEPT !.value = Store[k].value + 1]
        BY <2>2, <2>3, <3>4
      <4>2. Store' = [Store EXCEPT ![k] = Store'[k]]
        BY <1>1, <3>3, StoreElsewhere
      <4> QED  BY <4>1, <4>2
    <3>6. Map!Reply(h, Map!Found(Store[k].value + 1))
      BY <2>3, <3>2, ReplyMaps DEF Found, Map!Found
    <3> QED  BY <1>1, <2>1, <2>3, <3>1, <3>5, <3>6 DEF Map!Incr
  <2>5. CASE fnKv[k].value \notin Number \ {MaxNumber}
    <3>1. fnKv[k].value = Text /\ fnKv' = fnKv /\ Reply(h, Refused("kv_not_a_number"))
      BY <1>3, <2>5 DEF kvIncr
    <3>2. Store' = Store
      BY <1>1, <3>1 DEF Store, Stored
    <3>3. Map!Reply(h, Map!Refused("kv_not_a_number"))
      BY <3>1, ReplyMaps DEF Refused, Map!Refused
    <3> QED  BY <1>1, <2>1, <2>3, <3>1, <3>2, <3>3 DEF Map!Incr
  <2> QED  BY <2>4, <2>5
<1> QED  BY <1>2, <1>3

\* The statements of the quota check show nothing, except for what they sweep and that
\* they may turn the request away.
LEMMA QuotaMaps ==
    ASSUME TypeOK, StepInv, TypeOK', NEW h \in Handler,
           Existing(h) \/ SweepExpired(h) \/ Count(h)
    PROVE  Map!Full(h) \/ Map!Sweep \/ UNCHANGED <<Store, Pending, answer>>
<1>1. at[h] \in Working /\ CreatesKey(h)
  BY DEF Existing, SweepExpired, Count, StepInv, TypeOK, Idle
<1>2. Pending[h] = at[h].call
  BY DEF Pending
<1>3. ASSUME NEW s, at' = [at EXCEPT ![h].step = s] PROVE Pending' = Pending
  BY <1>1, <1>3 DEF Pending, TypeOK, Working
<1>4. CASE Existing(h)
  BY <1>3, <1>4 DEF Existing, Continue, Store, Stored
<1>5. CASE SweepExpired(h)
  <2> DEFINE K == {k \in Stored : fnKv[k].expiresAt < now}
  <2>1. /\ fnKv' = [k \in Key |-> IF k \in K THEN NoRow ELSE fnKv[k]]
        /\ now' = now /\ answer' = answer /\ Pending' = Pending
    BY <1>3, <1>5 DEF SweepExpired
  <2>2. \A k \in K : k \in Key /\ Store[k] = Map!Lapsed
    <3> SUFFICES ASSUME NEW k \in K PROVE k \in Key /\ Store[k] = Map!Lapsed
      OBVIOUS
    <3>1. k \in Key /\ fnKv[k] \in Row /\ now \in Nat
      BY DEF Stored, TypeOK
    <3>2. fnKv[k].expiresAt <= now
      BY <3>1, ConstantsOK DEF Row, ConstantsOK, Never
    <3> QED  BY <3>1, <3>2 DEF Store, Map!Lapsed
  <2>3. Store' = [k \in Key |-> IF k \in K THEN Map!Missing ELSE Store[k]]
    BY <2>1 DEF Store, Stored, Map!Missing
  <2>4. K \in SUBSET {k \in Key : Store[k] = Map!Lapsed}
    BY <2>2
  <2> HIDE DEF K
  <2> QED  BY <2>1, <2>3, <2>4 DEF Map!Sweep
<1>6. CASE Count(h)
  <2>1. CASE Continue(h, "statement")
    BY <1>3, <2>1 DEF Continue, Store, Stored
  <2>2. CASE Reply(h, Refused("kv_quota_exceeded")) /\ UNCHANGED <<fnKv, now>>
    <3>1. Map!Reply(h, Map!Refused("kv_quota_exceeded"))
      BY <2>2, ReplyMaps DEF Refused, Map!Refused
    <3>2. Store' = Store
      BY <2>2 DEF Store, Stored
    <3> QED  BY <1>1, <1>2, <3>1, <3>2 DEF Map!Full, CreatesKey
  <2> QED  BY <1>6, <2>1, <2>2 DEF Count
<1> QED  BY <1>4, <1>5, <1>6

\* Time shows in the entries that lapse.
LEMMA TickMaps ==
    ASSUME TypeOK, TypeOK', Tick
    PROVE  Map!Lapse
<1> DEFINE K == {k \in Key : Store[k] \in Map!Entry /\ Expired(k)'}
<1>1. /\ fnKv' = fnKv /\ now' = now + 1 /\ at' = at /\ answer' = answer
      /\ Stored' = Stored /\ Pending' = Pending /\ now' <= MaxTime
  BY ConstantsOK DEF Tick, Stored, Pending, TypeOK, ConstantsOK
<1>2. \A k \in K : Store[k].ttl
  <2> SUFFICES ASSUME NEW k \in Key, Store[k] \in Map!Entry, Expired(k)'
               PROVE  Store[k].ttl
    OBVIOUS
  <2>0. k \in Stored /\ ~Expired(k) /\ fnKv[k] \in Row
    BY StoreOf DEF TypeOK, Stored
  <2>1. fnKv[k].expiresAt # Never
    BY <1>1, <2>0, ConstantsOK DEF Expired, Row, Never, ConstantsOK, TypeOK
  <2>2. PICK b : /\ b = (fnKv[k].expiresAt # Never)
                 /\ Store[k] = [value |-> fnKv[k].value, ttl |-> b]
    BY <2>0, StoreOf, Zenon
  <2>3. b = TRUE
    BY ONLY <2>1, <2>2, Zenon
  <2>4. Store[k].ttl = b
    BY ONLY <2>2, SMT
  <2> QED  BY <2>3, <2>4, Zenon
<1>3. Store' = [k \in Key |-> IF k \in K THEN Map!Lapsed ELSE Store[k]]
  <2>1. ASSUME NEW k \in Key
        PROVE  Store'[k] = IF k \in K THEN Map!Lapsed ELSE Store[k]
    <3>1. CASE k \in K
      <4>1. k \in Stored /\ k \in Stored' /\ fnKv'[k].expiresAt <= now'
        BY <1>1, <3>1, StoreOf DEF Expired
      <4> QED  BY <3>1, <4>1 DEF Store, Map!Lapsed
    <3>2. CASE k \notin Stored
      BY <1>1, <3>2, StoreOf DEF Store
    <3>3. CASE k \in Stored /\ Expired(k)
      <4>1. k \in Stored' /\ fnKv'[k].expiresAt <= now'
        BY <1>1, <3>3, ConstantsOK DEF Expired, TypeOK, Stored, Row, Never, ConstantsOK
      <4>2. Store'[k] = Map!Lapsed
        BY <4>1 DEF Store, Map!Lapsed
      <4>3. k \notin K /\ Store[k] = Map!Lapsed
        BY <3>3, StoreOf
      <4> QED  BY <4>2, <4>3
    <3>4. CASE k \in Stored /\ ~Expired(k) /\ k \notin K
      <4>1. ~(fnKv[k].expiresAt <= now) /\ ~(fnKv'[k].expiresAt <= now')
        BY <3>4, StoreOf DEF Expired
      <4> QED  BY <1>1, <3>4, <4>1, Zenon DEF Store
    <3> QED  BY <3>1, <3>2, <3>3, <3>4
  <2>2. Store' = [k \in Key |-> Store'[k]]
    BY DEF Store
  <2> HIDE DEF K
  <2> QED  BY <2>1, <2>2
<1>4. K \in SUBSET {k \in Key : Store[k] \in Map!Entry /\ Store[k].ttl}
  BY <1>2
<1> HIDE DEF K
<1> QED  BY <1>1, <1>3, <1>4 DEF Map!Lapse

LEMMA MapStep == IInv /\ IInv' /\ [Next]_vars => [Map!Next]_(Map!vars)
<1> SUFFICES ASSUME IInv, IInv', [Next]_vars
             PROVE  Map!Next \/ UNCHANGED <<Store, Pending, answer>>
  BY DEF Map!vars
<1>0. TypeOK /\ StepInv /\ TypeOK'
  BY DEF IInv
<1>1. CASE UNCHANGED vars
  BY <1>1 DEF vars, Store, Stored, Pending
<1>2. CASE Tick
  BY <1>0, <1>2, TickMaps DEF Map!Next
<1>3. ASSUME NEW h \in Handler, Handle(h)
      PROVE  Map!Next \/ UNCHANGED <<Store, Pending, answer>>
  <2>1. CASE Call(h)
    <3>1. PICK o \in Op : at'[h].call = o /\ \A x \in Handler \ {h} : at'[x] = at[x]
      BY <1>0, <2>1 DEF Call, TypeOK
    <3>2. Pending' = [Pending EXCEPT ![h] = o]
      BY <3>1 DEF Pending
    <3>3. Pending[h] = Map!None
      BY <2>1 DEF Pending, Call, Idle, None, Map!None
    <3>4. o \in Map!Op
      BY <3>1 DEF Op, Map!Op, Value, Map!Value
    <3>5. Store' = Store /\ answer' = [answer EXCEPT ![h] = Map!None]
      BY <2>1 DEF Call, Store, Stored, None, Map!None
    <3> QED  BY <3>2, <3>3, <3>4, <3>5 DEF Map!Call, Map!Next
  <2>2. CASE Existing(h) \/ SweepExpired(h) \/ Count(h)
    BY <1>0, <2>2, QuotaMaps DEF Map!Next
  <2>3. CASE kvGet(h)
    BY <1>0, <2>3, GetMaps DEF Map!Next
  <2>4. CASE kvDelete(h)
    BY <1>0, <2>4, DeleteMaps DEF Map!Next
  <2>5. CASE kvSet(h)
    BY <1>0, <2>5, SetMaps DEF Map!Next
  <2>6. CASE kvIncr(h)
    BY <1>0, <2>6, IncrMaps DEF Map!Next
  <2> QED  BY <1>3, <2>1, <2>2, <2>3, <2>4, <2>5, <2>6 DEF Handle
<1> QED  BY <1>1, <1>2, <1>3 DEF Next

-----------------------------------------------------------------------------
(* Theorems                                                                 *)

\* Rows, clock, calls and answers of kv-store.ts keep their types.
THEOREM KvTypeCorrect == Spec => []TypeOK
<1>1. IInv => TypeOK
  BY DEF IInv
<1> QED  BY IInvInvariant, <1>1, PTL

\* However sets, increments, deletes and sweeps interleave, kv-store.ts's quota is
\* exceeded by less than the number of requests that can be in flight.
THEOREM QuotaCorrect == Spec => []QuotaOvershoot
<1>1. IInv => QuotaOvershoot
  <2> SUFFICES ASSUME IInv PROVE QuotaOvershoot
    OBVIOUS
  <2>1. Claimed \in SUBSET Key /\ Stored \in SUBSET Claimed
    BY DEF IInv, Claimed, Stored, Passed, CreatesKey, TypeOK, Working, Idle, Op
  <2>2. IsFiniteSet(Claimed)
    BY <2>1, FS_Subset, ConstantsOK DEF ConstantsOK
  <2>3. Cardinality(Stored) <= Cardinality(Claimed) /\ IsFiniteSet(Stored)
    BY <2>1, <2>2, FS_Subset
  <2>4. /\ Cardinality(Stored) \in Nat /\ Cardinality(Claimed) \in Nat
        /\ Cardinality(Handler) \in Nat /\ MaxKeys \in Nat
    BY <2>2, <2>3, FS_CardinalityType, ConstantsOK DEF ConstantsOK
  <2> QED  BY <2>3, <2>4 DEF IInv, QuotaInv, QuotaOvershoot
<1> QED  BY IInvInvariant, <1>1, PTL

\* kvGet, kvSet, kvDelete and kvIncr are those of an atomic map with entries that
\* lapse, for any keys, requests, limit and clock.
THEOREM MapCorrect == Spec => AtomicMap
<1> QED  BY MapInit, MapStep, IInvInvariant, PTL DEF Spec, AtomicMap, Map!Spec

=============================================================================
