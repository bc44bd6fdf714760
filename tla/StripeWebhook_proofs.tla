------------------------- MODULE StripeWebhook_proofs -------------------------
(***************************************************************************)
(* The Stripe webhook for any subscriptions, events and handlers: the row  *)
(* never holds what Stripe did not have, and is right once every event was *)
(* taken on in order.                                                      *)
(*                                                                         *)
(* The second is the harder one.  As long as events are taken on in order  *)
(* there is one owner at a time, the processed events come before the one  *)
(* it owns, and the row is what the last of them left (Applied); an event  *)
(* that is on file after them may have changed it already.                 *)
(***************************************************************************)
EXTENDS StripeWebhook, TLAPS

Index == 1..Len(emitted)

LastCheckout(c) ==
    /\ emitted[c].type = "checkout"
    /\ \A j \in Index : emitted[j].type = "checkout" => j <= c

\* What Stripe emits about a subscription: its versions in order, the first of them its
\* checkout and the last the one it has.
EmitInv ==
    /\ \A i \in Index :
        /\ emitted[i].version \in 1..live[emitted[i].sub]
        /\ emitted[i].type = "checkout" <=> emitted[i].version = 1
        /\ \A j \in Index : j < i /\ emitted[j].sub = emitted[i].sub =>
                emitted[j].version < emitted[i].version
    /\ \A s \in Sub : live[s] > 0 =>
        \E i \in Index : emitted[i].sub = s /\ emitted[i].version = live[s]
    /\ emitted # <<>> => \E c \in Index : LastCheckout(c)

OnFile == \A k \in Key : event[k] # "none" => \E i \in Index : emitted[i] = k

SoleOwner == \A g, h \in Handler : g # h /\ Owner(g) /\ Owner(h) => key[g] # key[h]

PlaceInv ==
    \A h \in Handler :
        /\ at[h] # "idle" => \E i \in Index : emitted[i] = key[h]
        /\ Owner(h) => event[key[h]] # "none"
        /\ Owner(h) /\ at[h] # "fail" => event[key[h]] = "open"
        /\ at[h] \in {"find", "write"} =>
             key[h].type = "checkout" /\ seen[h] \in 1..live[key[h].sub]

Owned(k) == \E h \in Handler : Owner(h) /\ key[h] = k

TidyOwner == tidy => \A g, h \in Handler : Owner(g) /\ Owner(h) => g = h

TidyOrder ==
    tidy => \A i, j \in Index : j < i =>
        /\ event[emitted[i]] = "processed" \/ Owned(emitted[i]) => event[emitted[j]] = "processed"
        /\ Owned(emitted[j]) => event[emitted[i]] # "processed"

TidyMark ==
    tidy => \A h \in Handler : at[h] = "mark" =>
        /\ key[h].type = "checkout" => row.sub = key[h].sub
        /\ key[h].type # "checkout" /\ row.sub = key[h].sub => row.version = key[h].version

Bought(c) ==
    /\ c \in Index /\ emitted[c].type = "checkout" /\ event[emitted[c]] = "processed"
    /\ \A j \in Index : j > c /\ emitted[j].type = "checkout" => event[emitted[j]] = "none"

Updated(c, u) ==
    /\ u \in Index /\ u > c /\ event[emitted[u]] = "processed"
    /\ emitted[u].sub = emitted[c].sub
    /\ \A j \in Index : j > u /\ emitted[j].sub = emitted[c].sub => event[emitted[j]] = "none"

Applied ==
    tidy => \A c \in Index : Bought(c) =>
        /\ row.sub = emitted[c].sub
        /\ \A u \in Index : Updated(c, u) => row.version = emitted[u].version

IInv ==
    /\ TypeOK /\ EmitInv /\ OnFile /\ SoleOwner /\ PlaceInv /\ NoInvention
    /\ TidyOwner /\ TidyOrder /\ TidyMark /\ Applied

USE DEF InboxTypeOK, Steps, Answers, Owner, Index

\* A record of an event.
LEMMA KeyFields ==
    ASSUME NEW k \in Key
    PROVE  /\ k.type \in Type /\ k.sub \in Sub /\ k.version \in 1..MaxVersion
           /\ k = [type |-> k.type, sub |-> k.sub, version |-> k.version]
<1> QED  BY StripeConstants DEF StripeConstants

LEMMA AppendFields ==
    ASSUME NEW S, NEW q \in Seq(S), NEW e \in S
    PROVE  /\ Append(q, e) \in Seq(S)
           /\ Len(Append(q, e)) = Len(q) + 1 /\ Len(q) \in Nat
           /\ Append(q, e)[Len(q) + 1] = e
           /\ \A i \in 1..Len(q) : Append(q, e)[i] = q[i] /\ q[i] \in S
<1> QED  OBVIOUS

LEMMA InitInv == Init => IInv
<1> SUFFICES ASSUME Init PROVE IInv
  OBVIOUS
<1> USE DEF Init, InboxInit
<1>1. TypeOK
  <2>1. emitted \in Seq(Key)
    OBVIOUS
  <2>2. 0 \in 0..MaxVersion
    BY StripeConstants DEF StripeConstants
  <2> QED  BY <2>1, <2>2 DEF TypeOK
<1>2. Index = {}
  OBVIOUS
<1>3. EmitInv /\ OnFile /\ SoleOwner /\ PlaceInv /\ NoInvention
  BY <1>2 DEF EmitInv, OnFile, SoleOwner, PlaceInv, NoInvention
<1>4. TidyOwner /\ TidyOrder /\ TidyMark /\ Applied
  BY <1>2 DEF TidyOwner, TidyOrder, TidyMark, Applied
<1> QED  BY <1>1, <1>3, <1>4 DEF IInv

-----------------------------------------------------------------------------
(* Stripe                                                                   *)

LEMMA EmitStep ==
    ASSUME IInv, NEW s \in Sub, Checkout(s) \/ Change(s)
    PROVE  IInv'
<1>0. /\ TypeOK /\ EmitInv /\ OnFile /\ SoleOwner /\ PlaceInv /\ NoInvention
      /\ TidyOwner /\ TidyOrder /\ TidyMark /\ Applied
  BY DEF IInv
<1>1. PICK type \in Type : Emit(type, s) /\ (type = "checkout" <=> live[s] = 0)
                           /\ live[s] \in 0..(MaxVersion - 1) /\ canceled' \subseteq Sub
  BY <1>0, StripeConstants DEF Checkout, Change, TypeOK, Type, StripeConstants
<1> DEFINE k == [type |-> type, sub |-> s, version |-> live[s] + 1]
           n == Len(emitted)
<1>2. /\ k \in Key /\ n \in Nat
      /\ Len(emitted') = n + 1
      /\ emitted'[n + 1] = k
      /\ \A i \in 1..n : emitted'[i] = emitted[i] /\ emitted[i] \in Key
  <2>1. emitted \in Seq(Key) /\ live[s] + 1 \in 1..MaxVersion
    BY <1>0, <1>1, StripeConstants DEF TypeOK, StripeConstants
  <2>2. k \in Key
    BY <2>1, StripeConstants DEF StripeConstants
  <2>3. emitted' = Append(emitted, k)
    BY <1>1 DEF Emit
  <2> HIDE DEF k
  <2> QED  BY <2>1, <2>2, <2>3, AppendFields
<1>3. /\ UNCHANGED <<event, at, key, row, seen, found, tidy>>
      /\ live' = [live EXCEPT ![s] = live[s] + 1]
      /\ live[s] \in Nat
  BY <1>0, <1>1 DEF Emit, inboxVars, dbVars, TypeOK
<1>4. \A x \in Sub : live'[x] \in Nat /\ live[x] \in Nat /\ live[x] <= live'[x]
  BY <1>0, <1>3 DEF TypeOK
<1>5. \A i \in 1..n : emitted[i] # k
  BY <1>0, <1>2, <1>3 DEF EmitInv
<1>6. event[k] = "none" /\ ~Owned(k)
  BY <1>0, <1>2, <1>5 DEF OnFile, Owned, PlaceInv
<1>7. TypeOK'
  <2>1. emitted' \in Seq(Key)
    BY <1>0, <1>1, <1>2, AppendFields DEF TypeOK, Emit
  <2>2. live' \in [Sub -> 0..MaxVersion]
    BY <1>0, <1>1, <1>3, StripeConstants DEF TypeOK, StripeConstants
  <2> QED  BY <1>0, <1>1, <1>3, <2>1, <2>2 DEF TypeOK
<1>8. EmitInv'
  <2>1. ASSUME NEW i \in 1..(n + 1)
        PROVE  /\ emitted'[i].version \in 1..live'[emitted'[i].sub]
               /\ emitted'[i].type = "checkout" <=> emitted'[i].version = 1
               /\ \A j \in 1..(n + 1) : j < i /\ emitted'[j].sub = emitted'[i].sub =>
                    emitted'[j].version < emitted'[i].version
    <3>1. CASE i = n + 1
      <4>1. k.version \in 1..live'[s] /\ (type = "checkout" <=> k.version = 1)
        BY <1>0, <1>1, <1>3 DEF TypeOK
      <4>2. ASSUME NEW j \in 1..n, emitted[j].sub = s PROVE emitted[j].version < k.version
        BY <1>0, <1>3, <4>2 DEF EmitInv
      <4> QED  BY <1>2, <3>1, <4>1, <4>2
    <3>2. CASE i \in 1..n
      <4>1. emitted[i].sub \in Sub
        BY <1>2, <3>2, KeyFields
      <4>2. emitted'[i] = emitted[i] /\ \A j \in 1..(n + 1) : j < i => emitted'[j] = emitted[j]
        <5> HIDE DEF k
        <5> QED  BY <1>2, <3>2
      <4>3. emitted[i].version \in 1..live'[emitted[i].sub]
        BY <1>0, <1>4, <3>2, <4>1 DEF EmitInv
      <4> QED  BY <1>0, <1>2, <3>2, <4>2, <4>3 DEF EmitInv
    <3> QED  BY <1>2, <3>1, <3>2
  <2>2. ASSUME NEW x \in Sub, live'[x] > 0
        PROVE  \E i \in 1..(n + 1) : emitted'[i].sub = x /\ emitted'[i].version = live'[x]
    <3>1. CASE x = s
      <4>1. live'[x] = k.version
        BY <1>0, <1>3, <3>1 DEF TypeOK
      <4> QED  BY <1>2, <3>1, <4>1
    <3>2. CASE x # s
      <4>1. live'[x] = live[x]
        BY <1>0, <1>3, <3>2 DEF TypeOK
      <4>2. PICK i \in 1..n : emitted[i].sub = x /\ emitted[i].version = live[x]
        BY <1>0, <2>2, <4>1 DEF EmitInv
      <4> QED  BY <1>2, <4>1, <4>2
    <3> QED  BY <3>1, <3>2
  <2>3. \E c \in 1..(n + 1) : LastCheckout(c)'
    <3>1. CASE type = "checkout"
      BY <1>2, <3>1 DEF LastCheckout
    <3>2. CASE type # "checkout"
      <4>1. live[s] > 0
        BY <1>1, <1>3, <3>2
      <4>2. PICK i \in 1..n : emitted[i].sub = s
        BY <1>0, <4>1 DEF EmitInv
      <4>3. PICK c \in 1..n : LastCheckout(c)
        BY <1>0, <4>2 DEF EmitInv
      <4>4. k.type # "checkout"
        BY <3>2
      <4>5. LastCheckout(c)'
        <5> HIDE DEF k
        <5> QED  BY <1>2, <4>3, <4>4 DEF LastCheckout
      <4> QED  BY <1>2, <4>3, <4>5
    <3> QED  BY <3>1, <3>2
  <2> QED  BY <1>2, <2>1, <2>2, <2>3 DEF EmitInv
<1>9. OnFile'
  BY <1>0, <1>2, <1>3 DEF OnFile
<1>10. SoleOwner' /\ TidyOwner' /\ TidyMark'
  BY <1>0, <1>3 DEF SoleOwner, TidyOwner, TidyMark
<1>11. PlaceInv'
  <2> SUFFICES ASSUME NEW h \in Handler
               PROVE  /\ at[h] # "idle" => \E i \in 1..(n + 1) : emitted'[i] = key[h]
                      /\ at[h] \in {"find", "write"} => seen[h] \in 1..live'[key[h].sub]
    BY <1>0, <1>2, <1>3 DEF PlaceInv
  <2>1. at[h] # "idle" => \E i \in 1..n : emitted[i] = key[h]
    BY <1>0 DEF PlaceInv
  <2>2. at[h] # "idle" => key[h] \in Key /\ key[h].sub \in Sub
    BY <1>2, <2>1, KeyFields
  <2> QED  BY <1>0, <1>2, <1>4, <2>1, <2>2 DEF PlaceInv
<1>12. NoInvention'
  <2>1. row \notin {Free, NoRow} => row.sub \in Sub
    BY <1>0 DEF TypeOK
  <2> QED  BY <1>0, <1>3, <1>4, <2>1 DEF NoInvention
<1>13. TidyOrder'
  <2> HIDE DEF k
  <2> SUFFICES ASSUME tidy, NEW i \in 1..(n + 1), NEW j \in 1..(n + 1), j < i
               PROVE  LET e == emitted'[i]  f == emitted'[j]
                      IN  /\ event[e] = "processed" \/ Owned(e) => event[f] = "processed"
                          /\ Owned(f) => event[e] # "processed"
    BY <1>2, <1>3 DEF TidyOrder, Owned
  <2>1. j \in 1..n /\ emitted'[j] = emitted[j]
    BY <1>2
  <2>2. CASE i = n + 1
    BY <1>2, <1>6, <2>2
  <2>3. CASE i \in 1..n
    BY <1>0, <1>2, <2>1, <2>3 DEF TidyOrder
  <2> QED  BY <1>2, <2>2, <2>3
<1>14. Applied'
  <2> SUFFICES ASSUME tidy, NEW c \in 1..(n + 1), Bought(c)'
               PROVE  /\ row.sub = emitted'[c].sub
                      /\ \A u \in 1..(n + 1) : Updated(c, u)' => row.version = emitted'[u].version
    BY <1>2, <1>3 DEF Applied
  <2>1. c \in 1..n /\ Bought(c)
    BY <1>2, <1>3, <1>6 DEF Bought
  <2>2. ASSUME NEW u \in 1..(n + 1), Updated(c, u)' PROVE u \in 1..n /\ Updated(c, u)
    <3> HIDE DEF k
    <3>1. u \in 1..n /\ u > c
      BY <1>2, <1>3, <1>6, <2>2 DEF Updated
    <3>2. event[emitted[u]] = "processed" /\ emitted[u].sub = emitted[c].sub
      BY <1>2, <1>3, <2>1, <2>2, <3>1 DEF Updated
    <3>3. ASSUME NEW j \in 1..n, j > u, emitted[j].sub = emitted[c].sub
          PROVE  event[emitted[j]] = "none"
      BY <1>2, <1>3, <2>1, <2>2, <3>3 DEF Updated
    <3> QED  BY <3>1, <3>2, <3>3 DEF Updated
  <2> QED  BY <1>0, <1>2, <2>1, <2>2 DEF Applied
<1> QED  BY <1>7, <1>8, <1>9, <1>10, <1>11, <1>12, <1>13, <1>14 DEF IInv

-----------------------------------------------------------------------------
(* The route                                                                *)

\* An event is emitted once, with the fields of an event.
LEMMA EmittedOnce ==
    ASSUME TypeOK, EmitInv
    PROVE  /\ \A i \in Index : emitted[i] \in Key
           /\ \A i, j \in Index : emitted[i] = emitted[j] => i = j
<1>1. Len(emitted) \in Nat /\ \A i \in Index : emitted[i] \in Key
  BY DEF TypeOK
<1>2. ASSUME NEW i \in Index, NEW j \in Index, j < i, emitted[i] = emitted[j] PROVE FALSE
  <2>1. emitted[i].version \in 1..MaxVersion
    BY <1>1, KeyFields
  <2> QED  BY <1>2, <2>1, StripeConstants DEF EmitInv, StripeConstants
<1>3. ASSUME NEW i \in Index, NEW j \in Index, emitted[i] = emitted[j] PROVE i = j
  <2>1. ~(i < j) /\ ~(j < i)
    BY <1>2, <1>3
  <2> QED  BY <1>1, <2>1
<1> QED  BY <1>1, <1>3

\* Steps that touch neither the event table nor the row, and finish nothing.
LEMMA NothingNew ==
    ASSUME IInv, TypeOK', PlaceInv', UNCHANGED <<event, emitted, live, row, tidy>>,
           \A g \in Handler : Owner(g)' => Owner(g) /\ key'[g] = key[g],
           \A g \in Handler : at'[g] = "mark" => at[g] = "mark"
    PROVE  IInv'
<1>0. /\ TypeOK /\ EmitInv /\ OnFile /\ SoleOwner /\ PlaceInv /\ NoInvention
      /\ TidyOwner /\ TidyOrder /\ TidyMark /\ Applied
  BY DEF IInv
<1>1. EmitInv' /\ OnFile' /\ NoInvention'
  BY <1>0 DEF EmitInv, LastCheckout, OnFile, NoInvention
<1>2. SoleOwner' /\ TidyOwner'
  BY <1>0 DEF SoleOwner, TidyOwner
<1>3. \A k : Owned(k)' => Owned(k)
  BY DEF Owned
<1>4. TidyOrder'
  BY <1>0, <1>3 DEF TidyOrder
<1>5. TidyMark'
  BY <1>0 DEF TidyMark
<1>6. Applied'
  BY <1>0 DEF Applied, Bought, Updated
<1> QED  BY <1>1, <1>2, <1>4, <1>5, <1>6 DEF IInv

LEMMA InboxStep ==
    ASSUME IInv, NEW h \in Handler, UNCHANGED <<stripeVars, dbVars, tidy>>,
           LookUp(h) \/ Throws(h) \/ Crash(h) \/ \E k \in Emitted : Deliver(h, k)
    PROVE  IInv'
<1> USE DEF stripeVars, dbVars, Goto
<1>0. TypeOK /\ EmitInv /\ PlaceInv
  BY DEF IInv
<1>1. CASE \E k \in Emitted : Deliver(h, k)
  <2>1. PICK i \in Index : Deliver(h, emitted[i])
    <3>1. DOMAIN emitted = Index
      BY <1>0 DEF TypeOK
    <3> QED  BY <1>1, <3>1 DEF Emitted
  <2>2. emitted[i] \in Key
    BY <1>0, EmittedOnce
  <2> USE <2>1 DEF Deliver
  <2>3. TypeOK'
    BY <1>0, <2>2 DEF TypeOK
  <2>4. \A g \in Handler : /\ Owner(g)' => Owner(g) /\ key'[g] = key[g]
                           /\ g # h => at'[g] = at[g] /\ key'[g] = key[g]
    BY <1>0 DEF TypeOK
  <2>5. at'[h] = "lookup" /\ key'[h] = emitted[i]
    BY <1>0 DEF TypeOK
  <2>6. PlaceInv'
    BY <1>0, <2>4, <2>5 DEF PlaceInv
  <2>7. \A g \in Handler : at'[g] = "mark" => at[g] = "mark"
    BY <2>4, <2>5
  <2> QED  BY <2>3, <2>4, <2>6, <2>7, NothingNew
<1>2. CASE LookUp(h) \/ Throws(h) \/ Crash(h)
  <2> USE <1>2 DEF LookUp, Throws, Crash
  <2>1. UNCHANGED <<event, key>> /\ at[h] # "idle"
    OBVIOUS
  <2>2. PICK to \in {"insert", "fail"} \cup Answers :
            at' = [at EXCEPT ![h] = to] /\ (to = "fail" => Owner(h))
    OBVIOUS
  <2>3. TypeOK'
    BY <1>0, <2>1, <2>2 DEF TypeOK
  <2>4. \A g \in Handler : at'[g] = IF g = h THEN to ELSE at[g]
    BY <1>0, <2>2 DEF TypeOK
  <2>5. PlaceInv'
    BY <1>0, <2>1, <2>2, <2>4 DEF PlaceInv
  <2> QED  BY <2>1, <2>2, <2>3, <2>4, <2>5, NothingNew
<1> QED  BY <1>1, <1>2

\* The event is recorded, and goes to work unless the connection is lost.
LEMMA TakeOnStep ==
    ASSUME IInv, NEW h \in Handler, TakeOn(h)
    PROVE  IInv'
<1> USE DEF TakeOn, Insert, stripeVars, dbVars, Goto
<1>0. /\ TypeOK /\ EmitInv /\ OnFile /\ SoleOwner /\ PlaceInv /\ NoInvention
      /\ TidyOwner /\ TidyOrder /\ TidyMark /\ Applied
  BY DEF IInv
<1>1. PICK to \in {"work", "error"} :
        /\ at' = [at EXCEPT ![h] = to]
        /\ \/ event[key[h]] = "none" /\ event' = [event EXCEPT ![key[h]] = "open"]
           \/ event' = event /\ to = "error"
  <2>1. CASE event[key[h]] = "none"
    <3>1. at' = [at EXCEPT ![h] = "work"] \/ at' = [at EXCEPT ![h] = "error"]
      BY <2>1
    <3>2. event' = [event EXCEPT ![key[h]] = "open"]
      BY <2>1
    <3> QED  BY <2>1, <3>1, <3>2
  <2>2. CASE event[key[h]] # "none"
    BY <2>2
  <2> QED  BY <2>1, <2>2
<1>2. \A g \in Handler : at'[g] = IF g = h THEN to ELSE at[g]
  BY <1>0, <1>1 DEF TypeOK
<1>3. at[h] = "insert" /\ key' = key /\ ~Owner(h) /\ UNCHANGED <<emitted, live, row>>
  OBVIOUS
<1>4. PICK n \in Index : emitted[n] = key[h] /\ key[h] \in Key
  BY <1>0, <1>3, EmittedOnce DEF PlaceInv
<1>5. /\ tidy' => tidy
      /\ tidy' /\ to = "work" => InTurn(h)
      /\ to = "error" => tidy' = tidy
  BY <1>0, <1>2 DEF TypeOK
<1>6. TypeOK'
  BY <1>0, <1>1, <1>4 DEF TypeOK
<1>7. CASE event' = event /\ to = "error"
  <2>1. PlaceInv'
    BY <1>0, <1>2, <1>3, <1>7 DEF PlaceInv
  <2> QED  BY <1>2, <1>3, <1>5, <1>6, <1>7, <2>1, NothingNew
<1>8. CASE event[key[h]] = "none" /\ event' = [event EXCEPT ![key[h]] = "open"]
  <2>1. \A k \in Key : event'[k] = IF k = key[h] THEN "open" ELSE event[k]
    BY <1>0, <1>4, <1>8 DEF TypeOK
  <2>2. \A g \in Handler : Owner(g) => event[key[g]] # "none" /\ key[g] \in Key /\ key[g] # key[h]
    BY <1>0, <1>8, EmittedOnce DEF PlaceInv
  <2>3. PlaceInv'
    BY <1>0, <1>2, <1>3, <1>4, <2>1, <2>2 DEF PlaceInv
  <2>4. EmitInv' /\ OnFile'
    BY <1>0, <1>3, <1>4, <2>1 DEF EmitInv, LastCheckout, OnFile
  <2>5. SoleOwner'
    BY <1>0, <1>2, <1>3, <2>2 DEF SoleOwner
  <2>6. NoInvention'
    <3> SUFFICES ASSUME row \notin {Free, NoRow}
                 PROVE  event'[[type |-> "checkout", sub |-> row.sub, version |-> 1]] # "none"
      BY <1>0, <1>3 DEF NoInvention
    <3>1. [type |-> "checkout", sub |-> row.sub, version |-> 1] \in Key
      BY <1>0, StripeConstants DEF TypeOK, StripeConstants, Type
    <3> QED  BY <1>0, <2>1, <3>1 DEF NoInvention
  <2>7. TidyOwner'
    BY <1>0, <1>2, <1>5 DEF TidyOwner, InTurn
  <2>8. TidyMark'
    BY <1>0, <1>2, <1>3, <1>5 DEF TidyMark
  <2>9. \A i \in Index : /\ emitted[i] \in Key
                         /\ event'[emitted[i]] = "processed" <=> event[emitted[i]] = "processed"
                         /\ event'[emitted[i]] = "none" => event[emitted[i]] = "none"
    BY <1>0, <1>8, <2>1, EmittedOnce
  <2>10. TidyOrder'
    <3> SUFFICES ASSUME tidy', NEW i \in Index, NEW j \in Index, j < i
                 PROVE  /\ event[emitted[i]] = "processed" \/ Owned(emitted[i])' =>
                             event[emitted[j]] = "processed"
                        /\ Owned(emitted[j])' => event[emitted[i]] # "processed"
      BY <1>3, <2>9 DEF TidyOrder
    <3>1. \A k : Owned(k)' => Owned(k) \/ (k = key[h] /\ to = "work")
      BY <1>2, <1>3 DEF Owned
    <3>2. CASE emitted[i] = key[h] /\ to = "work"
      <4>1. PICK x \in DOMAIN emitted :
               emitted[x] = key[h] /\ \A y \in 1..(x - 1) : event[emitted[y]] = "processed"
        BY <1>5, <3>2 DEF InTurn
      <4>2. x \in Index /\ x = i
        BY <1>0, <3>2, <4>1, EmittedOnce DEF TypeOK
      <4>3. j \in 1..(x - 1)
        BY <4>2
      <4>4. ~Owned(emitted[j]) /\ emitted[j] # key[h]
        BY <1>8, <4>1, <4>3, <1>5, <3>2 DEF Owned, InTurn
      <4> QED  BY <1>8, <3>1, <3>2, <4>1, <4>3, <4>4
    <3>3. CASE ~(emitted[i] = key[h] /\ to = "work")
      BY <1>0, <1>5, <1>8, <3>1, <3>3 DEF TidyOrder
    <3> QED  BY <3>2, <3>3
  <2>11. Applied'
    <3>1. \A c \in Index : Bought(c)' => Bought(c)
      BY <1>3, <2>9 DEF Bought
    <3>2. \A c, u \in Index : Updated(c, u)' => Updated(c, u)
      BY <1>3, <2>9 DEF Updated
    <3> QED  BY <1>0, <1>3, <1>5, <3>1, <3>2 DEF Applied
  <2> QED  BY <1>6, <2>3, <2>4, <2>5, <2>6, <2>7, <2>8, <2>10, <2>11 DEF IInv
<1> QED  BY <1>1, <1>7, <1>8

\* checkout.session.completed up to its write.
LEMMA CheckoutStep ==
    ASSUME IInv, NEW h \in Handler, Retrieve(h) \/ FindRow(h)
    PROVE  IInv'
<1> USE DEF Retrieve, FindRow, stripeVars, dbVars, Goto
<1>0. TypeOK /\ EmitInv /\ PlaceInv
  BY DEF IInv
<1>1. UNCHANGED <<event, key, live, emitted, row, tidy>> /\ at[h] \in {"work", "find"}
  OBVIOUS
<1>2. PICK to \in {"find", "write"} : at' = [at EXCEPT ![h] = to]
  OBVIOUS
<1>3. \A g \in Handler : at'[g] = IF g = h THEN to ELSE at[g]
  BY <1>0, <1>2 DEF TypeOK
<1>4. PICK i \in Index : emitted[i] = key[h]
  BY <1>0, <1>1 DEF PlaceInv
<1>5. key[h] \in Key /\ key[h].sub \in Sub /\ live[key[h].sub] \in 0..MaxVersion
  BY <1>0, <1>4, EmittedOnce, KeyFields DEF TypeOK
<1>6. live[key[h].sub] \in 1..live[key[h].sub]
  BY <1>0, <1>4, <1>5, StripeConstants DEF EmitInv, StripeConstants
<1>7. key[h].type = "checkout" /\ seen'[h] \in 1..live[key[h].sub]
  BY <1>0, <1>6 DEF PlaceInv, TypeOK
<1>8. \A g \in Handler : g # h => seen'[g] = seen[g]
  BY <1>0 DEF TypeOK
<1>9. TypeOK'
  <2>1. seen' \in [Handler -> 0..MaxVersion] /\ found' \in [Handler -> BOOLEAN]
    BY <1>0, <1>5 DEF TypeOK
  <2> QED  BY <1>0, <1>1, <1>2, <2>1 DEF TypeOK
<1>10. PlaceInv'
  BY <1>0, <1>1, <1>3, <1>7, <1>8 DEF PlaceInv
<1>11. \A g \in Handler : Owner(g)' => Owner(g)
  BY <1>1, <1>3
<1> QED  BY <1>1, <1>2, <1>3, <1>9, <1>10, <1>11, NothingNew

\* An owner writes the row, and is ready to mark its event or in the catch block.
\* What it wrote is of no event that is processed in order: those come before its own.
LEMMA WriteStep ==
    ASSUME IInv, NEW h \in Handler, at[h] \in {"work", "write"},
           NEW to \in {"mark", "fail"}, at' = [at EXCEPT ![h] = to],
           UNCHANGED <<event, key, live, canceled, emitted, seen, found, tidy>>,
           TypeOK', NoInvention', TidyMark',
           \A c, u \in Index : tidy /\ Bought(c) =>
                /\ row'.sub = emitted[c].sub
                /\ Updated(c, u) => row'.version = emitted[u].version
    PROVE  IInv'
<1>0. /\ TypeOK /\ EmitInv /\ OnFile /\ SoleOwner /\ PlaceInv /\ NoInvention
      /\ TidyOwner /\ TidyOrder /\ TidyMark /\ Applied
  BY DEF IInv
<1>1. \A g \in Handler : at'[g] = IF g = h THEN to ELSE at[g]
  BY <1>0 DEF TypeOK
<1>2. \A g \in Handler : Owner(g)' => Owner(g)
  BY <1>1
<1>3. EmitInv' /\ OnFile'
  BY <1>0 DEF EmitInv, LastCheckout, OnFile
<1>4. SoleOwner' /\ TidyOwner'
  BY <1>0, <1>2 DEF SoleOwner, TidyOwner
<1>5. PlaceInv'
  BY <1>0, <1>1 DEF PlaceInv
<1>6. TidyOrder'
  <2>1. \A k : Owned(k)' => Owned(k)
    BY <1>2 DEF Owned
  <2> QED  BY <1>0, <2>1 DEF TidyOrder
<1>7. Applied'
  BY DEF Applied, Bought, Updated
<1> QED  BY <1>3, <1>4, <1>5, <1>6, <1>7 DEF IInv

\* The event of an owner that has yet to write, and its place in the order.
LEMMA OwnEvent ==
    ASSUME IInv, NEW h \in Handler, at[h] \in {"work", "write"}
    PROVE  \E n \in Index :
            /\ emitted[n] = key[h] /\ key[h] \in Key /\ event[key[h]] = "open"
            /\ key[h].version \in 1..live[key[h].sub]
            /\ key[h].type = "checkout" <=> key[h].version = 1
            /\ tidy => \A c \in Index : event[emitted[c]] = "processed" => c < n
<1>0. TypeOK /\ EmitInv /\ PlaceInv /\ TidyOrder
  BY DEF IInv
<1>1. PICK n \in Index : emitted[n] = key[h]
  BY <1>0 DEF PlaceInv
<1>2. key[h] \in Key /\ event[key[h]] = "open" /\ Owned(emitted[n])
  BY <1>0, <1>1, EmittedOnce DEF PlaceInv, Owned
<1>3. ASSUME tidy, NEW c \in Index, event[emitted[c]] = "processed" PROVE c < n
  <2>1. ~(n < c) /\ n # c
    BY <1>0, <1>1, <1>2, <1>3 DEF TidyOrder
  <2> QED  BY <1>0, <2>1 DEF TypeOK
<1> QED  BY <1>0, <1>1, <1>2, <1>3 DEF EmitInv

LEMMA WriteRowStep ==
    ASSUME IInv, NEW h \in Handler, WriteRow(h)
    PROVE  IInv'
<1> USE DEF WriteRow, Ran, Goto, stripeVars
<1>0. TypeOK /\ EmitInv /\ PlaceInv /\ TidyOwner
  BY DEF IInv
<1>1. PICK n \in Index :
            /\ emitted[n] = key[h] /\ key[h] \in Key /\ event[key[h]] = "open"
            /\ key[h].type = "checkout" <=> key[h].version = 1
            /\ tidy => \A c \in Index : event[emitted[c]] = "processed" => c < n
  BY OwnEvent
<1>2. key[h].type = "checkout" /\ seen[h] \in 1..live[key[h].sub]
  BY <1>0 DEF PlaceInv
<1>3. key[h].sub \in Sub /\ live[key[h].sub] \in 0..MaxVersion
  BY <1>0, <1>1, KeyFields DEF TypeOK
<1>4. CASE row' = row /\ at' = [at EXCEPT ![h] = "fail"]
  <2>1. TypeOK'
    BY <1>0, <1>4 DEF TypeOK
  <2>2. \A g \in Handler : at'[g] = IF g = h THEN "fail" ELSE at[g]
    BY <1>0, <1>4 DEF TypeOK
  <2>3. PlaceInv'
    BY <1>0, <2>2 DEF PlaceInv
  <2> QED  BY <1>4, <2>1, <2>2, <2>3, NothingNew
<1>5. CASE row' = [sub |-> key[h].sub, version |-> seen[h]] /\ Ran(h, "mark")
  <2>1. PICK to \in {"mark", "fail"} : at' = [at EXCEPT ![h] = to]
    BY <1>5
  <2>2. TypeOK'
    <3>1. row' \in [sub : Sub, version : 1..MaxVersion]
      BY <1>2, <1>3, <1>5, StripeConstants DEF StripeConstants
    <3> QED  BY <1>0, <2>1, <3>1 DEF TypeOK
  <2>3. NoInvention'
    <3>1. key[h] = [type |-> "checkout", sub |-> key[h].sub, version |-> 1]
      BY <1>1, <1>2, KeyFields
    <3> QED  BY <1>1, <1>2, <1>5, <3>1 DEF NoInvention
  <2>4. TidyMark'
    <3>1. \A g \in Handler : at'[g] = IF g = h THEN to ELSE at[g]
      BY <1>0, <2>1 DEF TypeOK
    <3> QED  BY <1>0, <1>2, <1>5, <3>1 DEF TidyMark, TidyOwner
  <2>5. ASSUME tidy, NEW c \in Index PROVE ~Bought(c)
    BY <1>1, <1>2, <2>5 DEF Bought
  <2> QED  BY <2>1, <2>2, <2>3, <2>4, <2>5, WriteStep
<1> QED  BY <1>4, <1>5

LEMMA UpdateRowStep ==
    ASSUME IInv, NEW h \in Handler, UpdateRow(h)
    PROVE  IInv'
<1> USE DEF UpdateRow, Ran, Goto, stripeVars
<1>0. TypeOK /\ EmitInv /\ PlaceInv /\ NoInvention /\ TidyOwner /\ Applied
  BY DEF IInv
<1>1. PICK n \in Index :
            /\ emitted[n] = key[h] /\ key[h] \in Key /\ event[key[h]] = "open"
            /\ key[h].version \in 1..live[key[h].sub]
            /\ tidy => \A c \in Index : event[emitted[c]] = "processed" => c < n
  BY OwnEvent
<1>2. key[h].sub \in Sub /\ key[h].version \in 1..MaxVersion /\ key[h].type # "checkout"
  BY <1>1, KeyFields
<1>3. \/ row.sub # key[h].sub /\ row' = row
      \/ /\ row.sub = key[h].sub /\ row \in [sub : Sub, version : 1..MaxVersion]
         /\ row' \in [sub : Sub, version : 1..MaxVersion]
         /\ row'.sub = row.sub /\ row'.version = key[h].version
  BY <1>0, <1>2, StripeConstants DEF TypeOK, Free, NoRow, StripeConstants
<1>4. PICK to \in {"mark", "fail"} : at' = [at EXCEPT ![h] = to]
  OBVIOUS
<1>5. TypeOK'
  BY <1>0, <1>3, <1>4 DEF TypeOK
<1>6. NoInvention'
  BY <1>0, <1>1, <1>3 DEF NoInvention, Free, NoRow
<1>7. TidyMark'
  <2>1. \A g \in Handler : at'[g] = IF g = h THEN to ELSE at[g]
    BY <1>0, <1>4 DEF TypeOK
  <2> QED  BY <1>0, <1>2, <1>3, <2>1 DEF TidyMark, TidyOwner
<1>8. ASSUME tidy, NEW c \in Index, Bought(c)
      PROVE  /\ row'.sub = emitted[c].sub
             /\ \A u \in Index : Updated(c, u) => row'.version = emitted[u].version
  <2>1. row'.sub = row.sub /\ row.sub = emitted[c].sub
    BY <1>0, <1>3, <1>8 DEF Applied
  <2>2. ASSUME NEW u \in Index, Updated(c, u) PROVE row'.version = emitted[u].version
    <3>1. u < n
      BY <1>1, <1>8, <2>2 DEF Updated
    <3>2. emitted[n].sub # emitted[c].sub
      BY <1>1, <2>2, <3>1 DEF Updated
    <3> QED  BY <1>0, <1>1, <1>3, <1>8, <2>1, <2>2, <3>2 DEF Applied
  <2> QED  BY <2>1, <2>2
<1> QED  BY <1>4, <1>5, <1>6, <1>7, <1>8, WriteStep

\* The event is processed: what it wrote is still in the row, and becomes the last.
LEMMA MarkProcessedStep ==
    ASSUME IInv, NEW h \in Handler, MarkProcessed(h), UNCHANGED <<stripeVars, dbVars, tidy>>
    PROVE  IInv'
<1> USE DEF MarkProcessed, Ran, Goto, stripeVars, dbVars
<1>0. /\ TypeOK /\ EmitInv /\ OnFile /\ SoleOwner /\ PlaceInv /\ NoInvention
      /\ TidyOwner /\ TidyOrder /\ TidyMark /\ Applied
  BY DEF IInv
<1>1. PICK to \in {"ok", "fail"} : at' = [at EXCEPT ![h] = to]
  OBVIOUS
<1>2. /\ at[h] = "mark" /\ event' = [event EXCEPT ![key[h]] = "processed"]
      /\ UNCHANGED <<key, live, emitted, row, seen, tidy>>
  OBVIOUS
<1>3. \A g \in Handler : at'[g] = IF g = h THEN to ELSE at[g]
  BY <1>0, <1>1 DEF TypeOK
<1>4. PICK n \in Index : emitted[n] = key[h] /\ key[h] \in Key
  BY <1>0, <1>2, EmittedOnce DEF PlaceInv
<1>5. \A k \in Key : event'[k] = IF k = key[h] THEN "processed" ELSE event[k]
  BY <1>0, <1>2, <1>4 DEF TypeOK
<1>6. \A i \in Index : /\ emitted[i] \in Key
                       /\ event'[emitted[i]] = IF i = n THEN "processed" ELSE event[emitted[i]]
  BY <1>0, <1>4, <1>5, EmittedOnce
<1>7. Owned(emitted[n]) /\ \A k : Owned(k)' => Owned(k)
  BY <1>2, <1>3, <1>4 DEF Owned
<1>8. TypeOK'
  BY <1>0, <1>1, <1>2, <1>4 DEF TypeOK
<1>9. EmitInv' /\ OnFile'
  BY <1>0, <1>2, <1>4, <1>5 DEF EmitInv, LastCheckout, OnFile
<1>10. SoleOwner' /\ TidyOwner' /\ TidyMark'
  BY <1>0, <1>2, <1>3 DEF SoleOwner, TidyOwner, TidyMark
<1>11. PlaceInv'
  <2>1. \A g \in Handler : Owner(g) => key[g] \in Key /\ (g # h => key[g] # key[h])
    BY <1>0, <1>2, EmittedOnce DEF SoleOwner, PlaceInv
  <2> QED  BY <1>0, <1>2, <1>3, <1>4, <1>5, <2>1 DEF PlaceInv
<1>12. NoInvention'
  <2> SUFFICES ASSUME row \notin {Free, NoRow}
               PROVE  event'[[type |-> "checkout", sub |-> row.sub, version |-> 1]] # "none"
    BY <1>0, <1>2 DEF NoInvention
  <2>1. [type |-> "checkout", sub |-> row.sub, version |-> 1] \in Key
    BY <1>0, StripeConstants DEF TypeOK, StripeConstants, Type
  <2> QED  BY <1>0, <1>5, <2>1 DEF NoInvention
<1>13. TidyOrder'
  <2> SUFFICES ASSUME tidy, NEW i \in Index, NEW j \in Index, j < i
               PROVE  /\ event'[emitted[i]] = "processed" \/ Owned(emitted[i])' =>
                           event'[emitted[j]] = "processed"
                      /\ Owned(emitted[j])' => event'[emitted[i]] # "processed"
    BY <1>2 DEF TidyOrder
  <2>1. event'[emitted[i]] = "processed" \/ Owned(emitted[i])' => event'[emitted[j]] = "processed"
    BY <1>0, <1>6, <1>7 DEF TidyOrder
  <2>2. ASSUME Owned(emitted[j])' PROVE j = n
    <3>1. PICK g \in Handler : Owner(g) /\ key[g] = emitted[j]
      BY <1>7, <2>2 DEF Owned
    <3>2. g = h
      BY <1>0, <1>2, <3>1 DEF TidyOwner
    <3> QED  BY <1>0, <1>4, <3>1, <3>2, EmittedOnce
  <2>3. i # j
    BY <1>0 DEF TypeOK
  <2>4. Owned(emitted[j])' => event'[emitted[i]] # "processed"
    BY <1>0, <1>6, <1>7, <2>2, <2>3 DEF TidyOrder
  <2> QED  BY <2>1, <2>4
<1>14. Applied'
  <2> SUFFICES ASSUME tidy, NEW c \in Index, Bought(c)'
               PROVE  /\ row.sub = emitted[c].sub
                      /\ \A u \in Index : Updated(c, u)' => row.version = emitted[u].version
    BY <1>2 DEF Applied
  <2>1. emitted[c].type = "checkout" /\ event'[emitted[c]] = "processed"
    BY <1>2 DEF Bought
  <2>2. \A j \in Index : j > c /\ emitted[j].type = "checkout" => event'[emitted[j]] = "none"
    BY <1>2 DEF Bought
  <2>3. CASE c = n
    <3>1. row.sub = emitted[c].sub
      BY <1>0, <1>2, <1>4, <2>1, <2>3 DEF TidyMark
    <3>2. ASSUME NEW u \in Index, Updated(c, u)' PROVE FALSE
      <4>1. u > c /\ event'[emitted[u]] = "processed"
        BY <1>2, <3>2 DEF Updated
      <4>2. u # n
        BY <1>0, <2>3, <4>1 DEF TypeOK
      <4> QED  BY <1>0, <1>6, <1>7, <2>3, <4>1, <4>2 DEF TidyOrder
    <3> QED  BY <3>1, <3>2
  <2>4. CASE c # n
    <3>1. Bought(c)
      BY <1>6, <2>1, <2>2, <2>4 DEF Bought
    <3>2. row.sub = emitted[c].sub
      BY <1>0, <3>1 DEF Applied
    <3>3. ASSUME NEW u \in Index, Updated(c, u)' PROVE row.version = emitted[u].version
      <4>1. /\ u > c /\ event'[emitted[u]] = "processed" /\ emitted[u].sub = emitted[c].sub
            /\ \A j \in Index : j > u /\ emitted[j].sub = emitted[c].sub =>
                    event'[emitted[j]] = "none"
        BY <1>2, <3>3 DEF Updated
      <4>2. CASE u = n
        <5>1. key[h].type # "checkout"
          BY <1>4, <2>2, <4>1, <4>2
        <5> QED  BY <1>0, <1>2, <1>4, <3>2, <4>1, <4>2, <5>1 DEF TidyMark
      <4>3. CASE u # n
        <5>1. Updated(c, u)
          BY <1>6, <4>1, <4>3 DEF Updated
        <5> QED  BY <1>0, <3>1, <5>1 DEF Applied
      <4> QED  BY <4>2, <4>3
    <3> QED  BY <3>2, <3>3
  <2> QED  BY <2>3, <2>4
<1> QED  BY <1>8, <1>9, <1>10, <1>11, <1>12, <1>13, <1>14 DEF IInv

LEMMA MarkFailedStep ==
    ASSUME IInv, NEW h \in Handler, MarkFailed(h), UNCHANGED <<stripeVars, dbVars, tidy>>
    PROVE  IInv'
<1> USE DEF MarkFailed, Goto, stripeVars, dbVars
<1>0. /\ TypeOK /\ EmitInv /\ OnFile /\ SoleOwner /\ PlaceInv /\ NoInvention
      /\ TidyOwner /\ TidyOrder /\ TidyMark /\ Applied
  BY DEF IInv
<1>2. /\ at[h] = "fail" /\ event' = [event EXCEPT ![key[h]] = "failed"]
      /\ at' = [at EXCEPT ![h] = "error"]
      /\ UNCHANGED <<key, live, emitted, row, seen, tidy>>
  OBVIOUS
<1>3. \A g \in Handler : at'[g] = IF g = h THEN "error" ELSE at[g]
  BY <1>0, <1>2 DEF TypeOK
<1>4. PICK n \in Index : emitted[n] = key[h] /\ key[h] \in Key
  BY <1>0, <1>2, EmittedOnce DEF PlaceInv
<1>5. \A k \in Key : event'[k] = IF k = key[h] THEN "failed" ELSE event[k]
  BY <1>0, <1>2, <1>4 DEF TypeOK
<1>6. \A i \in Index : /\ emitted[i] \in Key
                       /\ event'[emitted[i]] = IF i = n THEN "failed" ELSE event[emitted[i]]
  BY <1>0, <1>4, <1>5, EmittedOnce
<1>7. event[emitted[n]] # "none"
  BY <1>0, <1>2, <1>4 DEF PlaceInv
<1>8. TypeOK'
  BY <1>0, <1>2, <1>4 DEF TypeOK
<1>9. EmitInv' /\ OnFile'
  BY <1>0, <1>2, <1>4, <1>5 DEF EmitInv, LastCheckout, OnFile
<1>10. SoleOwner' /\ TidyOwner' /\ TidyMark'
  BY <1>0, <1>2, <1>3 DEF SoleOwner, TidyOwner, TidyMark
<1>11. PlaceInv'
  <2>1. \A g \in Handler : Owner(g) => key[g] \in Key /\ (g # h => key[g] # key[h])
    BY <1>0, <1>2, EmittedOnce DEF SoleOwner, PlaceInv
  <2> QED  BY <1>0, <1>2, <1>3, <1>4, <1>5, <2>1 DEF PlaceInv
<1>12. NoInvention'
  <2> SUFFICES ASSUME row \notin {Free, NoRow}
               PROVE  event'[[type |-> "checkout", sub |-> row.sub, version |-> 1]] # "none"
    BY <1>0, <1>2 DEF NoInvention
  <2>1. [type |-> "checkout", sub |-> row.sub, version |-> 1] \in Key
    BY <1>0, StripeConstants DEF TypeOK, StripeConstants, Type
  <2> QED  BY <1>0, <1>5, <2>1 DEF NoInvention
<1>13. TidyOrder'
  <2>1. tidy => \A k : ~Owned(k)'
    BY <1>0, <1>2, <1>3 DEF TidyOwner, Owned
  <2>2. Owned(emitted[n])
    BY <1>2, <1>4 DEF Owned
  <2> QED  BY <1>0, <1>2, <1>6, <2>1, <2>2 DEF TidyOrder
<1>14. Applied'
  <2>1. \A c \in Index : Bought(c)' => Bought(c)
    BY <1>2, <1>6 DEF Bought
  <2>2. \A c, u \in Index : Updated(c, u)' => Updated(c, u)
    BY <1>2, <1>6 DEF Updated
  <2> QED  BY <1>0, <1>2, <2>1, <2>2 DEF Applied
<1> QED  BY <1>8, <1>9, <1>10, <1>11, <1>12, <1>13, <1>14 DEF IInv

-----------------------------------------------------------------------------
(* The theorems                                                             *)

LEMMA NextInv == IInv /\ [Next]_vars => IInv'
<1> SUFFICES ASSUME IInv, [Next]_vars PROVE IInv'
  OBVIOUS
<1>1. CASE \E s \in Sub : Checkout(s) \/ Change(s)
  BY <1>1, EmitStep
<1>2. CASE \E h \in Handler : Handle(h)
  <2>1. PICK h \in Handler : Handle(h)
    BY <1>2
  <2>2. CASE (LookUp(h) \/ Settle(h)) /\ UNCHANGED <<stripeVars, dbVars, tidy>>
    BY <2>2, InboxStep, MarkProcessedStep, MarkFailedStep DEF Settle
  <2>3. CASE TakeOn(h)
    BY <2>3, TakeOnStep
  <2>4. CASE Retrieve(h) \/ FindRow(h) \/ WriteRow(h) \/ UpdateRow(h)
    BY <2>4, CheckoutStep, WriteRowStep, UpdateRowStep
  <2> QED  BY <2>1, <2>2, <2>3, <2>4 DEF Handle
<1>3. CASE \E h \in Handler, k \in Key : Send(h, k)
  BY <1>3, InboxStep DEF Send
<1>4. CASE UNCHANGED vars
  BY <1>4 DEF IInv, vars, inboxVars, stripeVars, dbVars, TypeOK, EmitInv, LastCheckout, OnFile,
     SoleOwner, PlaceInv, NoInvention, TidyOwner, TidyOrder, TidyMark, Applied, Bought, Updated, Owned
<1> QED  BY <1>1, <1>2, <1>3, <1>4 DEF Next

LEMMA Invariant == Spec => []IInv
<1> QED  BY InitInv, NextInv, PTL DEF Spec

\* The state of the webhook keeps its types.
THEOREM StripeTypeCorrect == Spec => []TypeOK
<1>1. IInv => TypeOK
  BY DEF IInv
<1> QED  BY Invariant, <1>1, PTL

\* Whatever the order, the row holds a version Stripe's subscription really had, of a
\* subscription whose checkout is on file.
THEOREM NoInventionCorrect == Spec => []NoInvention
<1>1. IInv => NoInvention
  BY DEF IInv
<1> QED  BY Invariant, <1>1, PTL

\* Events taken on in order leave the row of the last checkout, at Stripe's version.
THEOREM CaughtUpCorrect == Spec => []CaughtUp
<1>1. IInv => CaughtUp
  <2> SUFFICES ASSUME IInv, tidy, emitted # <<>>, \A k \in Emitted : event[k] = "processed"
               PROVE  row = [sub |-> LastBought, version |-> live[LastBought]]
    BY DEF CaughtUp
  <2>0. TypeOK /\ EmitInv /\ NoInvention /\ Applied
    BY DEF IInv
  <2>1. DOMAIN emitted = Index /\ Len(emitted) \in Nat
    BY <2>0 DEF TypeOK
  <2>2. PICK c \in Index : LastCheckout(c)
    BY <2>0 DEF EmitInv
  <2>3. LastBought = emitted[c].sub
    <3> DEFINE bought == {i \in DOMAIN emitted : emitted[i].type = "checkout"}
               last == CHOOSE i \in bought : \A j \in bought : j <= i
    <3>1. c \in bought /\ \A j \in bought : j <= c
      BY <2>1, <2>2 DEF LastCheckout
    <3>2. last \in bought /\ \A j \in bought : j <= last
      BY <3>1
    <3>3. last \in Nat /\ c \in Nat /\ last <= c /\ c <= last
      <4> HIDE DEF last
      <4> QED  BY <2>1, <3>1, <3>2
    <3>4. last = c
      <4> HIDE DEF last, bought
      <4> QED  BY <3>3
    <3> QED  BY <3>4 DEF LastBought
  <2> DEFINE s == emitted[c].sub
  <2>4. \A i \in Index : emitted[i] \in Key /\ event[emitted[i]] = "processed"
    BY <2>0, <2>1, EmittedOnce DEF Emitted
  <2>5. s \in Sub /\ live[s] \in Nat /\ live[s] > 0
    <3>1. s \in Sub /\ emitted[c].version \in 1..live[s]
      BY <2>0, <2>4, KeyFields DEF EmitInv
    <3>2. live[s] \in 0..MaxVersion
      BY <2>0, <3>1 DEF TypeOK
    <3> QED  BY <3>1, <3>2, StripeConstants DEF StripeConstants
  <2>6. Bought(c)
    BY <2>1, <2>2, <2>4 DEF Bought, LastCheckout
  <2>7. row.sub = s
    BY <2>0, <2>6 DEF Applied
  <2>8. row \in [sub : Sub, version : 1..MaxVersion]
    BY <2>0, <2>5, <2>7, StripeConstants DEF TypeOK, Free, NoRow, StripeConstants
  <2>9. PICK i \in Index : emitted[i].sub = s /\ emitted[i].version = live[s]
    BY <2>0, <2>5 DEF EmitInv
  <2>10. row.version = live[s]
    <3>1. CASE i = c
      <4>1. live[s] = 1
        BY <2>0, <2>2, <2>9, <3>1 DEF EmitInv, LastCheckout
      <4>2. row \notin {Free, NoRow}
        BY <2>8, StripeConstants DEF Free, NoRow, StripeConstants
      <4> QED  BY <2>0, <2>7, <4>1, <4>2 DEF NoInvention
    <3>2. CASE i > c
      <4>1. ASSUME NEW j \in Index, j > i, emitted[j].sub = s PROVE FALSE
        <5>1. emitted[j].version \in 1..live[s] /\ live[s] < emitted[j].version
          BY <2>0, <2>9, <4>1 DEF EmitInv
        <5> QED  BY <2>5, <5>1
      <4>2. Updated(c, i)
        BY <2>4, <2>9, <3>2, <4>1 DEF Updated
      <4> QED  BY <2>0, <2>6, <2>9, <4>2 DEF Applied
    <3>3. CASE i < c
      <4>1. emitted[i].version < emitted[c].version /\ emitted[c].version \in 1..live[s]
        BY <2>0, <2>9, <3>3 DEF EmitInv
      <4> QED  BY <2>5, <2>9, <4>1
    <3> QED  BY <2>1, <3>1, <3>2, <3>3
  <2> QED  BY <2>3, <2>7, <2>8, <2>10
<1> QED  BY Invariant, <1>1, PTL

=============================================================================
