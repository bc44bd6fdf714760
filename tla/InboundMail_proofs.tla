-------------------------- MODULE InboundMail_proofs --------------------------
(***************************************************************************)
(* Inbound mail for any handlers, events and lists of recipients, whatever *)
(* throws, crashes or is delivered again: the function runs at most once   *)
(* for a recipient, and an event that is marked processed has been dealt   *)
(* with to its last recipient.                                             *)
(*                                                                         *)
(* Neither is inductive: an event has one owner, who has settled the       *)
(* recipients behind its position and run none ahead of it.                *)
(***************************************************************************)
EXTENDS DeployAndMail, Deploy_proofs

Moving == {"work", "match", "run", "note", "mark"}

\* A recipient has been run and noted, or passed over and not run.
Settled(k, i) ==
    \/ mailRuns[<<k, i>>] = 1 /\ <<k, RecipientOf(k, i)>> \in noted
    \/ mailRuns[<<k, i>>] = 0 /\ <<k, i>> \in passedOver

\* The first n - 1 recipients of an event are, and no address has run twice.
SettledBefore(k, n) ==
    /\ \A i \in DOMAIN Recipients[k] : i < n => Settled(k, i)
    /\ \A i, j \in DOMAIN Recipients[k] :
         i < n /\ j < n /\ i # j /\ RecipientOf(k, i) = RecipientOf(k, j) =>
            mailRuns[<<k, i>>] = 0 \/ mailRuns[<<k, j>>] = 0

SoleOwner == \A g, h \in Handler : g # h /\ Owner(g) /\ Owner(h) => key[g] # key[h]

OwnerInv ==
    \A h \in Handler :
        /\ at[h] # "idle" => key[h] \in Key
        /\ Owner(h) => event[key[h]] # "none"
        /\ at[h] \in Moving => event[key[h]] = "open"
        /\ at[h] \in {"idle", "lookup", "insert", "work"} => position[h] = 1

PlaceOf(h, k, n) ==
    /\ at[h] \in Moving =>
        /\ SettledBefore(k, n)
        /\ \A i \in DOMAIN Recipients[k] : i > n => mailRuns[<<k, i>>] = 0
    /\ at[h] \in {"work", "match", "run"} /\ n \in DOMAIN Recipients[k] => mailRuns[<<k, n>>] = 0
    /\ at[h] \in {"run", "note"} => n \in DOMAIN Recipients[k]
    /\ at[h] = "note" => mailRuns[<<k, n>>] = 1
    /\ at[h] = "mark" => n \notin DOMAIN Recipients[k]

PlaceInv == \A h \in Handler : PlaceOf(h, key[h], position[h])

EventInv ==
    \A k \in Key :
        /\ \A i \in DOMAIN Recipients[k] :
            /\ mailRuns[<<k, i>>] \in {0, 1}
            /\ event[k] = "none" => mailRuns[<<k, i>>] = 0
        /\ event[k] = "processed" => \E n \in Nat : SettledBefore(k, n) /\ \A i \in DOMAIN Recipients[k] : i < n

MailInv == MailTypeOK /\ SoleOwner /\ OwnerInv /\ PlaceInv /\ EventInv

USE DEF InboxTypeOK, MailSteps, Answers, Owner

LEMMA Places ==
    /\ \A k \in Key : Recipients[k] \in Seq(Address) /\ DOMAIN Recipients[k] = 1..Len(Recipients[k])
                      /\ Len(Recipients[k]) \in Nat
    /\ \A k, i : <<k, i>> \in Place <=> k \in Key /\ i \in DOMAIN Recipients[k]
    /\ \A p \in Place : p = <<p[1], p[2]>> /\ p[1] \in Key /\ p[2] \in DOMAIN Recipients[p[1]]
<1>1. \A k \in Key : Recipients[k] \in Seq(Address)
  BY MailConstants DEF MailConstants
<1>2. \A k, i : <<k, i>> \in Place <=> k \in Key /\ i \in DOMAIN Recipients[k]
  BY DEF Place
<1>3. \A p \in Place : p = <<p[1], p[2]>> /\ p[1] \in Key /\ p[2] \in DOMAIN Recipients[p[1]]
  BY DEF Place
<1> QED  BY <1>1, <1>2, <1>3

LEMMA MailInitially == MailInit => MailInv
<1> SUFFICES ASSUME MailInit PROVE MailInv
  OBVIOUS
<1>1. MailTypeOK
  BY DEF MailInit, InboxInit, MailTypeOK
<1>2. SoleOwner /\ OwnerInv /\ PlaceInv
  BY DEF MailInit, InboxInit, SoleOwner, OwnerInv, PlaceInv, PlaceOf, Moving
<1>3. EventInv
  BY Places DEF MailInit, InboxInit, EventInv
<1> QED  BY <1>1, <1>2, <1>3 DEF MailInv

\* What has been settled stays so while the runs and notes of an event do.
LEMMA StillSettled ==
    ASSUME NEW k, NEW n, SettledBefore(k, n),
           \A i \in DOMAIN Recipients[k] : i < n => mailRuns'[<<k, i>>] = mailRuns[<<k, i>>],
           noted \subseteq noted', passedOver \subseteq passedOver'
    PROVE  SettledBefore(k, n)'
BY DEF SettledBefore, Settled, RecipientOf

\* Steps that leave runs and notes alone.
LEMMA InboxStep ==
    ASSUME MailInv, NEW h \in Handler, UNCHANGED mailOwnVars,
           Record(h) \/ Settle(h) \/ \E k \in Key : Deliver(h, k)
    PROVE  MailInv'
<1> USE DEF mailOwnVars, Goto
<1>0. MailTypeOK /\ SoleOwner /\ OwnerInv /\ PlaceInv /\ EventInv
  BY DEF MailInv
<1>S. \A k, n : SettledBefore(k, n) => SettledBefore(k, n)'
  BY DEF SettledBefore, Settled, RecipientOf
<1>1. CASE \E k \in Key : Deliver(h, k)
  <2>1. PICK k \in Key : Deliver(h, k)
    BY <1>1
  <2>2. MailTypeOK'
    BY <1>0, <2>1 DEF Deliver, MailTypeOK
  <2>3. SoleOwner' /\ OwnerInv'
    BY <1>0, <2>1 DEF Deliver, SoleOwner, OwnerInv, Moving, MailTypeOK
  <2>4. PlaceInv'
    BY <1>0, <1>S, <2>1 DEF Deliver, PlaceInv, PlaceOf, MailTypeOK, Moving
  <2>5. EventInv'
    BY <1>0, <1>S, <2>1 DEF Deliver, EventInv
  <2> QED  BY <2>2, <2>3, <2>4, <2>5 DEF MailInv
<1>2. CASE LookUp(h) \/ Throws(h) \/ Crash(h)
  <2> USE <1>2 DEF LookUp, Throws, Crash
  <2>1. /\ UNCHANGED <<event, key>>
        /\ \E to \in {"insert", "fail"} \cup Answers :
              /\ at' = [at EXCEPT ![h] = to]
              /\ to = "fail" => Owner(h)
              /\ to = "insert" => at[h] = "lookup"
              /\ at[h] # "idle"
    OBVIOUS
  <2>2. MailTypeOK'
    BY <1>0, <2>1 DEF MailTypeOK
  <2>3. SoleOwner' /\ OwnerInv'
    BY <1>0, <2>1 DEF SoleOwner, OwnerInv, Moving, MailTypeOK
  <2>4. PlaceInv'
    BY <1>0, <1>S, <2>1 DEF PlaceInv, PlaceOf, MailTypeOK, Moving
  <2>5. EventInv'
    BY <1>0, <1>S, <2>1 DEF EventInv
  <2> QED  BY <2>2, <2>3, <2>4, <2>5 DEF MailInv
<1>3. CASE Insert(h)
  <2> USE <1>3 DEF Insert
  <2>0. at[h] = "insert" /\ key[h] \in Key /\ position[h] = 1
    BY <1>0 DEF OwnerInv
  <2>1. MailTypeOK'
    BY <1>0, <2>0 DEF MailTypeOK
  <2>2. SoleOwner' /\ OwnerInv'
    BY <1>0, <2>0 DEF SoleOwner, OwnerInv, Moving, MailTypeOK
  <2>3. event[key[h]] = "none" => \A i \in DOMAIN Recipients[key[h]] : mailRuns[<<key[h], i>>] = 0 /\ ~(i < 1)
    BY <1>0, <2>0, Places DEF EventInv
  <2>4. event[key[h]] = "none" => SettledBefore(key[h], 1)'
    BY <2>3 DEF SettledBefore
  <2>5. PlaceInv'
    BY <1>0, <1>S, <2>0, <2>3, <2>4 DEF PlaceInv, PlaceOf, MailTypeOK, Moving
  <2>6. EventInv'
    BY <1>0, <1>S, <2>0 DEF EventInv, MailTypeOK
  <2> QED  BY <2>1, <2>2, <2>5, <2>6 DEF MailInv
<1>4. CASE MarkProcessed(h) \/ MarkFailed(h)
  <2> USE <1>4 DEF MarkProcessed, MarkFailed, Ran
  <2>0. at[h] \in {"mark", "fail"} /\ key[h] \in Key /\ event[key[h]] # "none"
    BY <1>0 DEF OwnerInv
  <2>1. MailTypeOK'
    BY <1>0, <2>0 DEF MailTypeOK
  <2>2. SoleOwner' /\ OwnerInv'
    BY <1>0, <2>0 DEF SoleOwner, OwnerInv, Moving, MailTypeOK
  <2>3. PlaceInv'
    BY <1>0, <1>S, <2>0 DEF PlaceInv, PlaceOf, MailTypeOK, Moving
  <2>4. at[h] = "mark" =>
          /\ position[h] \in Nat
          /\ SettledBefore(key[h], position[h])
          /\ \A i \in DOMAIN Recipients[key[h]] : i < position[h]
    <3> SUFFICES ASSUME at[h] = "mark"
                 PROVE  /\ position[h] \in Nat \ {0}
                        /\ SettledBefore(key[h], position[h])
                        /\ \A i \in DOMAIN Recipients[key[h]] : i < position[h]
      OBVIOUS
    <3>1. position[h] \in Nat \ {0}
      BY <1>0 DEF MailTypeOK
    <3>2. SettledBefore(key[h], position[h]) /\ position[h] \notin DOMAIN Recipients[key[h]]
      BY <1>0 DEF PlaceInv, PlaceOf, Moving
    <3>3. DOMAIN Recipients[key[h]] = 1..Len(Recipients[key[h]]) /\ Len(Recipients[key[h]]) \in Nat
      BY <2>0, Places
    <3> QED  BY <3>1, <3>2, <3>3
  <2>5. event'[key[h]] = "processed" => at[h] = "mark"
    BY <1>0, <2>0 DEF MailTypeOK
  <2>6. \A k \in Key : k # key[h] => event'[k] = event[k]
    BY <1>0, <2>0 DEF MailTypeOK
  <2>7. \A k \in Key : event[k] = "none" <=> event'[k] = "none"
    BY <1>0, <2>0 DEF MailTypeOK
  <2>8. ASSUME NEW k \in Key, event'[k] = "processed"
        PROVE  \E n \in Nat : SettledBefore(k, n)' /\ \A i \in DOMAIN Recipients[k] : i < n
    <3>1. CASE k = key[h]
      BY <1>S, <2>4, <2>5, <2>8, <3>1
    <3>2. CASE k # key[h]
      BY <1>0, <1>S, <2>6, <2>8, <3>2 DEF EventInv
    <3> QED  BY <3>1, <3>2
  <2>9. EventInv'
    BY <1>0, <2>7, <2>8 DEF EventInv
  <2> QED  BY <2>1, <2>2, <2>3, <2>9 DEF MailInv
<1> QED  BY <1>1, <1>2, <1>3, <1>4 DEF Record, Settle

\* The statements of the route's try block.
LEMMA WorkStep ==
    ASSUME MailInv, NEW h \in Handler,
           FetchMessage(h) \/ Match(h) \/ RunForMail(h) \/ Note(h) \/ AllDispatched(h)
    PROVE  MailInv'
<1> USE DEF Goto, Ran, Here
<1>0. MailTypeOK /\ SoleOwner /\ OwnerInv /\ PlaceInv /\ EventInv
  BY DEF MailInv
<1>k. PICK k : k = key[h]
  OBVIOUS
<1>n. PICK n : n = position[h]
  OBVIOUS
<1> USE <1>k, <1>n
<1>1. /\ at[h] \in {"work", "match", "run", "note"} /\ k \in Key /\ event[k] = "open"
      /\ event' = event /\ key' = key /\ trigger' = trigger /\ n \in Nat \ {0}
  BY <1>0 DEF OwnerInv, Moving, MailTypeOK, FetchMessage, Match, RunForMail, Note, AllDispatched, mailOwnVars
<1>2. PICK to \in {"match", "run", "note", "mark", "fail"} : at' = [at EXCEPT ![h] = to]
  <2>1. CASE Match(h)
    <3>1. at[h] = "match" /\ (at' = at \/ at' = [at EXCEPT ![h] = "run"])
      BY <2>1 DEF Match
    <3>2. at = [at EXCEPT ![h] = at[h]]
      BY <1>0 DEF MailTypeOK
    <3> QED  BY <3>1, <3>2
  <2> QED  BY <2>1 DEF FetchMessage, RunForMail, Note, AllDispatched
<1>3. position' = position \/ position' = [position EXCEPT ![h] = n + 1]
  BY DEF FetchMessage, Match, RunForMail, Note, AllDispatched, NextPlace, mailOwnVars
<1>4. position' \in [Handler -> Nat \ {0}]
  BY <1>0, <1>1, <1>3 DEF MailTypeOK
<1>5. SoleOwner' /\ OwnerInv'
  BY <1>0, <1>1, <1>2, <1>3 DEF SoleOwner, OwnerInv, Moving, MailTypeOK
<1>6. \A g \in Handler : g # h /\ at[g] \in Moving => key[g] # k /\ key[g] \in Key
  BY <1>0, <1>1 DEF SoleOwner, OwnerInv, Moving
<1>7. \A g \in Handler : g # h => at'[g] = at[g] /\ position'[g] = position[g]
  BY <1>0, <1>2, <1>3 DEF MailTypeOK
<1>8. at[h] \in Moving /\ SettledBefore(k, n) /\ \A i \in DOMAIN Recipients[k] : i > n => mailRuns[<<k, i>>] = 0
  BY <1>0, <1>1 DEF PlaceInv, PlaceOf, Moving
<1>9. DOMAIN Recipients[k] = 1..Len(Recipients[k]) /\ Len(Recipients[k]) \in Nat
  BY <1>1, Places
<1>10. CASE FetchMessage(h) \/ AllDispatched(h)
  <2>1. UNCHANGED <<mailRuns, noted, passedOver, position>>
    BY <1>10 DEF FetchMessage, AllDispatched, mailOwnVars
  <2>2. \/ at[h] = "work" /\ to \in {"match", "fail"}
        \/ at[h] = "match" /\ n \notin DOMAIN Recipients[k] /\ to = "mark"
    <3>1. at'[h] = to
      BY <1>0, <1>2 DEF MailTypeOK
    <3> QED  BY <1>0, <1>1, <1>10, <3>1, Places DEF FetchMessage, AllDispatched, MailTypeOK
  <2>3. \A x, y : SettledBefore(x, y) => SettledBefore(x, y)'
    BY <2>1 DEF SettledBefore, Settled, RecipientOf
  <2>4. MailTypeOK'
    BY <1>0, <1>1, <1>2, <2>1 DEF MailTypeOK
  <2>5. PlaceInv'
    BY <1>0, <1>1, <1>2, <2>1, <2>2, <2>3 DEF PlaceInv, PlaceOf, MailTypeOK, Moving
  <2>6. EventInv'
    BY <1>0, <1>1, <2>1, <2>3 DEF EventInv
  <2> QED  BY <1>5, <2>4, <2>5, <2>6 DEF MailInv
<1>11. CASE Match(h)
  <2>1. UNCHANGED <<mailRuns, noted>> /\ passedOver \subseteq passedOver' /\ at[h] = "match"
        /\ n \in DOMAIN Recipients[k] /\ mailRuns[<<k, n>>] = 0
        /\ passedOver' \subseteq passedOver \cup {<<k, n>>} /\ <<k, n>> \in Place
    BY <1>0, <1>1, <1>11, Places DEF Match, PlaceInv, PlaceOf
  <2>2. \/ at'[h] = "run" /\ position'[h] = n
        \/ at'[h] = "match" /\ position'[h] = n + 1 /\ <<k, n>> \in passedOver'
    BY <1>0, <1>11 DEF Match, NextPlace, MailTypeOK
  <2>3. \A x, y : SettledBefore(x, y) => SettledBefore(x, y)'
    BY <2>1 DEF SettledBefore, Settled, RecipientOf
  <2>4. position'[h] = n + 1 => SettledBefore(k, n + 1)'
    <3>1. SUFFICES ASSUME <<k, n>> \in passedOver' PROVE SettledBefore(k, n + 1)'
      BY <1>1, <2>2
    <3>2. \A i \in DOMAIN Recipients[k] : i < n + 1 => i < n \/ i = n
      BY <1>1, <1>9
    <3>3. SettledBefore(k, n)' /\ mailRuns'[<<k, n>>] = 0
      BY <1>8, <2>1, <2>3
    <3> QED  BY <3>1, <3>2, <3>3 DEF SettledBefore, Settled
  <2>5. MailTypeOK'
    BY <1>0, <1>1, <1>2, <1>4, <2>1 DEF MailTypeOK
  <2>6. \A i \in DOMAIN Recipients[k] : i > n \/ i = n \/ i = n + 1 => mailRuns'[<<k, i>>] = 0
    BY <1>1, <1>8, <1>9, <2>1
  <2>7. PlaceInv'
    <3> SUFFICES ASSUME NEW g \in Handler PROVE PlaceOf(g, key[g], position[g])'
      BY DEF PlaceInv, PlaceOf
    <3>1. CASE g = h
      BY <1>1, <1>8, <1>9, <2>1, <2>2, <2>3, <2>4, <2>6, <3>1 DEF Moving, PlaceOf
    <3>2. CASE g # h
      BY <1>0, <1>1, <1>7, <2>1, <2>3, <3>2 DEF PlaceInv, PlaceOf, Moving
    <3> QED  BY <3>1, <3>2
  <2>8. EventInv'
    BY <1>0, <1>1, <2>1, <2>3 DEF EventInv
  <2> QED  BY <1>5, <2>5, <2>7, <2>8 DEF MailInv
<1>12. CASE RunForMail(h)
  <2>1. /\ UNCHANGED <<noted, passedOver, position>> /\ at[h] = "run" /\ to \in {"note", "fail"}
        /\ n \in DOMAIN Recipients[k] /\ <<k, n>> \in Place /\ mailRuns[<<k, n>>] = 0
        /\ mailRuns' = [mailRuns EXCEPT ![<<k, n>>] = @ + 1]
    BY <1>0, <1>1, <1>2, <1>12, Places DEF RunForMail, PlaceInv, PlaceOf, MailTypeOK
  <2>2. mailRuns' = [mailRuns EXCEPT ![<<k, n>>] = 1]
    BY <2>1
  <2>3. /\ mailRuns'[<<k, n>>] = 1
        /\ \A x \in Key : \A i \in DOMAIN Recipients[x] :
              <<x, i>> # <<k, n>> => mailRuns'[<<x, i>>] = mailRuns[<<x, i>>]
    BY <1>0, <2>1, <2>2, Places DEF MailTypeOK
  <2>4. \A x \in Key : \A y : x # k /\ SettledBefore(x, y) => SettledBefore(x, y)'
    BY <2>1, <2>3, StillSettled
  <2>5. SettledBefore(k, n)'
    <3>1. \A i \in DOMAIN Recipients[k] : i < n => i # n
      BY <1>1, <1>9
    <3> QED  BY <1>1, <1>8, <2>1, <2>3, <3>1, StillSettled
  <2>6. MailTypeOK'
    BY <1>0, <1>1, <1>2, <2>1, <2>2 DEF MailTypeOK
  <2>7. PlaceInv'
    <3> SUFFICES ASSUME NEW g \in Handler PROVE PlaceOf(g, key[g], position[g])'
      BY DEF PlaceInv, PlaceOf
    <3>1. CASE g = h
      <4>1. \A i \in DOMAIN Recipients[k] : i > n => mailRuns'[<<k, i>>] = 0
        BY <1>1, <1>8, <1>9, <2>3
      <4>2. key'[g] = k /\ position'[g] = n /\ at'[g] = to
        BY <1>0, <1>1, <1>2, <2>1, <3>1 DEF MailTypeOK
      <4> QED  BY <2>1, <2>3, <2>5, <4>1, <4>2 DEF Moving, PlaceOf
    <3>2. CASE g # h /\ at[g] \in Moving
      BY <1>0, <1>1, <1>6, <1>7, <2>3, <2>4, <3>2 DEF PlaceInv, PlaceOf, Moving
    <3>3. CASE g # h /\ at[g] \notin Moving
      BY <1>7, <3>3 DEF Moving, PlaceOf
    <3> QED  BY <3>1, <3>2, <3>3
  <2>8. EventInv'
    BY <1>0, <1>1, <2>3, <2>4 DEF EventInv
  <2> QED  BY <1>5, <2>6, <2>7, <2>8 DEF MailInv
<1>13. CASE Note(h)
  <2> DEFINE entry == <<k, RecipientOf(k, n)>>
  <2>1. /\ UNCHANGED <<mailRuns, passedOver>> /\ at[h] = "note"
        /\ n \in DOMAIN Recipients[k] /\ mailRuns[<<k, n>>] = 1
        /\ noted \subseteq noted' /\ noted' \subseteq noted \cup {entry}
    BY <1>0, <1>13 DEF Note, PlaceInv, PlaceOf
  <2>2. \/ at'[h] = "fail"
        \/ at'[h] = "match" /\ position'[h] = n + 1 /\ entry \notin noted /\ entry \in noted'
    BY <1>0, <1>13 DEF Note, NextPlace, MailTypeOK
  <2>3. \A x, y : SettledBefore(x, y) => SettledBefore(x, y)'
    BY <2>1 DEF SettledBefore, Settled, RecipientOf
  <2>4. entry \notin noted /\ entry \in noted' => SettledBefore(k, n + 1)'
    <3>1. SUFFICES ASSUME entry \notin noted, entry \in noted' PROVE SettledBefore(k, n + 1)'
      OBVIOUS
    <3>2. \A i \in DOMAIN Recipients[k] : i < n + 1 => i < n \/ i = n
      BY <1>1, <1>9
    <3>3. SettledBefore(k, n)' /\ mailRuns'[<<k, n>>] = 1
      BY <1>8, <2>1, <2>3
    <3>4. \A i \in DOMAIN Recipients[k] :
            i < n /\ RecipientOf(k, i) = RecipientOf(k, n) => mailRuns'[<<k, i>>] = 0
      BY <1>8, <2>1, <3>1 DEF SettledBefore, Settled
    <3>5. \A i \in DOMAIN Recipients[k] : i < n + 1 => Settled(k, i)'
      BY <3>1, <3>2, <3>3 DEF SettledBefore, Settled, RecipientOf
    <3>6. ASSUME NEW i \in DOMAIN Recipients[k], NEW j \in DOMAIN Recipients[k],
                 i < n + 1, j < n + 1, i # j, RecipientOf(k, i) = RecipientOf(k, j)
          PROVE  mailRuns'[<<k, i>>] = 0 \/ mailRuns'[<<k, j>>] = 0
      BY <3>2, <3>3, <3>4, <3>6 DEF SettledBefore, RecipientOf
    <3> QED  BY <3>5, <3>6 DEF SettledBefore, RecipientOf
  <2>5. MailTypeOK'
    <3>1. RecipientOf(k, n) \in Address
      BY <1>1, <2>1, Places DEF RecipientOf
    <3>2. noted' \subseteq Key \X Address
      BY <1>0, <1>1, <2>1, <3>1 DEF MailTypeOK
    <3> QED  BY <1>0, <1>1, <1>2, <1>4, <2>1, <3>2 DEF MailTypeOK
  <2>6. \A i \in DOMAIN Recipients[k] : i > n + 1 \/ i = n + 1 => mailRuns'[<<k, i>>] = 0
    BY <1>1, <1>8, <1>9, <2>1
  <2>7. PlaceInv'
    <3> SUFFICES ASSUME NEW g \in Handler PROVE PlaceOf(g, key[g], position[g])'
      BY DEF PlaceInv, PlaceOf
    <3>1. CASE g = h /\ at'[h] = "fail"
      BY <3>1 DEF Moving, PlaceOf
    <3>2. CASE g = h /\ at'[h] # "fail"
      <4>1. key'[g] = k /\ position'[g] = n + 1 /\ at'[g] = "match" /\ SettledBefore(k, n + 1)'
        BY <1>1, <2>2, <2>4, <3>2
      <4> QED  BY <2>6, <4>1 DEF Moving, PlaceOf
    <3>3. CASE g # h
      BY <1>0, <1>1, <1>7, <2>1, <2>3, <3>3 DEF PlaceInv, PlaceOf, Moving
    <3> QED  BY <3>1, <3>2, <3>3
  <2>8. EventInv'
    BY <1>0, <1>1, <2>1, <2>3 DEF EventInv
  <2> QED  BY <1>5, <2>5, <2>7, <2>8 DEF MailInv
<1> QED  BY <1>10, <1>11, <1>12, <1>13

LEMMA TriggerStep == ASSUME MailInv, NEW a \in Address, SwitchTrigger(a) PROVE MailInv'
<1>1. UNCHANGED <<event, at, key, position, mailRuns, noted, passedOver>> /\ trigger' \subseteq Address
  BY DEF SwitchTrigger, inboxVars, MailInv, MailTypeOK
<1>2. \A k, n : SettledBefore(k, n) => SettledBefore(k, n)'
  BY <1>1 DEF SettledBefore, Settled, RecipientOf
<1>3. MailTypeOK' /\ SoleOwner' /\ OwnerInv'
  BY <1>1 DEF MailInv, MailTypeOK, SoleOwner, OwnerInv
<1>4. PlaceInv' /\ EventInv'
  BY <1>1, <1>2 DEF MailInv, PlaceInv, PlaceOf, EventInv
<1> QED  BY <1>3, <1>4 DEF MailInv

LEMMA MailKeeps == MailInv /\ [MailNext]_mailVars => MailInv'
<1> SUFFICES ASSUME MailInv, [MailNext]_mailVars PROVE MailInv'
  OBVIOUS
<1>1. CASE UNCHANGED mailVars
  <2>1. UNCHANGED <<event, at, key, trigger, position, mailRuns, noted, passedOver>>
    BY <1>1 DEF mailVars, inboxVars, mailOwnVars
  <2>2. \A k, n : SettledBefore(k, n) => SettledBefore(k, n)'
    BY <2>1 DEF SettledBefore, Settled, RecipientOf
  <2> QED  BY <2>1, <2>2 DEF MailInv, MailTypeOK, SoleOwner, OwnerInv, PlaceInv, PlaceOf, EventInv
<1>2. ASSUME NEW h \in Handler, (Record(h) \/ Settle(h)) /\ UNCHANGED mailOwnVars PROVE MailInv'
  BY <1>2, InboxStep
<1>3. ASSUME NEW h \in Handler, NEW k \in Key, Receive(h, k) PROVE MailInv'
  BY <1>3, InboxStep DEF Receive
<1>4. ASSUME NEW h \in Handler,
             FetchMessage(h) \/ Match(h) \/ RunForMail(h) \/ Note(h) \/ AllDispatched(h)
      PROVE  MailInv'
  BY <1>4, WorkStep
<1>5. ASSUME NEW a \in Address, SwitchTrigger(a) PROVE MailInv'
  BY <1>5, TriggerStep
<1> QED  BY <1>1, <1>2, <1>3, <1>4, <1>5 DEF MailNext

LEMMA MailInvariant == MailSpec => []MailInv
<1> QED  BY MailInitially, MailKeeps, PTL DEF MailSpec

-----------------------------------------------------------------------------
(* Theorems                                                                 *)

\* The function runs at most once for a recipient of a message, however often the message
\* is reported and whatever fails, and only for an event on file.
THEOREM MailOnceCorrect == MailSpec => []MailRunsOnce
<1>1. MailInv => MailRunsOnce
  <2> SUFFICES ASSUME MailInv, NEW p \in Place
               PROVE  mailRuns[p] <= 1 /\ (mailRuns[p] = 1 => event[p[1]] # "none")
    BY DEF MailRunsOnce
  <2>1. mailRuns[p] \in {0, 1} /\ (event[p[1]] = "none" => mailRuns[p] = 0)
    BY Places DEF MailInv, EventInv
  <2> QED  BY <2>1
<1> QED  BY MailInvariant, <1>1, PTL

\* An event that is marked processed has run and noted every recipient that had a trigger
\* when its turn came, and no address twice.
THEOREM MailHandledCorrect == MailSpec => []ProcessedMailIsHandled
<1>1. MailInv => ProcessedMailIsHandled
  <2> SUFFICES ASSUME MailInv, NEW p \in Place, event[p[1]] = "processed"
               PROVE  /\ p \in passedOver \/ (mailRuns[p] = 1 /\ <<p[1], RecipientOf(p[1], p[2])>> \in noted)
                      /\ \A q \in Place : p # q /\ p[1] = q[1] /\ RecipientOf(p[1], p[2]) = RecipientOf(q[1], q[2]) =>
                              mailRuns[p] + mailRuns[q] < 2
    BY DEF ProcessedMailIsHandled
  <2>1. PICK n \in Nat : SettledBefore(p[1], n) /\ \A i \in DOMAIN Recipients[p[1]] : i < n
    BY Places DEF MailInv, EventInv
  <2>2. Settled(p[1], p[2])
    BY <2>1, Places DEF SettledBefore
  <2>3. p \in passedOver \/ (mailRuns[p] = 1 /\ <<p[1], RecipientOf(p[1], p[2])>> \in noted)
    BY <2>2, Places DEF Settled
  <2>4. ASSUME NEW q \in Place, p # q, p[1] = q[1], RecipientOf(p[1], p[2]) = RecipientOf(q[1], q[2])
        PROVE  mailRuns[p] + mailRuns[q] < 2
    <3>1. mailRuns[p] \in {0, 1} /\ mailRuns[q] \in {0, 1}
      BY Places DEF MailInv, EventInv
    <3>2. p = <<p[1], p[2]>> /\ q = <<p[1], q[2]>> /\ p[2] # q[2]
      BY <2>4, Places
    <3>3. mailRuns[p] = 0 \/ mailRuns[q] = 0
      BY <2>1, <2>4, <3>2, Places DEF SettledBefore
    <3> QED  BY <3>1, <3>3
  <2> QED  BY <2>3, <2>4
<1> QED  BY MailInvariant, <1>1, PTL

-----------------------------------------------------------------------------
(* Next to a function's versions.                                           *)

\* What is shown of the versions and of the mail on their own holds of them side by side.
THEOREM BothOnTheirOwn == PartSpec => DeploySpec /\ MailSpec
<1>1. PartInit => DeployInit /\ MailInit
  BY DEF PartInit
<1>2. [PartNext]_<<part, deployVars, mailVars>> => [DeployNext]_deployVars /\ [MailNext]_mailVars
  BY DEF PartNext
<1> QED  BY <1>1, <1>2, PTL DEF PartSpec, DeploySpec, MailSpec

\* The variables of the part that moves keep their types.
THEOREM DeployPartTypeCorrect == PartSpec => []PartTypeOK
<1>1. MailInv => MailTypeOK
  BY DEF MailInv
<1>2. DeployTypeOK /\ MailTypeOK => PartTypeOK
  BY DEF PartTypeOK
<1> QED  BY BothOnTheirOwn, DeployTypeCorrect, MailInvariant, <1>1, <1>2, PTL

=============================================================================
