---------------------------- MODULE StripeWebhook ----------------------------
(***************************************************************************)
(* POST /api/webhooks/stripe for one workspace: Stripe's subscriptions,    *)
(* the events it emits about them, and the workspace's subscription row.   *)
(*                                                                         *)
(* A subscription is abstracted to a version that grows with every change  *)
(* Stripe makes to it: plan, status and period dates are functions of it.  *)
(* Every price is one of a plan's.  Stripe delivers an event at least once *)
(* and an operator may replay any of them, in any order.                   *)
(***************************************************************************)
EXTENDS Inbox, Sequences

CONSTANTS
    Sub,        \* Stripe subscriptions of the workspace
    NoSub,
    MaxVersion, \* bound: versions of a subscription
    MaxEvents   \* bound: events Stripe emits

Type == {"checkout", "updated", "deleted"}

ASSUME StripeConstants ==
    /\ MaxVersion \in Nat \ {0} /\ MaxEvents \in Nat
    /\ NoSub \notin Sub
    /\ Key = [type : Type, sub : Sub, version : 1..MaxVersion]

VARIABLES
    live,       \* the version of a subscription at Stripe, 0 if there is none
    canceled,   \* subscriptions that are canceled
    emitted,    \* the events, in the order Stripe emitted them
    row,        \* the workspace's subscription row
    seen,       \* the version a checkout handler retrieved
    found,      \* whether it found a row
    tidy        \* a history: every event was taken on after all earlier ones

stripeVars == <<live, canceled, emitted>>
dbVars == <<row, seen, found>>
vars == <<inboxVars, stripeVars, dbVars, tidy>>

Steps == {"work", "find", "write"}

\* The free plan's row, which the sign-up inserts if the plan is seeded.
Free  == [sub |-> NoSub, version |-> 0]
NoRow == [sub |-> NoSub]

Emitted == {emitted[i] : i \in DOMAIN emitted}

TypeOK ==
    /\ InboxTypeOK(Steps)
    /\ live \in [Sub -> 0..MaxVersion]
    /\ canceled \subseteq Sub
    /\ emitted \in Seq(Key)
    /\ row \in [sub : Sub, version : 1..MaxVersion] \cup {Free, NoRow}
    /\ seen \in [Handler -> 0..MaxVersion]
    /\ found \in [Handler -> BOOLEAN]
    /\ tidy \in BOOLEAN

Init ==
    /\ InboxInit
    /\ live = [s \in Sub |-> 0]
    /\ canceled = {}
    /\ emitted = <<>>
    /\ row \in {Free, NoRow}
    /\ seen = [h \in Handler |-> 0]
    /\ found = [h \in Handler |-> FALSE]
    /\ tidy = TRUE

-----------------------------------------------------------------------------
(* Stripe                                                                   *)

Emit(type, s) ==
    /\ Len(emitted) < MaxEvents
    /\ live' = [live EXCEPT ![s] = @ + 1]
    /\ emitted' = Append(emitted, [type |-> type, sub |-> s, version |-> live[s] + 1])
    /\ UNCHANGED <<inboxVars, dbVars, tidy>>

Checkout(s) == live[s] = 0 /\ Emit("checkout", s) /\ UNCHANGED canceled

Change(s) ==
    /\ live[s] \in 1..MaxVersion - 1
    /\ s \notin canceled
    /\ \/ Emit("updated", s) /\ UNCHANGED canceled
       \/ Emit("deleted", s) /\ canceled' = canceled \cup {s}

\* Stripe's delivery and retries, and the operator's replay.
Send(h, k) ==
    /\ k \in Emitted
    /\ Deliver(h, k)
    /\ UNCHANGED <<stripeVars, dbVars, tidy>>

-----------------------------------------------------------------------------
(* The route                                                                *)

\* Taking an event on in order: nobody else is at work and every event that
\* Stripe emitted before is processed.
InTurn(h) ==
    /\ \A g \in Handler : ~Owner(g)
    /\ \E i \in DOMAIN emitted :
           /\ emitted[i] = key[h]
           /\ \A j \in 1..(i - 1) : event[emitted[j]] = "processed"

TakeOn(h) ==
    /\ Insert(h)
    /\ tidy' = (tidy /\ (Owner(h)' => InTurn(h)))
    /\ UNCHANGED <<stripeVars, dbVars>>

\* Mutant of Retrieve: the subscription is read from a cache that nothing fills.
RetrieveCached(h) ==
    /\ at[h] = "work"
    /\ key[h].type = "checkout"
    /\ Goto(h, "find")
    /\ UNCHANGED <<event, key, stripeVars, dbVars, tidy>>

\* checkout.session.completed: the subscription is retrieved from Stripe as it is
\* now, then the workspace's row is looked for, then written.
Retrieve(h) ==
    /\ at[h] = "work"
    /\ key[h].type = "checkout"
    /\ seen' = [seen EXCEPT ![h] = live[key[h].sub]]
    /\ Goto(h, "find")
    /\ UNCHANGED <<event, key, stripeVars, row, found, tidy>>

FindRow(h) ==
    /\ at[h] = "find"
    /\ found' = [found EXCEPT ![h] = row # NoRow]
    /\ Goto(h, "write")
    /\ UNCHANGED <<event, key, stripeVars, row, seen, tidy>>

\* Mutant of WriteRow: the subscription id is left out of the update.
WriteRowKeepingSub(h) ==
    LET k == key[h]
        new == [sub |-> IF row = NoRow \/ row.sub = NoSub THEN k.sub ELSE row.sub,
                version |-> seen[h]]
    IN  /\ at[h] = "write"
        /\ IF ~found[h] /\ row # NoRow
           THEN Goto(h, "fail") /\ UNCHANGED row
           ELSE row' = new /\ Ran(h, "mark")
        /\ UNCHANGED <<event, key, stripeVars, seen, found, tidy>>

\* An insert conflicts with a row of the workspace that was not there before.
WriteRow(h) ==
    LET new == [sub |-> key[h].sub, version |-> seen[h]]
    IN  /\ at[h] = "write"
        /\ IF ~found[h] /\ row # NoRow
           THEN Goto(h, "fail") /\ UNCHANGED row
           ELSE row' = new /\ Ran(h, "mark")
        /\ UNCHANGED <<event, key, stripeVars, seen, found, tidy>>

\* Mutant of UpdateRow: the workspace's row is updated, whatever its subscription.
UpdateAnyRow(h) ==
    LET k == key[h]
    IN  /\ at[h] = "work"
        /\ k.type \in {"updated", "deleted"}
        /\ row' = IF row \in {NoRow, Free} THEN row ELSE [row EXCEPT !.version = k.version]
        /\ Ran(h, "mark")
        /\ UNCHANGED <<event, key, stripeVars, seen, found, tidy>>

\* customer.subscription.updated and .deleted carry the subscription as it was when
\* the event was emitted; no row of that subscription is not an error.
UpdateRow(h) ==
    LET k == key[h]
    IN  /\ at[h] = "work"
        /\ k.type \in {"updated", "deleted"}
        /\ row' = IF row.sub = k.sub THEN [row EXCEPT !.version = k.version] ELSE row
        /\ Ran(h, "mark")
        /\ UNCHANGED <<event, key, stripeVars, seen, found, tidy>>

Handle(h) ==
    \/ (LookUp(h) \/ Settle(h)) /\ UNCHANGED <<stripeVars, dbVars, tidy>>
    \/ TakeOn(h)
    \/ Retrieve(h) \/ FindRow(h) \/ WriteRow(h) \/ UpdateRow(h)

Next ==
    \/ \E s \in Sub : Checkout(s) \/ Change(s)
    \/ \E h \in Handler : Handle(h) \/ \E k \in Key : Send(h, k)

Spec == Init /\ [][Next]_vars

-----------------------------------------------------------------------------
(* Properties                                                               *)

\* In whatever order events are worked on, the row holds a version that Stripe's
\* subscription really had, of a subscription whose checkout is on file: an event of
\* one subscription never shows on the row of another.
NoInvention ==
    row \notin {Free, NoRow} =>
        /\ row.version \in 1..live[row.sub]
        /\ event[[type |-> "checkout", sub |-> row.sub, version |-> 1]] # "none"

\* The subscription of the last checkout, in the order of `emitted`.
LastBought ==
    LET bought == {i \in DOMAIN emitted : emitted[i].type = "checkout"}
    IN  emitted[CHOOSE i \in bought : \A j \in bought : j <= i].sub

\* Once every event is processed, each taken on after all earlier ones, the row is
\* that of the last checkout, at Stripe's version of it.  The checkout handler may
\* have retrieved a version that events still to come will set back first.
CaughtUp ==
    tidy /\ emitted # <<>> /\ (\A k \in Emitted : event[k] = "processed")
        => row = [sub |-> LastBought, version |-> live[LastBought]]

\* stripe-webhook-recovery.md: replaying a failed event recovers it.  Stripe is
\* told 2xx, and nobody is at work on the event any more: so it has been processed.
ReplayApplies ==
    \A h \in Handler :
        at[h] \in {"ok", "duplicate"} /\ (\A g \in Handler : key[g] = key[h] => ~Owner(g))
            => event[key[h]] = "processed"

=============================================================================
