----------------------------- MODULE InboundMail -----------------------------
(***************************************************************************)
(* Mail to the address of an email trigger, as Resend reports it: the      *)
(* webhook records the event (Inbox), fetches the message and hands each   *)
(* recipient in turn to dispatchInboundEmail (apps/web/src/server/         *)
(* inbound-email.ts), which runs the function and then notes the outcome   *)
(* as an event of its own.                                                 *)
(***************************************************************************)
EXTENDS Inbox, Sequences

CONSTANTS
    Address,
    Recipients      \* the recipients of the message an event is about, in lower case

ASSUME MailConstants == Recipients \in [Key -> Seq(Address)]

VARIABLES
    trigger,    \* addresses with an email trigger that is enabled
    position,   \* the recipient a handler has come to
    mailRuns,   \* how often the function has run for a recipient
    noted,      \* the webhook_event rows of dispatchInboundEmail
    passedOver  \* recipients that matched no trigger when they were looked up (a history)

mailOwnVars == <<trigger, position, mailRuns, noted, passedOver>>
mailVars == <<inboxVars, mailOwnVars>>

MailSteps == {"work", "match", "run", "note"}

Place == UNION {{k} \X DOMAIN Recipients[k] : k \in Key}
RecipientOf(k, i) == Recipients[k][i]

MailTypeOK ==
    /\ InboxTypeOK(MailSteps)
    /\ trigger \subseteq Address
    /\ position \in [Handler -> Nat \ {0}]
    /\ mailRuns \in [Place -> Nat]
    /\ noted \subseteq Key \X Address
    /\ passedOver \subseteq Place

MailInit ==
    /\ InboxInit
    /\ trigger \in SUBSET Address
    /\ position = [h \in Handler |-> 1]
    /\ mailRuns = [p \in Place |-> 0]
    /\ noted = {} /\ passedOver = {}

Here(h) == <<key[h], position[h]>>
NextPlace(h) == position' = [position EXCEPT ![h] = @ + 1]

Receive(h, k) == Deliver(h, k) /\ UNCHANGED mailOwnVars

\* The trigger of an address is created, enabled, disabled or removed.
SwitchTrigger(a) ==
    /\ trigger' = IF a \in trigger THEN trigger \ {a} ELSE trigger \cup {a}
    /\ UNCHANGED <<inboxVars, position, mailRuns, noted, passedOver>>

\* getReceivedEmail.
FetchMessage(h) ==
    /\ at[h] = "work"
    /\ Ran(h, "match")
    /\ UNCHANGED <<event, key, mailOwnVars>>

Match(h) ==
    /\ at[h] = "match" /\ Here(h) \in Place
    /\ IF RecipientOf(key[h], position[h]) \in trigger
       THEN Goto(h, "run") /\ UNCHANGED <<position, passedOver>>
       ELSE NextPlace(h) /\ passedOver' = passedOver \cup {Here(h)} /\ UNCHANGED at
    /\ UNCHANGED <<event, key, trigger, mailRuns, noted>>

\* The fetch may throw though the function runs.
RunForMail(h) ==
    /\ at[h] = "run"
    /\ mailRuns' = [mailRuns EXCEPT ![Here(h)] = @ + 1]
    /\ Ran(h, "note")
    /\ UNCHANGED <<event, key, trigger, position, noted, passedOver>>

\* Mutant of Note: on conflict do nothing.
NoteAnyway(h) ==
    LET n == <<key[h], RecipientOf(key[h], position[h])>>
    IN  /\ at[h] = "note"
        /\ noted' = noted \cup {n} /\ Ran(h, "match") /\ NextPlace(h)
        /\ UNCHANGED <<event, key, trigger, mailRuns, passedOver>>

\* An address that is listed twice conflicts with its first event.
Note(h) ==
    LET n == <<key[h], RecipientOf(key[h], position[h])>>
    IN  /\ at[h] = "note"
        /\ IF n \in noted
           THEN Goto(h, "fail") /\ UNCHANGED <<noted, position>>
           ELSE noted' = noted \cup {n} /\ Ran(h, "match") /\ NextPlace(h)
        /\ UNCHANGED <<event, key, trigger, mailRuns, passedOver>>

AllDispatched(h) ==
    /\ at[h] = "match" /\ Here(h) \notin Place
    /\ Goto(h, "mark")
    /\ UNCHANGED <<event, key, mailOwnVars>>

MailNext ==
    \/ \E h \in Handler :
        \/ (Record(h) \/ Settle(h)) /\ UNCHANGED mailOwnVars
        \/ FetchMessage(h) \/ Match(h) \/ RunForMail(h) \/ Note(h) \/ AllDispatched(h)
        \/ \E k \in Key : Receive(h, k)
    \/ \E a \in Address : SwitchTrigger(a)

MailSpec == MailInit /\ [][MailNext]_mailVars

-----------------------------------------------------------------------------
(* Properties                                                               *)

\* However often an event is delivered, the function runs at most once for each recipient
\* of the message, and only for an event on file.
MailRunsOnce ==
    \A p \in Place : mailRuns[p] <= 1 /\ (mailRuns[p] = 1 => event[p[1]] # "none")

\* An event that is marked processed has run and noted every recipient that had a trigger,
\* and no address twice.
ProcessedMailIsHandled ==
    \A p \in Place : event[p[1]] = "processed" =>
        /\ p \in passedOver \/ (mailRuns[p] = 1 /\ <<p[1], RecipientOf(p[1], p[2])>> \in noted)
        /\ \A q \in Place : p # q /\ p[1] = q[1] /\ RecipientOf(p[1], p[2]) = RecipientOf(q[1], q[2]) =>
                mailRuns[p] + mailRuns[q] < 2

=============================================================================
