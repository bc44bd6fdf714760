-------------------------------- MODULE Draft --------------------------------
(***************************************************************************)
(* A user's draft of a function and the checkouts that pull and push it    *)
(* (apps/web/src/app/api/cli/functions/draft/route.ts), with the digest of *)
(* what was pulled or pushed last as the merge base; the dashboard saves   *)
(* the same row without one (saveDraft).                                   *)
(***************************************************************************)
EXTENDS Naturals

CONSTANTS
    Checkout,
    Code,
    NoCode,         \* no draft, and no merge base yet
    Published       \* the code of the current version

ASSUME DraftConstants == NoCode \notin Code /\ Published \in Code

VARIABLES
    draft,      \* fn_draft.code
    base,       \* the merge base in a checkout's manifest
    push,       \* a checkout's push under way
    seen,       \* code a checkout has pulled, pushed or been shown (a history)
    raced       \* checkouts whose draft was written between check and upsert (a history)

draftVars == <<draft, base, push, seen, raced>>

NoPush == [at |-> "idle", code |-> NoCode, force |-> FALSE]

DraftTypeOK ==
    /\ draft \in Code \cup {NoCode}
    /\ base \in [Checkout -> Code \cup {NoCode}]
    /\ push \in [Checkout -> [at : {"check", "upsert"}, code : Code, force : BOOLEAN] \cup {NoPush}]
    /\ seen \in [Checkout -> SUBSET Code]
    /\ raced \subseteq Checkout

DraftInit ==
    /\ draft = NoCode
    /\ base = [c \in Checkout |-> NoCode]
    /\ push = [c \in Checkout |-> NoPush]
    /\ seen = [c \in Checkout |-> {}]
    /\ raced = {}

Sees(c, code) == seen' = [seen EXCEPT ![c] = @ \cup ({code} \ {NoCode})]

Pull(c) ==
    LET code == IF draft = NoCode THEN Published ELSE draft
    IN  /\ push[c] = NoPush
        /\ base' = [base EXCEPT ![c] = code]
        /\ Sees(c, code)
        /\ UNCHANGED <<draft, push, raced>>

StartPush(c, code, force) ==
    /\ push[c] = NoPush
    /\ push' = [push EXCEPT ![c] = [at |-> "check", code |-> code, force |-> force]]
    /\ raced' = raced \ {c}
    /\ UNCHANGED <<draft, base, seen>>

\* Mutant of Conflicts: the base is compared with what is pushed.
ConflictsWithItself(c) ==
    ~push[c].force /\ draft # NoCode /\ base[c] # NoCode /\ base[c] # push[c].code

Conflicts(c) == ~push[c].force /\ draft # NoCode /\ base[c] # NoCode /\ base[c] # draft

\* 409 shows the client the server's code; its merge base stays.
CheckBase(c) ==
    /\ push[c].at = "check"
    /\ IF Conflicts(c)
       THEN Sees(c, draft) /\ push' = [push EXCEPT ![c] = NoPush]
       ELSE push' = [push EXCEPT ![c].at = "upsert"] /\ UNCHANGED seen
    /\ UNCHANGED <<draft, base, raced>>

WriteDraft(code) ==
    /\ draft' = code
    /\ raced' = raced \cup {c \in Checkout : push[c].at = "upsert"}

\* The answer may be lost: then the manifest keeps its old base.
UpsertDraft(c) ==
    /\ push[c].at = "upsert"
    /\ WriteDraft(push[c].code)
    /\ Sees(c, push[c].code)
    /\ \E base2 \in {base[c], push[c].code} : base' = [base EXCEPT ![c] = base2]
    /\ push' = [push EXCEPT ![c] = NoPush]

SaveInDashboard(code) == WriteDraft(code) /\ UNCHANGED <<base, push, seen>>

LosePush(c) ==
    /\ push[c] # NoPush
    /\ push' = [push EXCEPT ![c] = NoPush]
    /\ UNCHANGED <<draft, base, seen, raced>>

DraftNext ==
    \/ \E c \in Checkout :
        \/ Pull(c) \/ CheckBase(c) \/ UpsertDraft(c) \/ LosePush(c)
        \/ \E code \in Code, force \in BOOLEAN : StartPush(c, code, force)
    \/ \E code \in Code : SaveInDashboard(code)

DraftSpec == DraftInit /\ [][DraftNext]_draftVars

-----------------------------------------------------------------------------
(* Properties                                                               *)

\* A push that is not forced, from a checkout with a merge base, replaces only code the
\* checkout has seen, unless the draft was written between its check and its upsert.
PushOverwritesTheSeen ==
    \A c \in Checkout :
        push[c].at = "upsert" /\ ~push[c].force /\ base[c] # NoCode /\ draft # NoCode =>
            draft \in seen[c] \/ c \in raced

=============================================================================
