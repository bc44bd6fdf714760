------------------------------ MODULE Marketplace ------------------------------
(***************************************************************************)
(* The counts a public function shows in the marketplace: its stars, its   *)
(* comments and its forks (apps/web/src/server/functions.ts).  Each change *)
(* is a transaction that makes sure of the profile, changes a row and then *)
(* sets the count to the number of rows.  The three go the same way, and   *)
(* one of them is modelled.                                                *)
(*                                                                         *)
(* Under READ COMMITTED a statement sees what was committed when it began  *)
(* and what its transaction did; it waits for a row another transaction    *)
(* has changed.                                                            *)
(***************************************************************************)
EXTENDS Naturals, FiniteSets

CONSTANTS
    Entry,      \* rows of fn_star, fn_comment or fn_fork that may be there
    Txn,
    NoTxn

ASSUME MarketConstants ==
    Txn \cap {NoTxn, "none", "there"} = {} /\ IsFiniteSet(Entry)

VARIABLES
    entries,    \* the rows committed
    tally,      \* the count in fn_marketplace_profile
    profile,    \* the transaction that has inserted the profile, "none", or "there"
    lock,       \* the transaction that has changed the profile's count
    txn,        \* what a transaction is doing
    drift       \* the count may be wrong (a history)

marketVars == <<entries, tally, profile, lock, txn, drift>>

NoChange == [at |-> "idle", add |-> {}, del |-> {}, count |-> 0, alone |-> TRUE]

MarketTypeOK ==
    /\ entries \subseteq Entry
    /\ tally \in 0..Cardinality(Entry)
    /\ profile \in Txn \cup {"none", "there"}
    /\ lock \in Txn \cup {NoTxn}
    /\ txn \in [Txn -> [at : {"idle", "ensure", "change", "recount", "update", "commit"},
                        add : SUBSET Entry, del : SUBSET Entry,
                        count : 0..Cardinality(Entry), alone : BOOLEAN]]
    /\ drift \in BOOLEAN

MarketInit ==
    /\ entries = {} /\ tally = 0
    /\ profile = "none" /\ lock = NoTxn
    /\ txn = [t \in Txn |-> NoChange]
    /\ drift = FALSE

Step(t, from, to) == txn[t].at = from /\ txn' = [txn EXCEPT ![t].at = to]

Open == {t \in Txn : txn[t].at # "idle"}

\* setFunctionStar, createFunctionComment, forkFunction and the removal of a star make sure
\* of the profile; deleteFunctionComment does not.
BeginTxn(t, add, del, first) ==
    /\ txn[t] = NoChange
    /\ txn' = [s \in Txn |->
                IF s = t THEN [NoChange EXCEPT !.at = first, !.add = add, !.del = del, !.alone = Open = {}]
                ELSE IF s \in Open THEN [txn[s] EXCEPT !.alone = FALSE] ELSE txn[s]]
    /\ UNCHANGED <<entries, tally, profile, lock, drift>>

\* ensureMarketplaceProfile waits for a profile that is being inserted.
EnsureProfile(t) ==
    /\ profile \in {"none", "there"}
    /\ Step(t, "ensure", "change")
    /\ profile' = IF profile = "none" THEN t ELSE profile
    /\ UNCHANGED <<entries, tally, lock, drift>>

\* The insert or delete waits for another transaction's change of the same row.
ChangeEntry(t) ==
    /\ \A s \in Txn : txn[s].at \in {"recount", "update", "commit"} =>
            (txn[s].add \cup txn[s].del) \cap (txn[t].add \cup txn[t].del) = {}
    /\ Step(t, "change", "recount")
    /\ UNCHANGED <<entries, tally, profile, lock, drift>>

Visible(t) == (entries \cup txn[t].add) \ txn[t].del

\* Mutant of Recount: the rows are counted as they were before the transaction.
RecountCommitted(t) ==
    /\ txn[t].at = "recount"
    /\ txn' = [txn EXCEPT ![t].at = "update", ![t].count = Cardinality(entries)]
    /\ UNCHANGED <<entries, tally, profile, lock, drift>>

\* The update begins, and counts what it sees; without a profile in sight it changes no row ...
Recount(t) ==
    /\ txn[t].at = "recount"
    /\ txn' = [txn EXCEPT ![t].at = IF profile \in {"there", t} THEN "update" ELSE "commit",
                         ![t].count = Cardinality(Visible(t))]
    /\ UNCHANGED <<entries, tally, profile, lock, drift>>

\* ... and waits for the profile's row without counting again.
UpdateTally(t) ==
    /\ lock = NoTxn
    /\ Step(t, "update", "commit")
    /\ lock' = t
    /\ UNCHANGED <<entries, tally, profile, drift>>

\* A change that had the function for itself leaves the count right.
CommitTxn(t) ==
    /\ txn[t].at = "commit"
    /\ entries' = Visible(t)
    /\ tally' = IF lock = t THEN txn[t].count ELSE tally
    /\ profile' = IF profile = t THEN "there" ELSE profile
    /\ lock' = IF lock = t THEN NoTxn ELSE lock
    /\ drift' = ~txn[t].alone
    /\ txn' = [txn EXCEPT ![t] = NoChange]

\* An error, such as a parent comment that is gone, or a lost connection.
RollBack(t) ==
    /\ t \in Open
    /\ txn' = [txn EXCEPT ![t] = NoChange]
    /\ profile' = IF profile = t THEN "none" ELSE profile
    /\ lock' = IF lock = t THEN NoTxn ELSE lock
    /\ UNCHANGED <<entries, tally, drift>>

MarketNext ==
    \E t \in Txn :
        \/ \E e \in Entry : \/ BeginTxn(t, {e}, {}, "ensure") \/ BeginTxn(t, {}, {e}, "ensure")
                            \/ BeginTxn(t, {}, {e}, "change")
        \/ EnsureProfile(t) \/ ChangeEntry(t) \/ Recount(t) \/ UpdateTally(t) \/ CommitTxn(t)
        \/ RollBack(t)

MarketSpec == MarketInit /\ [][MarketNext]_marketVars

-----------------------------------------------------------------------------
(* Properties                                                               *)

\* The count a function shows is the number of its rows, unless changes have overlapped
\* since one that had the function for itself.
TallyIsCount == drift \/ tally = Cardinality(entries)

=============================================================================
