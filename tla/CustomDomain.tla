---------------------------- MODULE CustomDomain ----------------------------
(***************************************************************************)
(* Custom domains: a hostname is a row of the `custom_domain` table, a     *)
(* custom hostname at Cloudflare, and an entry of the DOMAIN_INDEX KV the   *)
(* dispatcher routes by.  No transaction spans the three, and the handlers *)
(* that add, refresh and remove a domain interleave at every await.        *)
(* (apps/web/src/server/custom-domains.ts, settings/domains/actions.ts)    *)
(***************************************************************************)
EXTENDS Naturals

CONSTANTS
    Domain,         \* domain ids, each added at most once
    Host,           \* hostnames
    HostOf,         \* the hostname a domain is to be
    Job,            \* server actions and status requests in flight
    Faults,         \* the calls that may fail: "cf", "kv", "db", "crash"
    NoDomain        \* "not routed"

ASSUME ConstantsOK ==
    /\ HostOf \in [Domain -> Host]
    /\ Faults \subseteq {"cf", "kv", "db", "crash"}
    /\ NoDomain \notin Domain

VARIABLES
    row,            \* Postgres: the row of a domain
    cf,             \* Cloudflare: the custom hostname created for a domain
    index,          \* DOMAIN_INDEX: the domain whose target a hostname has
    at,             \* where a job is, with what it has read
    \* history:
    born,           \* domains that were added
    validated,      \* domains Cloudflare has had live
    torn,           \* domains whose removal began
    removed,        \* domains removed to the end
    crossed         \* hostnames whose entry was touched for a row that is gone

vars == <<row, cf, index, at, born, validated, torn, removed, crossed>>
history == <<born, validated, torn, removed, crossed>>

Status == {"pending_dns", "pending_ssl", "active", "failed"}

NoRow == [status |-> "none"]
Row == [status : Status, cfHostnameId : BOOLEAN]

\* A custom hostname has a status of its own and one of its certificate; of their
\* values only what mapCfStatus tells apart is kept.
HostnameStatus == <<"pending", "active", "blocked">>
SslStatus == <<"initializing", "pending_validation", "active", "expired">>
NoRecord == [hostname |-> 0, ssl |-> 0]
Record == [hostname : 1..3, ssl : 1..4]
Created == [hostname |-> 1, ssl |-> 1]
Live == [hostname |-> 2, ssl |-> 3]

Idle == [op |-> "idle"]
Busy ==
    [op : {"provision", "record", "mark_failed"}, d : Domain]
    \cup [op : {"get"}, d : Domain, was : Status]
    \cup [op : {"publish", "update"}, d : Domain, status : Status]
    \cup [op : {"unroute", "deprovision", "drop"}, d : Domain, cfHostnameId : BOOLEAN]

TypeOK ==
    /\ row \in [Domain -> Row \cup {NoRow}]
    /\ cf \in [Domain -> Record \cup {NoRecord}]
    /\ index \in [Host -> Domain \cup {NoDomain}]
    /\ at \in [Job -> Busy \cup {Idle}]
    /\ born \subseteq Domain /\ validated \subseteq born
    /\ torn \subseteq born /\ removed \subseteq torn
    /\ crossed \subseteq Host

Init ==
    /\ row = [d \in Domain |-> NoRow]
    /\ cf = [d \in Domain |-> NoRecord]
    /\ index = [h \in Host |-> NoDomain]
    /\ at = [j \in Job |-> Idle]
    /\ born = {} /\ validated = {} /\ torn = {} /\ removed = {} /\ crossed = {}

\* Mutant of mapCfStatus: the certificate's status as it comes.
mapCfStatusRaw(r) == SslStatus[r.ssl]

\* Mutant of mapCfStatus: the certificate alone decides.
mapCfStatusSsl(r) ==
    CASE SslStatus[r.ssl] = "expired" -> "failed"
      [] SslStatus[r.ssl] = "active" -> "active"
      [] SslStatus[r.ssl] = "pending_validation" -> "pending_dns"
      [] OTHER -> "pending_ssl"

\* Cloudflare's two statuses as one; live means both.
mapCfStatus(r) ==
    LET hostname == HostnameStatus[r.hostname]
        ssl == SslStatus[r.ssl]
    IN  CASE hostname = "blocked" \/ ssl = "expired" -> "failed"
          [] hostname = "active" /\ ssl = "active" -> "active"
          [] hostname # "blocked" /\ ssl = "pending_validation" -> "pending_dns"
          [] OTHER -> "pending_ssl"

\* `UPDATE ... WHERE id = d`, which matches nothing once the row is gone; the last
\* statement of its handler, so an error ends it just as well.
UpdateRow(d, new) ==
    \/ row' = IF row[d] = NoRow THEN row ELSE [row EXCEPT ![d] = new]
    \/ "db" \in Faults /\ row' = row

Go(j, to) == at' = [at EXCEPT ![j] = to]

-----------------------------------------------------------------------------
(* addDomainAction                                                          *)

\* The insert claims the hostname: it is unique among the rows.
Add(j, d) ==
    /\ at[j] = Idle /\ d \notin born
    /\ \A x \in Domain : HostOf[x] = HostOf[d] => row[x] = NoRow
    /\ row' = [row EXCEPT ![d] = [status |-> "pending_dns", cfHostnameId |-> FALSE]]
    /\ born' = born \cup {d}
    /\ Go(j, [op |-> "provision", d |-> d])
    /\ UNCHANGED <<cf, index, validated, torn, removed, crossed>>

\* Cloudflare has a hostname once.
Creatable(d) == \A x \in Domain : HostOf[x] = HostOf[d] => cf[x] = NoRecord

Create(d) == cf' = [cf EXCEPT ![d] = Created]

\* The answer to a create that took effect may still be lost.
provisionDomain(j) ==
    LET d == at[j].d
    IN  /\ at[j].op = "provision"
        /\ \/ Creatable(d) /\ Create(d) /\ Go(j, [op |-> "record", d |-> d])
           \/ /\ Creatable(d) /\ "cf" \in Faults
              /\ Create(d) /\ Go(j, [op |-> "mark_failed", d |-> d])
           \/ /\ ~Creatable(d) \/ "cf" \in Faults
              /\ cf' = cf /\ Go(j, [op |-> "mark_failed", d |-> d])
        /\ UNCHANGED <<row, index, history>>

RecordHostname(j) ==
    LET d == at[j].d
    IN  /\ at[j].op = "record"
        /\ UpdateRow(d, [status |-> mapCfStatus(Created), cfHostnameId |-> TRUE])
        /\ Go(j, Idle)
        /\ UNCHANGED <<cf, index, history>>

MarkFailed(j) ==
    LET d == at[j].d
    IN  /\ at[j].op = "mark_failed"
        /\ UpdateRow(d, [status |-> "failed", cfHostnameId |-> FALSE])
        /\ Go(j, Idle)
        /\ UNCHANGED <<cf, index, history>>

-----------------------------------------------------------------------------
(* The status route and refreshDomainStatus                                 *)

Refresh(j, d) ==
    /\ at[j] = Idle
    /\ row[d] # NoRow /\ row[d].cfHostnameId
    /\ Go(j, [op |-> "get", d |-> d, was |-> row[d].status])
    /\ UNCHANGED <<row, cf, index, history>>

\* The row's status as it was read decides whether this is the transition.
GetHostname(j) ==
    LET d == at[j].d
        status == mapCfStatus(cf[d])
        publish == status = "active" /\ at[j].was # "active"
    IN  /\ at[j].op = "get"
        /\ \/ /\ cf[d] # NoRecord
              /\ Go(j, [op |-> IF publish THEN "publish" ELSE "update",
                        d |-> d, status |-> status])
           \/ (cf[d] = NoRecord \/ "cf" \in Faults) /\ Go(j, Idle)
        /\ UNCHANGED <<row, cf, index, history>>

\* Touching the entry of a hostname that its row no longer claims.
Cross(d) == crossed' = IF row[d] = NoRow THEN crossed \cup {HostOf[d]} ELSE crossed

\* Mutant of writeDomainIndex: its failure is swallowed, as the removal's are.
writeDomainIndexCaught(j) ==
    LET d == at[j].d
    IN  /\ at[j].op = "publish"
        /\ \/ index' = [index EXCEPT ![HostOf[d]] = d]
           \/ "kv" \in Faults /\ index' = index
        /\ Go(j, [at[j] EXCEPT !.op = "update"])
        /\ Cross(d)
        /\ UNCHANGED <<row, cf, born, validated, torn, removed>>

\* A failure, whether or not the entry was stored, ends the request before the update.
writeDomainIndex(j) ==
    LET d == at[j].d
        written == [index EXCEPT ![HostOf[d]] = d]
    IN  /\ at[j].op = "publish"
        /\ \/ index' = written /\ Go(j, [at[j] EXCEPT !.op = "update"])
           \/ "kv" \in Faults /\ index' \in {index, written} /\ Go(j, Idle)
        /\ Cross(d)
        /\ UNCHANGED <<row, cf, born, validated, torn, removed>>

UpdateStatus(j) ==
    LET d == at[j].d
    IN  /\ at[j].op = "update"
        /\ UpdateRow(d, [row[d] EXCEPT !.status = at[j].status])
        /\ Go(j, Idle)
        /\ UNCHANGED <<cf, index, history>>

-----------------------------------------------------------------------------
(* removeDomainAction                                                       *)

Remove(j, d) ==
    /\ at[j] = Idle /\ row[d] # NoRow
    /\ Go(j, [op |-> "unroute", d |-> d, cfHostnameId |-> row[d].cfHostnameId])
    /\ torn' = torn \cup {d}
    /\ UNCHANGED <<row, cf, index, born, validated, removed, crossed>>

\* Deletes the hostname's entry whatever it names; an error is ignored.
deleteDomainIndex(j) ==
    LET d == at[j].d
    IN  /\ at[j].op = "unroute"
        /\ \/ index' = [index EXCEPT ![HostOf[d]] = NoDomain]
           \/ "kv" \in Faults /\ index' = index
        /\ Cross(d)
        /\ Go(j, [at[j] EXCEPT !.op = IF at[j].cfHostnameId THEN "deprovision" ELSE "drop"])
        /\ UNCHANGED <<row, cf, born, validated, torn, removed>>

deprovisionDomain(j) ==
    /\ at[j].op = "deprovision"
    /\ \/ cf' = [cf EXCEPT ![at[j].d] = NoRecord]
       \/ "cf" \in Faults /\ cf' = cf
    /\ Go(j, [at[j] EXCEPT !.op = "drop"])
    /\ UNCHANGED <<row, index, history>>

DropRow(j) ==
    LET d == at[j].d
    IN  /\ at[j].op = "drop"
        /\ \/ row' = [row EXCEPT ![d] = NoRow] /\ removed' = removed \cup {d}
           \/ "db" \in Faults /\ UNCHANGED <<row, removed>>
        /\ Go(j, Idle)
        /\ UNCHANGED <<cf, index, born, validated, torn, crossed>>

-----------------------------------------------------------------------------
(* The environment                                                          *)

\* deleteFunction: the row goes with its function, and nothing else does.
DeleteFunction(d) ==
    /\ row[d] # NoRow
    /\ row' = [row EXCEPT ![d] = NoRow]
    /\ UNCHANGED <<cf, index, at, history>>

\* Cloudflare verifies the hostname, issues the certificate, lets it expire, renews
\* it, or gives up: any other status may come.
StatusChanges(d) ==
    /\ cf[d] # NoRecord
    /\ \E r \in Record \ {cf[d]} :
        /\ cf' = [cf EXCEPT ![d] = r]
        /\ validated' = IF r = Live THEN validated \cup {d} ELSE validated
    /\ UNCHANGED <<row, index, at, born, torn, removed, crossed>>

Crash(j) ==
    /\ "crash" \in Faults /\ at[j] # Idle
    /\ Go(j, Idle)
    /\ UNCHANGED <<row, cf, index, history>>

Step(j) ==
    \/ \E d \in Domain : Add(j, d) \/ Refresh(j, d) \/ Remove(j, d)
    \/ provisionDomain(j) \/ RecordHostname(j) \/ MarkFailed(j)
    \/ GetHostname(j) \/ writeDomainIndex(j) \/ UpdateStatus(j)
    \/ deleteDomainIndex(j) \/ deprovisionDomain(j) \/ DropRow(j)
    \/ Crash(j)

Next ==
    \/ \E j \in Job : Step(j)
    \/ \E d \in Domain : DeleteFunction(d) \/ StatusChanges(d)

Spec == Init /\ [][Next]_vars

-----------------------------------------------------------------------------
(* Properties                                                               *)

\* docs/custom-domains-setup.md: an unvalidated hostname is never routed.  Whatever is
\* interleaved, an entry names a domain of that hostname for which Cloudflare had the
\* hostname verified and its certificate issued (refreshDomainStatus's condition).
RoutedWasValidated ==
    \A h \in Host : index[h] # NoDomain =>
        index[h] \in validated /\ HostOf[index[h]] = h

\* A row that says `active` is routed to its own target.  The index is not rewritten
\* once the row is active, so every way to lose the entry shows: a removal that was
\* begun and not finished, or a handler of an earlier row of the same hostname that
\* was still under way after that row had gone.
ActiveIsRouted ==
    \A d \in Domain :
        row[d].status = "active" =>
            \/ index[HostOf[d]] = d
            \/ d \in torn
            \/ HostOf[d] \in crossed

\* docs-content.ts: "Removing a domain stops routing it".  Once a removal has come to
\* its end and no handler of the domain is left, its hostname is not routed to it.
RemovalStopsRouting ==
    \A h \in Host :
        index[h] \in removed => \E j \in Job : at[j] # Idle /\ at[j].d = index[h]

=============================================================================
