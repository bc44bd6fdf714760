------------------------- MODULE CustomDomain_proofs -------------------------
(***************************************************************************)
(* Custom domains for any domains, hostnames and requests: an entry of the *)
(* index was validated, and an active row is routed unless a removal or a  *)
(* handler of an earlier row took its entry.                               *)
(*                                                                         *)
(* Both rest on what a request still remembers from before its last await  *)
(* (JobOK): a status it is about to write was true when it was read, and   *)
(* what was routed then still is, or what took the entry is on record.     *)
(***************************************************************************)
EXTENDS CustomDomain, TLAPS

Routed(d) == index[HostOf[d]] = d \/ d \in torn \/ HostOf[d] \in crossed

\* What a request relies on when it goes on.
JobOK(x) ==
    /\ x # Idle => x.d \in born
    /\ x.op \in {"unroute", "deprovision", "drop"} => x.d \in torn
    /\ x.op = "publish" => x.status = "active" /\ x.d \in validated
    /\ (x.op = "get" /\ x.was = "active") \/ (x.op = "update" /\ x.status = "active") =>
         (row[x.d] # NoRow => Routed(x.d))

JobInv == \A j \in Job : JobOK(at[j])

\* Rows and custom hostnames are of domains that were added, and one that is live was
\* seen to be.
DomainInv ==
    \A d \in Domain :
        /\ row[d] # NoRow \/ cf[d] # NoRecord => d \in born
        /\ cf[d] = Live => d \in validated

\* The unique index on the hostname.
OneRow == \A c, d \in Domain :
            HostOf[c] = HostOf[d] /\ row[c] # NoRow /\ row[d] # NoRow => c = d

IInv == TypeOK /\ JobInv /\ DomainInv /\ OneRow /\ RoutedWasValidated /\ ActiveIsRouted

\* The fields of what a request remembers.
LEMMA JobFields ==
    ASSUME NEW x \in Busy \cup {Idle}
    PROVE  /\ x = Idle <=> x.op = "idle"
           /\ x # Idle => x.d \in Domain
           /\ x.op \in {"publish", "update"} =>
                /\ x.status \in Status
                /\ [x EXCEPT !.op = "update"] = [op |-> "update", d |-> x.d, status |-> x.status]
           /\ x.op = "get" => x.was \in Status
           /\ x.op \in {"unroute", "deprovision", "drop"} => \A to \in {"deprovision", "drop"} :
                /\ x.cfHostnameId \in BOOLEAN
                /\ [x EXCEPT !.op = to] = [op |-> to, d |-> x.d, cfHostnameId |-> x.cfHostnameId]
<1> USE DEF Idle, Busy
<1>1. CASE x = Idle
  BY <1>1
<1>2. CASE x \in [op : {"provision", "record", "mark_failed"}, d : Domain]
  BY <1>2
<1>3. CASE x \in [op : {"get"}, d : Domain, was : Status]
  BY <1>3
<1>4. CASE x \in [op : {"publish", "update"}, d : Domain, status : Status]
  BY <1>4
<1>5. CASE x \in [op : {"unroute", "deprovision", "drop"}, d : Domain, cfHostnameId : BOOLEAN]
  BY <1>5
<1> QED  BY <1>1, <1>2, <1>3, <1>4, <1>5

\* Cloudflare's two statuses are both active, or the row's is not.
LEMMA StatusOfRecord ==
    ASSUME NEW r \in Record
    PROVE  mapCfStatus(r) \in Status /\ (mapCfStatus(r) = "active" => r = Live)
<1> DEFINE hostname == HostnameStatus[r.hostname]
           ssl == SslStatus[r.ssl]
<1>1. /\ r.hostname \in 1..3 /\ r.ssl \in 1..4
      /\ r = [hostname |-> r.hostname, ssl |-> r.ssl]
  BY DEF Record
<1>2. hostname = "active" /\ ssl = "active" => r = Live
  BY <1>1 DEF HostnameStatus, SslStatus, Live
<1>3. mapCfStatus(r) \in Status /\ (mapCfStatus(r) = "active" => hostname = "active" /\ ssl = "active")
  <2>1. CASE hostname = "blocked" \/ ssl = "expired"
    BY <2>1 DEF mapCfStatus, Status
  <2>2. CASE ~(hostname = "blocked" \/ ssl = "expired") /\ hostname = "active" /\ ssl = "active"
    BY <2>2 DEF mapCfStatus, Status
  <2>3. CASE ~(hostname = "blocked" \/ ssl = "expired") /\ ~(hostname = "active" /\ ssl = "active")
    BY <2>3 DEF mapCfStatus, Status
  <2> QED  BY <2>1, <2>2, <2>3
<1> QED  BY <1>2, <1>3

LEMMA InitInv == Init => IInv
<1> SUFFICES ASSUME Init PROVE IInv
  OBVIOUS
<1> USE DEF Init
<1>1. TypeOK
  BY DEF TypeOK
<1>2. JobInv
  BY DEF JobInv, JobOK, Idle
<1>3. DomainInv /\ OneRow
  BY DEF DomainInv, OneRow, NoRecord, Live
<1>4. RoutedWasValidated /\ ActiveIsRouted
  BY DEF RoutedWasValidated, ActiveIsRouted, NoRow
<1> QED  BY <1>1, <1>2, <1>3, <1>4 DEF IInv

\* A step keeps the invariant if it brings no row back, loses no entry of a row that is
\* there unseen, and leaves every request with what it relies on.
LEMMA Preserved ==
    ASSUME IInv, TypeOK', DomainInv', OneRow', RoutedWasValidated',
           born \subseteq born', torn \subseteq torn', validated \subseteq validated',
           \A d \in Domain : d \in born /\ row'[d] # NoRow =>
                row[d] # NoRow /\ (Routed(d) => Routed(d)'),
           \A d \in Domain : row'[d].status = "active" => row[d].status = "active" \/ Routed(d)',
           \A j \in Job : at'[j] = at[j] \/ JobOK(at[j])'
    PROVE  IInv'
<1>0. TypeOK /\ JobInv /\ DomainInv /\ ActiveIsRouted
  BY DEF IInv
<1>1. JobInv'
  <2> SUFFICES ASSUME NEW j \in Job, at'[j] = at[j] PROVE JobOK(at[j])'
    BY DEF JobInv
  <2>1. JobOK(at[j])
    BY <1>0 DEF JobInv
  <2>2. at[j] \in Busy \cup {Idle}
    BY <1>0 DEF TypeOK
  <2>3. at[j].op \in {"get", "update"} => at[j] # Idle
    BY DEF Idle
  <2> QED  BY <2>1, <2>2, <2>3, JobFields DEF JobOK
<1>2. ActiveIsRouted'
  <2>1. \A d \in Domain : row[d].status = "active" => row[d] # NoRow
    BY DEF NoRow
  <2>2. \A d \in Domain : row'[d].status = "active" => row'[d] # NoRow
    BY DEF NoRow
  <2> QED  BY <1>0, <2>1, <2>2 DEF ActiveIsRouted, DomainInv, Routed
<1> QED  BY <1>1, <1>2 DEF IInv

-----------------------------------------------------------------------------
(* Requests                                                                 *)

\* What a request at an await relies on, and where it can go.
LEMMA JobFacts ==
    ASSUME IInv, NEW j \in Job
    PROVE  /\ at[j] \in Busy \cup {Idle} /\ JobOK(at[j])
           /\ \A new : at' = [at EXCEPT ![j] = new] =>
                /\ at'[j] = new /\ \A i \in Job : i # j => at'[i] = at[i]
                /\ new \in Busy \cup {Idle} => at' \in [Job -> Busy \cup {Idle}]
<1> QED  BY DEF IInv, TypeOK, JobInv

\* Steps that only read.
LEMMA ReadStep ==
    ASSUME IInv, NEW j \in Job,
           (\E d \in Domain : Refresh(j, d)) \/ GetHostname(j) \/ Crash(j)
    PROVE  IInv'
<1>0. TypeOK /\ DomainInv /\ OneRow /\ RoutedWasValidated /\ ActiveIsRouted
  BY DEF IInv
<1>1. UNCHANGED <<row, cf, index, history>>
  BY DEF Refresh, GetHostname, Crash
<1>2. PICK new \in Busy \cup {Idle} : at' = [at EXCEPT ![j] = new] /\ JobOK(new)
  <2>1. JobOK(Idle)
    BY DEF JobOK, Idle
  <2>2. CASE Crash(j)
    BY <2>1, <2>2 DEF Crash, Go
  <2>3. CASE \E d \in Domain : Refresh(j, d)
    <3>1. PICK d \in Domain : Refresh(j, d)
      BY <2>3
    <3> DEFINE new == [op |-> "get", d |-> d, was |-> row[d].status]
    <3>2. row[d] # NoRow /\ row[d].status \in Status
      BY <1>0, <3>1 DEF Refresh, TypeOK, Row
    <3>3. new \in Busy
      BY <3>2 DEF Busy
    <3>4. JobOK(new)
      BY <1>0, <3>2 DEF JobOK, DomainInv, ActiveIsRouted, Routed
    <3> QED  BY <3>1, <3>3, <3>4 DEF Refresh, Go
  <2>4. CASE GetHostname(j)
    <3> DEFINE d == at[j].d
               status == mapCfStatus(cf[d])
               publish == status = "active" /\ at[j].was # "active"
               new == [op |-> IF publish THEN "publish" ELSE "update", d |-> d, status |-> status]
    <3>1. at[j].op = "get" /\ d \in Domain /\ at[j] # Idle /\ JobOK(at[j])
      BY <2>4, JobFacts, JobFields DEF GetHostname
    <3>2. CASE at' = [at EXCEPT ![j] = Idle]
      BY <2>1, <3>2
    <3>3. CASE cf[d] # NoRecord /\ at' = [at EXCEPT ![j] = new]
      <4>1. status \in Status /\ (status = "active" => d \in validated)
        BY <1>0, <3>1, <3>3, StatusOfRecord DEF TypeOK, DomainInv
      <4>2. new \in Busy
        <5> HIDE DEF d, status, publish
        <5> QED  BY <3>1, <4>1 DEF Busy
      <4>3. JobOK(new)
        <5>1. d \in born /\ (at[j].was = "active" => (row[d] # NoRow => Routed(d)))
          BY <3>1 DEF JobOK
        <5> HIDE DEF d, status
        <5> QED  BY <4>1, <5>1 DEF JobOK
      <4> QED  BY <3>3, <4>2, <4>3
    <3> HIDE DEF new
    <3> QED  BY <2>4, <3>2, <3>3 DEF GetHostname, Go, new
  <2> QED  BY <2>2, <2>3, <2>4
<1>3. \A i \in Job : at'[i] = at[i] \/ JobOK(at[i])'
  <2>1. at'[j] = new /\ \A i \in Job : i # j => at'[i] = at[i]
    BY <1>2, JobFacts
  <2> QED  BY <1>1, <1>2, <2>1 DEF JobOK, Routed, history
<1>4. TypeOK'
  BY <1>0, <1>1, <1>2, JobFacts DEF TypeOK, history
<1>5. DomainInv' /\ OneRow' /\ RoutedWasValidated'
  BY <1>0, <1>1 DEF DomainInv, OneRow, RoutedWasValidated, history
<1> QED  BY <1>1, <1>3, <1>4, <1>5, Preserved DEF history, Routed

LEMMA AddStep ==
    ASSUME IInv, NEW j \in Job, NEW d \in Domain, Add(j, d)
    PROVE  IInv'
<1> DEFINE new == [op |-> "provision", d |-> d]
           r == [status |-> "pending_dns", cfHostnameId |-> FALSE]
<1>0. TypeOK /\ DomainInv /\ OneRow /\ RoutedWasValidated /\ ActiveIsRouted
  BY DEF IInv
<1>1. /\ d \notin born /\ \A x \in Domain : HostOf[x] = HostOf[d] => row[x] = NoRow
      /\ row' = [row EXCEPT ![d] = r] /\ born' = born \cup {d}
      /\ at' = [at EXCEPT ![j] = new]
      /\ UNCHANGED <<cf, index, validated, torn, removed, crossed>>
  BY DEF Add, Go
<1>2. new \in Busy /\ r \in Row
  BY DEF Busy, Row, Status
<1>3. row'[d] = r /\ \A x \in Domain : x # d => row'[x] = row[x]
  BY <1>0, <1>1 DEF TypeOK
<1>4. TypeOK'
  <2>1. at' \in [Job -> Busy \cup {Idle}]
    BY <1>1, <1>2, JobFacts
  <2>2. row' \in [Domain -> Row \cup {NoRow}]
    BY <1>0, <1>1, <1>2 DEF TypeOK
  <2> QED  BY <1>0, <1>1, <2>1, <2>2 DEF TypeOK
<1>5. JobOK(at[j])'
  <2>1. at'[j] = new
    BY <1>1, JobFacts
  <2> QED  BY <1>1, <2>1 DEF JobOK
<1>6. DomainInv' /\ OneRow' /\ RoutedWasValidated'
  BY <1>0, <1>1, <1>3 DEF DomainInv, OneRow, RoutedWasValidated
<1>7. \A x \in Domain : x \in born /\ row'[x] # NoRow => row[x] # NoRow /\ (Routed(x) => Routed(x)')
  BY <1>1, <1>3 DEF Routed
<1>8. \A x \in Domain : row'[x].status = "active" => row[x].status = "active"
  BY <1>3
<1>9. \A i \in Job : at'[i] = at[i] \/ JobOK(at[i])'
  BY <1>1, <1>5, JobFacts
<1> QED  BY <1>1, <1>4, <1>6, <1>7, <1>8, <1>9, Preserved

\* A request's last statement: whatever becomes of it, the request is over.
LEMMA RowStep ==
    ASSUME IInv, NEW j \in Job, RecordHostname(j) \/ MarkFailed(j) \/ UpdateStatus(j) \/ DropRow(j)
    PROVE  IInv'
<1> DEFINE d == at[j].d
<1>0. TypeOK /\ DomainInv /\ OneRow /\ RoutedWasValidated /\ ActiveIsRouted
  BY DEF IInv
<1>1. /\ at' = [at EXCEPT ![j] = Idle]
      /\ UNCHANGED <<cf, index, born, validated, torn, crossed>>
      /\ removed' = removed \/ (removed' = removed \cup {d} /\ d \in torn)
  BY JobFacts DEF RecordHostname, MarkFailed, UpdateStatus, DropRow, Go, JobOK, history
<1>2. d \in Domain
  BY JobFacts, JobFields DEF RecordHostname, MarkFailed, UpdateStatus, DropRow
<1>3. PICK r \in Row \cup {NoRow} :
        /\ row' = [row EXCEPT ![d] = r]
        /\ r # NoRow => row[d] # NoRow
        /\ r.status = "active" => row[d].status = "active" \/ Routed(d)
  <2>1. row[d] \in Row \cup {NoRow} /\ row = [row EXCEPT ![d] = row[d]]
    BY <1>0, <1>2 DEF TypeOK
  <2>2. NoRow.status # "active"
    BY DEF NoRow
  <2>3. CASE row' = row
    BY <2>1, <2>3
  <2>4. CASE row[d] = NoRow /\ row' = [row EXCEPT ![d] = NoRow]
    BY <2>2, <2>4
  <2>5. CASE RecordHostname(j) \/ MarkFailed(j)
    <3> DEFINE r(s, b) == [status |-> s, cfHostnameId |-> b]
    <3>1. Created \in Record /\ Created # Live
      BY DEF Created, Record, Live
    <3>2. mapCfStatus(Created) \in Status /\ mapCfStatus(Created) # "active"
      BY <3>1, StatusOfRecord
    <3>3. PICK s \in Status, b \in BOOLEAN :
            s # "active" /\ (row' = row \/ (row[d] # NoRow /\ row' = [row EXCEPT ![d] = r(s, b)]))
      BY <2>1, <2>5, <3>2 DEF RecordHostname, MarkFailed, UpdateRow, Status
    <3>4. r(s, b) \in Row
      BY DEF Row
    <3> QED  BY <2>3, <3>3, <3>4
  <2>6. CASE UpdateStatus(j)
    <3> DEFINE r == [row[d] EXCEPT !.status = at[j].status]
    <3>1. at[j].op = "update" /\ at[j].status \in Status
      BY <2>6, JobFacts, JobFields DEF UpdateStatus
    <3>2. row' = row \/ (row[d] # NoRow /\ row' = [row EXCEPT ![d] = r])
      BY <2>6 DEF UpdateStatus, UpdateRow
    <3>3. CASE row[d] # NoRow /\ row' = [row EXCEPT ![d] = r]
      <4>1. r \in Row /\ r.status = at[j].status
        BY <2>1, <3>1, <3>3 DEF Row
      <4>2. at[j].status = "active" => Routed(d)
        BY <3>1, <3>3, JobFacts DEF JobOK
      <4> QED  BY <3>3, <4>1, <4>2
    <3> QED  BY <2>3, <3>2, <3>3
  <2>7. CASE DropRow(j)
    <3>1. row' = row \/ row' = [row EXCEPT ![d] = NoRow]
      BY <2>7 DEF DropRow
    <3> QED  BY <2>2, <2>3, <3>1
  <2> QED  BY <2>5, <2>6, <2>7
<1> HIDE DEF d
<1>4. row'[d] = r /\ \A x \in Domain : x # d => row'[x] = row[x]
  BY <1>0, <1>2, <1>3 DEF TypeOK
<1>5. TypeOK'
  <2>1. at' \in [Job -> Busy \cup {Idle}] /\ row' \in [Domain -> Row \cup {NoRow}]
    BY <1>0, <1>1, <1>3, JobFacts DEF TypeOK
  <2> QED  BY <1>0, <1>1, <2>1 DEF TypeOK
<1>6. DomainInv' /\ OneRow' /\ RoutedWasValidated'
  BY <1>0, <1>1, <1>3, <1>4 DEF DomainInv, OneRow, RoutedWasValidated
<1>7. \A x \in Domain : x \in born /\ row'[x] # NoRow => row[x] # NoRow /\ (Routed(x) => Routed(x)')
  BY <1>1, <1>3, <1>4 DEF Routed
<1>8. \A x \in Domain : row'[x].status = "active" => row[x].status = "active" \/ Routed(x)'
  BY <1>1, <1>3, <1>4 DEF Routed
<1>9. \A i \in Job : at'[i] = at[i] \/ JobOK(at[i])'
  BY <1>1, JobFacts DEF JobOK, Idle
<1> QED  BY <1>1, <1>5, <1>6, <1>7, <1>8, <1>9, Preserved

\* The entry is written: of a domain that Cloudflare had live, and over the entry of
\* another only if this one's row is gone.
LEMMA PublishStep ==
    ASSUME IInv, NEW j \in Job, writeDomainIndex(j)
    PROVE  IInv'
<1> DEFINE d == at[j].d
           next == [op |-> "update", d |-> d, status |-> at[j].status]
<1>0. TypeOK /\ DomainInv /\ OneRow /\ RoutedWasValidated /\ ActiveIsRouted
  BY DEF IInv
<1>1. /\ at[j].op = "publish" /\ at[j].status \in Status /\ d \in Domain
      /\ [at[j] EXCEPT !.op = "update"] = next
      /\ d \in born /\ d \in validated
  BY JobFacts, JobFields DEF writeDomainIndex, JobOK
<1>2. /\ UNCHANGED <<row, cf, born, validated, torn, removed>>
      /\ crossed' = IF row[d] = NoRow THEN crossed \cup {HostOf[d]} ELSE crossed
  BY DEF writeDomainIndex, Cross
<1>3. PICK new \in {next, Idle} :
        /\ at' = [at EXCEPT ![j] = new]
        /\ index' = index \/ index' = [index EXCEPT ![HostOf[d]] = d]
        /\ new = next => index' = [index EXCEPT ![HostOf[d]] = d]
  <2> HIDE DEF next
  <2>1. \/ index' = [index EXCEPT ![HostOf[d]] = d] /\ at' = [at EXCEPT ![j] = next]
        \/ /\ index' \in {index, [index EXCEPT ![HostOf[d]] = d]}
           /\ at' = [at EXCEPT ![j] = Idle] /\ next # Idle
    BY <1>1 DEF writeDomainIndex, Go, next, Idle
  <2> QED  BY <2>1
<1>4. new \in Busy \cup {Idle}
  BY <1>1, <1>3 DEF Busy
<1> HIDE DEF d, next
<1>5. HostOf[d] \in Host /\ \A x \in Domain : HostOf[x] \in Host
  BY <1>1, ConstantsOK DEF ConstantsOK
<1>6. /\ \A h \in Host : index'[h] = index[h] \/ (h = HostOf[d] /\ index'[h] = d)
      /\ new = next => index'[HostOf[d]] = d
  BY <1>0, <1>3, <1>5 DEF TypeOK
<1>7. TypeOK'
  <2>1. at' \in [Job -> Busy \cup {Idle}]
    BY <1>3, <1>4, JobFacts
  <2>2. index' \in [Host -> Domain \cup {NoDomain}] /\ crossed' \subseteq Host
    BY <1>0, <1>1, <1>2, <1>3, <1>5 DEF TypeOK
  <2> QED  BY <1>0, <1>2, <2>1, <2>2 DEF TypeOK
<1>8. DomainInv' /\ OneRow'
  BY <1>0, <1>2 DEF DomainInv, OneRow
<1>9. RoutedWasValidated'
  BY <1>0, <1>1, <1>2, <1>6 DEF RoutedWasValidated
<1>10. \A x \in Domain : row[x] # NoRow /\ Routed(x) => Routed(x)'
  <2> SUFFICES ASSUME NEW x \in Domain, row[x] # NoRow, index[HostOf[x]] = x
               PROVE  Routed(x)'
    BY <1>2 DEF Routed
  <2>1. CASE index'[HostOf[x]] = x
    BY <2>1 DEF Routed
  <2>2. CASE HostOf[x] = HostOf[d] /\ x # d
    <3>1. row[d] = NoRow
      BY <1>0, <1>1, <2>2 DEF OneRow
    <3> QED  BY <1>2, <2>2, <3>1 DEF Routed
  <2> QED  BY <1>5, <1>6, <2>1, <2>2
<1>11. JobOK(at[j])'
  <2>1. at'[j] = new
    BY <1>3, <1>4, JobFacts
  <2> QED  BY <1>1, <1>2, <1>3, <1>6, <2>1 DEF JobOK, Routed, Idle, next
<1>12. \A i \in Job : at'[i] = at[i] \/ JobOK(at[i])'
  BY <1>3, <1>11, JobFacts
<1> QED  BY <1>2, <1>7, <1>8, <1>9, <1>10, <1>12, Preserved

\* A removal takes its domain's entry, or that of another if its own row is gone.
LEMMA UnrouteStep ==
    ASSUME IInv, NEW j \in Job, deleteDomainIndex(j)
    PROVE  IInv'
<1> DEFINE d == at[j].d
           op == IF at[j].cfHostnameId THEN "deprovision" ELSE "drop"
           new == [op |-> op, d |-> d, cfHostnameId |-> at[j].cfHostnameId]
<1>0. TypeOK /\ DomainInv /\ OneRow /\ RoutedWasValidated /\ ActiveIsRouted
  BY DEF IInv
<1>1. /\ at[j].op = "unroute" /\ at[j].cfHostnameId \in BOOLEAN /\ d \in Domain
      /\ [at[j] EXCEPT !.op = op] = new
      /\ d \in born /\ d \in torn
  BY JobFacts, JobFields DEF deleteDomainIndex, JobOK
<1>2. /\ UNCHANGED <<row, cf, born, validated, torn, removed>>
      /\ crossed' = IF row[d] = NoRow THEN crossed \cup {HostOf[d]} ELSE crossed
      /\ index' = index \/ index' = [index EXCEPT ![HostOf[d]] = NoDomain]
  BY DEF deleteDomainIndex, Cross
<1>3. at' = [at EXCEPT ![j] = new]
  BY <1>1 DEF deleteDomainIndex, Go
<1>4. new \in Busy
  BY <1>1 DEF Busy
<1>5. HostOf[d] \in Host /\ \A x \in Domain : HostOf[x] \in Host
  BY <1>1, ConstantsOK DEF ConstantsOK
<1> HIDE DEF d
<1>6. \A h \in Host : index'[h] = index[h] \/ (h = HostOf[d] /\ index'[h] = NoDomain)
  BY <1>0, <1>2, <1>5 DEF TypeOK
<1>7. JobOK(at[j])'
  <2>1. at'[j] = new
    BY <1>3, JobFacts
  <2> QED  BY <1>1, <1>2, <2>1 DEF JobOK
<1> HIDE DEF new
<1>8. TypeOK'
  <2>1. at' \in [Job -> Busy \cup {Idle}]
    BY <1>3, <1>4, JobFacts
  <2>2. index' \in [Host -> Domain \cup {NoDomain}] /\ crossed' \subseteq Host
    BY <1>0, <1>2, <1>5 DEF TypeOK
  <2> QED  BY <1>0, <1>2, <2>1, <2>2 DEF TypeOK
<1>9. DomainInv' /\ OneRow' /\ RoutedWasValidated'
  BY <1>0, <1>2, <1>6 DEF DomainInv, OneRow, RoutedWasValidated
<1>10. \A x \in Domain : row[x] # NoRow /\ Routed(x) => Routed(x)'
  <2> SUFFICES ASSUME NEW x \in Domain, row[x] # NoRow, index[HostOf[x]] = x, HostOf[x] = HostOf[d]
               PROVE  Routed(x)'
    BY <1>2, <1>5, <1>6 DEF Routed
  <2>1. CASE x = d
    BY <1>1, <1>2, <2>1 DEF Routed
  <2>2. CASE x # d
    <3>1. row[d] = NoRow
      BY <1>0, <1>1, <2>2 DEF OneRow
    <3> QED  BY <1>2, <3>1 DEF Routed
  <2> QED  BY <2>1, <2>2
<1>11. \A i \in Job : at'[i] = at[i] \/ JobOK(at[i])'
  BY <1>3, <1>7, JobFacts
<1> QED  BY <1>2, <1>8, <1>9, <1>10, <1>11, Preserved

LEMMA RemoveStep ==
    ASSUME IInv, NEW j \in Job, NEW d \in Domain, Remove(j, d)
    PROVE  IInv'
<1> DEFINE new == [op |-> "unroute", d |-> d, cfHostnameId |-> row[d].cfHostnameId]
<1>0. TypeOK /\ DomainInv /\ OneRow /\ RoutedWasValidated /\ ActiveIsRouted
  BY DEF IInv
<1>1. /\ at' = [at EXCEPT ![j] = new] /\ torn' = torn \cup {d}
      /\ UNCHANGED <<row, cf, index, born, validated, removed, crossed>>
      /\ d \in born /\ row[d].cfHostnameId \in BOOLEAN
  BY <1>0 DEF Remove, Go, DomainInv, TypeOK, Row
<1>2. new \in Busy
  BY <1>1 DEF Busy
<1>3. JobOK(at[j])'
  <2>1. at'[j] = new
    BY <1>1, JobFacts
  <2> QED  BY <1>1, <2>1 DEF JobOK
<1> HIDE DEF new
<1>4. TypeOK'
  <2>1. at' \in [Job -> Busy \cup {Idle}]
    BY <1>1, <1>2, JobFacts
  <2> QED  BY <1>0, <1>1, <2>1 DEF TypeOK
<1>5. DomainInv' /\ OneRow' /\ RoutedWasValidated'
  BY <1>0, <1>1 DEF DomainInv, OneRow, RoutedWasValidated
<1>6. \A x \in Domain : Routed(x) => Routed(x)'
  BY <1>1 DEF Routed
<1>7. \A i \in Job : at'[i] = at[i] \/ JobOK(at[i])'
  BY <1>1, <1>3, JobFacts
<1> QED  BY <1>1, <1>4, <1>5, <1>6, <1>7, Preserved

-----------------------------------------------------------------------------
(* Cloudflare and the rest                                                  *)

\* The custom hostname changes: created or deleted by a request, or by itself.
LEMMA HostnameStep ==
    ASSUME IInv,
           \/ \E j \in Job : provisionDomain(j) \/ deprovisionDomain(j)
           \/ \E d \in Domain : StatusChanges(d)
    PROVE  IInv'
<1>0. TypeOK /\ JobInv /\ DomainInv /\ OneRow /\ RoutedWasValidated /\ ActiveIsRouted
  BY DEF IInv
<1>1. /\ UNCHANGED <<row, index, born, torn, removed, crossed>>
      /\ validated \subseteq validated'
  BY DEF provisionDomain, deprovisionDomain, StatusChanges, history
<1>2. PICK d \in born, r \in Record \cup {NoRecord} :
        /\ cf' = cf \/ cf' = [cf EXCEPT ![d] = r]
        /\ validated' = validated \/ validated' = validated \cup {d}
        /\ r = Live => validated' = validated \cup {d}
  <2>1. CASE \E j \in Job : provisionDomain(j) \/ deprovisionDomain(j)
    <3>1. PICK j \in Job : provisionDomain(j) \/ deprovisionDomain(j)
      BY <2>1
    <3>2. at[j].d \in born /\ validated' = validated
      BY <3>1, JobFacts, JobFields DEF provisionDomain, deprovisionDomain, history, JobOK
    <3>3. Created \in Record /\ Created # Live /\ NoRecord # Live
      BY DEF Created, Record, Live, NoRecord
    <3>4. cf' = cf \/ cf' = [cf EXCEPT ![at[j].d] = Created] \/ cf' = [cf EXCEPT ![at[j].d] = NoRecord]
      BY <3>1 DEF provisionDomain, deprovisionDomain, Create
    <3> QED  BY <3>2, <3>3, <3>4
  <2>2. CASE \E d \in Domain : StatusChanges(d)
    <3>1. PICK d \in Domain, r \in Record :
            /\ cf[d] # NoRecord /\ cf' = [cf EXCEPT ![d] = r]
            /\ validated' = IF r = Live THEN validated \cup {d} ELSE validated
      BY <2>2 DEF StatusChanges
    <3>2. d \in born
      BY <1>0, <3>1 DEF DomainInv
    <3>3. CASE r = Live
      BY <3>1, <3>2, <3>3
    <3>4. CASE r # Live
      <4>1. validated' = validated /\ cf' = [cf EXCEPT ![d] = r]
        BY <3>1, <3>4
      <4> WITNESS d \in born, r \in Record \cup {NoRecord}
      <4> QED  BY <3>4, <4>1
    <3> QED  BY <3>3, <3>4
  <2> QED  BY <2>1, <2>2
<1>3. d \in Domain
  BY <1>0, <1>2 DEF TypeOK
<1>4. \A i \in Job : at'[i] = at[i] \/ JobOK(at[i])'
  <2>1. CASE \E j \in Job : provisionDomain(j) \/ deprovisionDomain(j)
    <3>1. PICK j \in Job : provisionDomain(j) \/ deprovisionDomain(j)
      BY <2>1
    <3>2. JobOK(at[j]) /\ at[j] # Idle /\ at[j].op \in {"provision", "deprovision"}
      BY <3>1, JobFacts, JobFields DEF provisionDomain, deprovisionDomain
    <3>3. PICK new : at' = [at EXCEPT ![j] = new] /\ JobOK(new)
      <4>1. CASE provisionDomain(j)
        <5>1. PICK op \in {"record", "mark_failed"} : at' = [at EXCEPT ![j] = [op |-> op, d |-> at[j].d]]
          BY <4>1 DEF provisionDomain, Go
        <5> DEFINE new == [op |-> op, d |-> at[j].d]
        <5>2. new.op = op /\ new.d = at[j].d
          OBVIOUS
        <5>3. at[j].d \in born
          BY <3>2 DEF JobOK
        <5> HIDE DEF new
        <5>4. JobOK(new)
          BY <5>2, <5>3 DEF JobOK
        <5> QED  BY <5>1, <5>4 DEF new
      <4>2. CASE deprovisionDomain(j)
        <5>1. [at[j] EXCEPT !.op = "drop"] = [op |-> "drop", d |-> at[j].d, cfHostnameId |-> at[j].cfHostnameId]
          BY <4>2, JobFacts, JobFields DEF deprovisionDomain
        <5> QED  BY <3>2, <4>2, <5>1 DEF deprovisionDomain, Go, JobOK
      <4> QED  BY <3>1, <4>1, <4>2
    <3>4. at'[j] = new /\ \A i \in Job : i # j => at'[i] = at[i]
      BY <3>3, JobFacts
    <3> QED  BY <1>1, <3>3, <3>4 DEF JobOK, Routed
  <2>2. CASE \E x \in Domain : StatusChanges(x)
    BY <2>2 DEF StatusChanges
  <2> QED  BY <2>1, <2>2
<1>5. at' \in [Job -> Busy \cup {Idle}]
  <2>1. CASE \E j \in Job : provisionDomain(j) \/ deprovisionDomain(j)
    <3>1. PICK j \in Job : provisionDomain(j) \/ deprovisionDomain(j)
      BY <2>1
    <3>2. CASE provisionDomain(j)
      <4>1. PICK op \in {"record", "mark_failed"} : at' = [at EXCEPT ![j] = [op |-> op, d |-> at[j].d]]
        BY <3>2 DEF provisionDomain, Go
      <4>2. at[j].d \in Domain
        BY <3>2, JobFacts, JobFields DEF provisionDomain
      <4>3. [op |-> op, d |-> at[j].d] \in Busy
        BY <4>2 DEF Busy
      <4> QED  BY <4>1, <4>3, JobFacts
    <3>3. CASE deprovisionDomain(j)
      <4>1. at[j].d \in Domain /\ at[j].cfHostnameId \in BOOLEAN
            /\ at' = [at EXCEPT ![j] = [op |-> "drop", d |-> at[j].d, cfHostnameId |-> at[j].cfHostnameId]]
        BY <3>3, JobFacts, JobFields DEF deprovisionDomain, Go
      <4>2. [op |-> "drop", d |-> at[j].d, cfHostnameId |-> at[j].cfHostnameId] \in Busy
        BY <4>1 DEF Busy
      <4> QED  BY <4>1, <4>2, JobFacts
    <3> QED  BY <3>1, <3>2, <3>3
  <2>2. CASE \E x \in Domain : StatusChanges(x)
    BY <1>0, <2>2 DEF StatusChanges, TypeOK
  <2> QED  BY <2>1, <2>2
<1>6. TypeOK'
  <2>1. cf' \in [Domain -> Record \cup {NoRecord}] /\ validated' \subseteq born
    BY <1>0, <1>2, <1>3 DEF TypeOK
  <2> QED  BY <1>0, <1>1, <1>5, <2>1 DEF TypeOK
<1>7. DomainInv'
  <2>1. \A x \in Domain : cf'[x] = cf[x] \/ (x = d /\ cf'[x] = r)
    BY <1>0, <1>2, <1>3 DEF TypeOK
  <2> QED  BY <1>0, <1>1, <1>2, <2>1 DEF DomainInv
<1>8. OneRow' /\ RoutedWasValidated'
  BY <1>0, <1>1 DEF OneRow, RoutedWasValidated
<1> QED  BY <1>1, <1>4, <1>6, <1>7, <1>8, Preserved DEF Routed

LEMMA DeleteFunctionStep ==
    ASSUME IInv, NEW d \in Domain, DeleteFunction(d)
    PROVE  IInv'
<1>0. TypeOK /\ DomainInv /\ OneRow /\ RoutedWasValidated
  BY DEF IInv
<1>1. row' = [row EXCEPT ![d] = NoRow] /\ UNCHANGED <<cf, index, at, born, validated, torn, removed, crossed>>
  BY DEF DeleteFunction, history
<1>2. row'[d] = NoRow /\ \A x \in Domain : x # d => row'[x] = row[x]
  BY <1>0, <1>1 DEF TypeOK
<1>3. TypeOK' /\ DomainInv' /\ OneRow' /\ RoutedWasValidated'
  BY <1>0, <1>1, <1>2 DEF TypeOK, DomainInv, OneRow, RoutedWasValidated
<1>4. NoRow.status # "active"
  BY DEF NoRow
<1> QED  BY <1>1, <1>2, <1>3, <1>4, Preserved DEF Routed

-----------------------------------------------------------------------------
(* The theorems                                                             *)

LEMMA NextInv == IInv /\ [Next]_vars => IInv'
<1> SUFFICES ASSUME IInv, [Next]_vars PROVE IInv'
  OBVIOUS
<1>1. CASE \E j \in Job : Step(j)
  <2>1. PICK j \in Job : Step(j)
    BY <1>1
  <2>2. CASE \E d \in Domain : Add(j, d) \/ Refresh(j, d) \/ Remove(j, d)
    BY <2>2, AddStep, ReadStep, RemoveStep
  <2>3. CASE provisionDomain(j) \/ RecordHostname(j) \/ MarkFailed(j)
    BY <2>3, HostnameStep, RowStep
  <2>4. CASE GetHostname(j) \/ writeDomainIndex(j) \/ UpdateStatus(j)
    BY <2>4, ReadStep, PublishStep, RowStep
  <2>5. CASE deleteDomainIndex(j) \/ deprovisionDomain(j) \/ DropRow(j) \/ Crash(j)
    BY <2>5, UnrouteStep, HostnameStep, RowStep, ReadStep
  <2> QED  BY <2>1, <2>2, <2>3, <2>4, <2>5 DEF Step
<1>2. CASE \E d \in Domain : DeleteFunction(d) \/ StatusChanges(d)
  BY <1>2, DeleteFunctionStep, HostnameStep
<1>3. CASE UNCHANGED vars
  BY <1>3 DEF IInv, vars, TypeOK, JobInv, JobOK, Routed, DomainInv, OneRow, RoutedWasValidated,
     ActiveIsRouted
<1> QED  BY <1>1, <1>2, <1>3 DEF Next

LEMMA Invariant == Spec => []IInv
<1> QED  BY InitInv, NextInv, PTL DEF Spec

\* The rows, the records, the index and the requests keep their types.
THEOREM DomainTypeCorrect == Spec => []TypeOK
<1>1. IInv => TypeOK
  BY DEF IInv
<1> QED  BY Invariant, <1>1, PTL

\* No hostname is routed that Cloudflare has not had verified and certified.
THEOREM RoutedCorrect == Spec => []RoutedWasValidated
<1>1. IInv => RoutedWasValidated
  BY DEF IInv
<1> QED  BY Invariant, <1>1, PTL

\* An active row is routed to its target, unless a removal of it was begun or a
\* handler of an earlier row of the hostname came late.
THEOREM ActiveCorrect == Spec => []ActiveIsRouted
<1>1. IInv => ActiveIsRouted
  BY DEF IInv
<1> QED  BY Invariant, <1>1, PTL

=============================================================================
