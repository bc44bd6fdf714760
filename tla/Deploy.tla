------------------------------- MODULE Deploy -------------------------------
(***************************************************************************)
(* What a function's address leads to: deploys from the dashboard and from *)
(* the CLI, renames and deletions in the control plane (dashboard/[fn]/    *)
(* actions.ts, api/cli/functions/deploy/route.ts) against the dispatcher's *)
(* lookups, which it keeps in the FN_INDEX namespace (dispatch.ts).        *)
(*                                                                         *)
(* An actor is a server action or a CLI request, a visit is a request the  *)
(* dispatcher has no cached lookup for.  Each await is a step.  Everything *)
(* belongs to one workspace.                                               *)
(***************************************************************************)
EXTENDS Naturals, FiniteSets

CONSTANTS
    Fn, Slug, Version, Actor, Visit,
    None,
    MaxActive,  \* the plan's limit of active functions
    Outages     \* the failures that may happen: "db", "edge" (Cloudflare), "crash"

ASSUME DeployConstants ==
    /\ IsFiniteSet(Fn) /\ IsFiniteSet(Actor) /\ Actor # {}
    /\ None \notin Slug \cup Version \cup Fn
    /\ MaxActive \in Nat \ {0}
    /\ Outages \subseteq {"db", "edge", "crash"}

VARIABLES
    slug,       \* the fn rows: the slug, None if there is no row
    current,    \* their current_version_id
    owner,      \* the fn_version rows: the function
    status,     \* their status; "none" and "gone" are no row
    handled,    \* versions with a backendHandle
    script,     \* versions whose worker script is at Cloudflare
    index,      \* FN_INDEX: what a slug leads to, a set of at most one answer
    job,        \* what an actor is doing
    visit       \* what a visit is doing

VARIABLES           \* histories
    unpurged,   \* slugs whose entry a change, a failure or a lookup left behind unpurged
    unsure      \* versions whose deploy failed after the current version was set

fnVars == <<slug, current, owner, status, handled>>
deployVars == <<fnVars, script, index, job, visit, unpurged, unsure>>

Answer == [fn : Fn, version : Version]

\* What api/internal/lookup answers for a slug.
Truth(s) == {[fn |-> f, version |-> current[f]] :
                f \in {g \in Fn : slug[g] = s /\ current[g] # None}}

\* handles: what a deletion found to delete; for a deploy, the version it makes.
Job == [op : {"deploy", "cli", "delete", "rename"}, fn : Fn, slug : Slug, to : Slug \cup {None},
        at : {"count", "insert", "upload", "mark", "set", "track", "fail",
              "versions", "delete", "scripts", "rename", "purge", "purgeNext"},
        handles : SUBSET Version]

ASSUME NoneIsNoJob == None \notin Job

NoVisit == [at |-> "idle", slug |-> None, found |-> {}]

DeployTypeOK ==
    /\ slug \in [Fn -> Slug \cup {None}]
    /\ \A f, g \in Fn : slug[f] = slug[g] /\ slug[f] # None => f = g
    /\ current \in [Fn -> Version \cup {None}]
    /\ owner \in [Version -> Fn \cup {None}]
    /\ status \in [Version -> {"none", "deploying", "deployed", "failed", "gone"}]
    /\ handled \subseteq Version /\ script \subseteq Version
    /\ index \in [Slug -> SUBSET Answer]
    /\ \A s \in Slug : \A x, y \in index[s] : x = y
    /\ job \in [Actor -> Job \cup {None}]
    /\ visit \in [Visit -> [at : {"lookup", "put"}, slug : Slug, found : SUBSET Answer] \cup {NoVisit}]
    /\ unpurged \subseteq Slug /\ unsure \subseteq Version

\* createFunction has made the functions, none of which was deployed.
DeployInit ==
    /\ slug \in {g \in [Fn -> Slug] : \A x, y \in Fn : g[x] = g[y] => x = y}
    /\ current = [f \in Fn |-> None]
    /\ owner = [v \in Version |-> None]
    /\ status = [v \in Version |-> "none"]
    /\ handled = {} /\ script = {}
    /\ index = [s \in Slug |-> {}]
    /\ job = [a \in Actor |-> None]
    /\ visit = [r \in Visit |-> NoVisit]
    /\ unpurged = {} /\ unsure = {}

At(a, step) == job[a] # None /\ job[a].at = step
Go(a, step) == job' = [job EXCEPT ![a].at = step]
Done(a) == job' = [job EXCEPT ![a] = None]
Begin(a, op, f, step) ==
    /\ job[a] = None
    /\ slug[f] # None
    /\ job' = [job EXCEPT ![a] = [op |-> op, fn |-> f, slug |-> slug[f], to |-> None,
                                  at |-> step, handles |-> {}]]

\* The version an actor's deploy has made.
Made(a) == CHOOSE v \in Version : job[a].handles = {v}

-----------------------------------------------------------------------------
(* Deploys                                                                  *)

\* The row is read at the start, the draft and the plan after it; only a function that
\* has never been deployed counts against the limit.
StartDeploy(a, f, op) ==
    /\ op \in {"deploy", "cli"}
    /\ Begin(a, op, f, IF current[f] = None THEN "count" ELSE "insert")
    /\ UNCHANGED <<fnVars, script, index, visit, unpurged, unsure>>

Active == {f \in Fn : current[f] # None}

CountActive(a) ==
    /\ At(a, "count")
    /\ IF Cardinality(Active) >= MaxActive THEN Done(a) ELSE Go(a, "insert")
    /\ UNCHANGED <<fnVars, script, index, visit, unpurged, unsure>>

\* Outside the try: if the function is gone the foreign key refuses the row and the
\* actor fails with nothing to clean up.
InsertVersion(a) ==
    /\ At(a, "insert")
    /\ IF slug[job[a].fn] = None
       THEN Done(a) /\ UNCHANGED <<owner, status>>
       ELSE \E v \in Version :
                /\ status[v] = "none"
                /\ status' = [status EXCEPT ![v] = "deploying"]
                /\ owner' = [owner EXCEPT ![v] = job[a].fn]
                /\ job' = [job EXCEPT ![a].at = "upload", ![a].handles = {v}]
    /\ UNCHANGED <<slug, current, handled, script, index, visit, unpurged, unsure>>

\* Mutant of Upload: an upload that fails is let through.
UploadAnyway(a) ==
    /\ At(a, "upload")
    /\ \/ script' = script \cup job[a].handles
       \/ "edge" \in Outages /\ UNCHANGED script
    /\ Go(a, "mark")
    /\ UNCHANGED <<fnVars, index, visit, unpurged, unsure>>

\* The snapshot of the assets, the bundling and executor.deploy: they fail or upload the
\* script, and an upload may be done although the call fails.
Upload(a) ==
    /\ At(a, "upload")
    /\ \/ script' = script \cup job[a].handles /\ Go(a, "mark")
       \/ "edge" \in Outages /\ Go(a, "fail")
            /\ (UNCHANGED script \/ script' = script \cup job[a].handles)
    /\ UNCHANGED <<fnVars, index, visit, unpurged, unsure>>

\* Mutant of SetStatus: selected by the function, not by the version.
SetStatusOfAll(a, new) ==
    status' = [v \in Version |-> IF owner[v] = job[a].fn /\ status[v] # "gone" THEN new ELSE status[v]]

SetStatus(a, new) ==
    status' = [v \in Version |-> IF v \in job[a].handles /\ status[v] # "gone" THEN new ELSE status[v]]

MarkDeployed(a) ==
    /\ At(a, "mark")
    /\ SetStatus(a, "deployed")
    /\ handled' = handled \cup {v \in job[a].handles : status[v] # "gone"}
    /\ Go(a, "set") \/ ("db" \in Outages /\ Go(a, "fail"))
    /\ UNCHANGED <<slug, current, owner, script, index, visit, unpurged, unsure>>

\* Mutant of SetCurrent: the cache was purged before.
SetCurrentLast(a) ==
    LET f == job[a].fn
    IN  /\ At(a, "set")
        /\ current' = IF slug[f] = None THEN current ELSE [current EXCEPT ![f] = Made(a)]
        /\ IF job[a].op = "cli"
           THEN Go(a, "track") /\ unpurged' = unpurged \cup ({slug[f]} \cap Slug)
           ELSE Done(a) /\ unpurged' = unpurged \cup ({slug[f]} \cap (Slug \ {job[a].slug}))
        /\ UNCHANGED <<slug, owner, status, handled, script, index, visit, unsure>>

\* The dashboard then purges the slug the function had when the deploy began; the CLI
\* route purges nothing.  A lost connection leads to the catch, past the purge.
SetCurrent(a) ==
    LET f == job[a].fn
        here == {slug[f]} \cap Slug
    IN  /\ At(a, "set")
        /\ current' = IF slug[f] = None THEN current ELSE [current EXCEPT ![f] = Made(a)]
        /\ \/ /\ job[a].op = "cli" /\ Go(a, "track")
              /\ unpurged' = unpurged \cup here /\ UNCHANGED unsure
           \/ /\ job[a].op = "deploy" /\ Go(a, "purge")
              /\ unpurged' = unpurged \cup (here \ {job[a].slug}) /\ UNCHANGED unsure
           \/ /\ "db" \in Outages /\ Go(a, "fail")
              /\ unpurged' = unpurged \cup here /\ unsure' = (unsure \ {current[f]}) \cup job[a].handles
        /\ UNCHANGED <<slug, owner, status, handled, script, index, visit>>

\* trackServerEvent inserts a row, inside the try.
Track(a) ==
    /\ At(a, "track")
    /\ \/ Done(a) /\ UNCHANGED unsure
       \/ "db" \in Outages /\ Go(a, "fail") /\ unsure' = unsure \cup job[a].handles
    /\ UNCHANGED <<fnVars, script, index, visit, unpurged>>

MarkVersionFailed(a) ==
    /\ At(a, "fail")
    /\ SetStatus(a, "failed")
    /\ Done(a)
    /\ UNCHANGED <<slug, current, owner, handled, script, index, visit, unpurged, unsure>>

-----------------------------------------------------------------------------
(* Renames and deletions                                                    *)

StartRename(a, f) ==
    /\ Begin(a, "rename", f, "rename")
    /\ UNCHANGED <<fnVars, script, index, visit, unpurged, unsure>>

\* Mutant of Rename: no unique index on the workspace's slugs.
RenameAnyway(a, s) ==
    LET f == job[a].fn
    IN  /\ At(a, "rename")
        /\ s # job[a].slug
        /\ slug' = [slug EXCEPT ![f] = IF @ = None THEN None ELSE s]
        /\ job' = [job EXCEPT ![a].at = "purge", ![a].to = s]
        /\ UNCHANGED <<current, owner, status, handled, script, index, visit, unpurged, unsure>>

\* A conflict on the slug ends it; a function that is gone is not found by the update
\* and its slugs are purged all the same.
Rename(a, s) ==
    LET f == job[a].fn
        taken == \E g \in Fn \ {f} : slug[g] = s
        left == {slug[f], s} \cap Slug
    IN  /\ At(a, "rename")
        /\ s # job[a].slug
        /\ \/ taken /\ slug[f] # None /\ Done(a) /\ UNCHANGED <<slug, unpurged>>
           \/ /\ slug[f] = None
              /\ job' = [job EXCEPT ![a].at = "purge", ![a].to = s]
              /\ UNCHANGED <<slug, unpurged>>
           \/ /\ ~taken /\ slug[f] # None
              /\ slug' = [slug EXCEPT ![f] = s]
              /\ \/ /\ job' = [job EXCEPT ![a].at = "purge", ![a].to = s]
                    /\ unpurged' = unpurged \cup (left \ {s, job[a].slug})
                 \/ "db" \in Outages /\ Done(a) /\ unpurged' = unpurged \cup left
        /\ UNCHANGED <<current, owner, status, handled, script, index, visit, unsure>>

StartDelete(a, f) ==
    /\ Begin(a, "delete", f, "versions")
    /\ UNCHANGED <<fnVars, script, index, visit, unpurged, unsure>>

\* The versions with a backendHandle.
ReadVersions(a) ==
    /\ At(a, "versions")
    /\ job' = [job EXCEPT ![a].at = "delete",
                 ![a].handles = {v \in handled : owner[v] = job[a].fn}]
    /\ UNCHANGED <<fnVars, script, index, visit, unpurged, unsure>>

\* One transaction; it fails if an execution of the function starts meanwhile.
DeleteRows(a) ==
    LET f == job[a].fn
    IN  /\ At(a, "delete")
        /\ slug' = [slug EXCEPT ![f] = None]
        /\ current' = [current EXCEPT ![f] = None]
        /\ status' = [v \in Version |-> IF owner[v] = f THEN "gone" ELSE status[v]]
        /\ \/ Go(a, "scripts") /\ unpurged' = unpurged \cup ({slug[f]} \cap (Slug \ {job[a].slug}))
           \/ "db" \in Outages /\ Done(a) /\ unpurged' = unpurged \cup ({slug[f]} \cap Slug)
        /\ UNCHANGED <<owner, handled, script, index, visit, unsure>>

\* All at once, failures caught.
DeleteScripts(a) ==
    /\ At(a, "scripts")
    /\ \E failed \in SUBSET job[a].handles :
        /\ failed # {} => "edge" \in Outages
        /\ script' = script \ (job[a].handles \ failed)
    /\ Go(a, "purge")
    /\ UNCHANGED <<fnVars, index, visit, unpurged, unsure>>

\* purgeLookupCache, failures caught.  A rename purges the old slug and then the new one.
Purge(a) ==
    LET s == IF At(a, "purgeNext") THEN job[a].to ELSE job[a].slug
    IN  /\ At(a, "purge") \/ At(a, "purgeNext")
        /\ \/ index' = [index EXCEPT ![s] = {}] /\ unpurged' = unpurged \ {s}
           \/ "edge" \in Outages /\ unpurged' = unpurged \cup {s} /\ UNCHANGED index
        /\ IF At(a, "purge") /\ job[a].op = "rename" THEN Go(a, "purgeNext") ELSE Done(a)
        /\ UNCHANGED <<fnVars, script, visit, unsure>>

\* A statement or a call that throws without having had an effect.
Abort(a) ==
    /\ "db" \in Outages
    /\ \/ job[a] # None /\ job[a].at \in {"count", "insert", "versions", "delete", "rename", "fail"} /\ Done(a)
       \/ job[a] # None /\ job[a].at \in {"upload", "mark", "set"} /\ Go(a, "fail")
    /\ UNCHANGED <<fnVars, script, index, visit, unpurged, unsure>>

\* The slugs an actor has yet to purge.
Owed(a) ==
    CASE job[a] = None -> {}
      [] At(a, "purge") -> {job[a].slug, job[a].to} \cap Slug
      [] At(a, "purgeNext") -> {job[a].to} \cap Slug
      [] At(a, "scripts") -> {job[a].slug}
      [] OTHER -> {}

\* The process dies, with whatever it still had to do.
Die(a) ==
    /\ "crash" \in Outages
    /\ job[a] # None
    /\ Done(a)
    /\ unpurged' = unpurged \cup Owed(a)
    /\ UNCHANGED <<fnVars, script, index, visit, unsure>>

-----------------------------------------------------------------------------
(* Lookups                                                                  *)

\* resolveFunctionCached, when the index has no entry.
Miss(r, s) ==
    /\ visit[r] = NoVisit
    /\ index[s] = {}
    /\ visit' = [visit EXCEPT ![r] = [at |-> "lookup", slug |-> s, found |-> {}]]
    /\ UNCHANGED <<fnVars, script, index, job, unpurged, unsure>>

\* A 404 is not cached.
Lookup(r) ==
    /\ visit[r].at = "lookup"
    /\ visit' = [visit EXCEPT ![r] = IF Truth(@.slug) = {} THEN NoVisit
                                     ELSE [at |-> "put", slug |-> @.slug, found |-> Truth(@.slug)]]
    /\ UNCHANGED <<fnVars, script, index, job, unpurged, unsure>>

\* Whatever was found is written, whatever happened since.
PutIndex(r) ==
    LET s == visit[r].slug
    IN  /\ visit[r].at = "put"
        /\ visit' = [visit EXCEPT ![r] = NoVisit]
        /\ index' = [index EXCEPT ![s] = visit[r].found]
        /\ unpurged' = IF visit[r].found = Truth(s) THEN unpurged \ {s} ELSE unpurged \cup {s}
        /\ UNCHANGED <<fnVars, script, job, unsure>>

\* The lookup, the write to the index or the dispatcher itself fails.
GiveUp(r) ==
    /\ visit[r] # NoVisit
    /\ visit' = [visit EXCEPT ![r] = NoVisit]
    /\ UNCHANGED <<fnVars, script, index, job, unpurged, unsure>>

\* An entry's time to live is over.
Lapse(s) ==
    /\ index[s] # {}
    /\ index' = [index EXCEPT ![s] = {}]
    /\ unpurged' = unpurged \ {s}
    /\ UNCHANGED <<fnVars, script, job, visit, unsure>>

Act(a) ==
    \/ CountActive(a) \/ InsertVersion(a) \/ Upload(a) \/ MarkDeployed(a) \/ SetCurrent(a)
    \/ Track(a) \/ MarkVersionFailed(a) \/ ReadVersions(a) \/ DeleteRows(a) \/ DeleteScripts(a)
    \/ Purge(a) \/ Abort(a) \/ Die(a)
    \/ \E s \in Slug : Rename(a, s)
    \/ \E f \in Fn : \/ \E op \in {"deploy", "cli"} : StartDeploy(a, f, op)
                     \/ StartDelete(a, f) \/ StartRename(a, f)

DeployNext ==
    \/ \E a \in Actor : Act(a)
    \/ \E r \in Visit : Lookup(r) \/ PutIndex(r) \/ GiveUp(r) \/ \E s \in Slug : Miss(r, s)
    \/ \E s \in Slug : Lapse(s)

DeploySpec == DeployInit /\ [][DeployNext]_deployVars

-----------------------------------------------------------------------------
(* Properties                                                               *)

\* What the dispatcher has cached for a slug is what a lookup would answer, unless an
\* action that changed it is still to purge the entry or one of these left it behind: a
\* change that purges nothing (a CLI deploy), a function that was renamed
\* while it was deployed, renamed or deleted, a failure before the purge was through, or
\* a lookup that was under way.
StaleIsAccountedFor ==
    \A s \in Slug : index[s] # {} /\ index[s] # Truth(s) =>
        s \in unpurged \/ \E a \in Actor : s \in Owed(a)

\* A function's current version is its own and is uploaded; so is what a cached lookup
\* names, as long as the function has not been deleted.
ServedIsUploaded ==
    /\ \A f \in Fn : current[f] # None =>
          owner[current[f]] = f /\ current[f] \in script
    /\ \A s \in Slug : \A x \in index[s] :
          owner[x.version] = x.fn /\ (slug[x.fn] # None => x.version \in script)

\* A version marked failed is not what is served, unless its deploy failed after it had
\* set the current version.
FailedIsNotServed ==
    \A f \in Fn : current[f] # None => status[current[f]] = "deployed" \/ current[f] \in unsure

\* Concurrent deploys exceed the plan's limit of active functions by less than their
\* number.
ActiveOvershoot == Cardinality(Active) < MaxActive + Cardinality(Actor)

=============================================================================
