# hostfunc in TLA+

hostfunc deploys TypeScript functions to Cloudflare Workers and runs them behind a dispatch worker; a Next.js
control plane keeps the state in Postgres and Redis. This directory holds TLA+ models of the parts of it where
concurrency, failure and ordering decide what is true, TLC configurations that check them on small instances, and
TLAPS proofs of the main results for every instance. Paths are relative to the repository's root.

## 1. Inventory

| part | state it keeps | operations | talks to | what is hard | what makes it correct |
|---|---|---|---|---|---|
| Dispatch worker `apps/runtime/src/dispatch.ts` | none of its own: one handler per request; the FN_INDEX and DOMAIN_INDEX KV namespaces | look up, authorise, register, record the start, fetch the worker, report | control plane over HTTP, the function's worker | a dozen awaits per request, each of which may fail and none of which has a timeout; a call chain and a parent that any client may send; a fallback that runs a function twice; the early `unregister` | one outcome per execution; a call chain that is true past what a client claimed |
| Exec registry `apps/web/src/server/exec-registry.ts`, `api/internal/exec/*`, `api/internal/resolve` | Redis `exec:<id>` keys with a TTL; `execution` rows | register (quotas, depth), start, unregister, verify-parent, callback authentication | dispatcher, worker shim | a key may be gone before, during or after the run | depth bound; nested calls of a workspace are admitted |
| Worker shim `packages/executor-cloudflare/src/bundler.ts` | `__ofn_state`, a module global of the isolate | enter, executeFunction, exit | dispatcher (nested calls), resolver | requests of one isolate interleave and share the global; recursion; timeouts | lineage, confinement to the function; every nested call ends |
| Webhook inbox `apps/web/src/server/webhook-events.ts` | `webhook_event` rows | record, mark processed, mark failed | ingest, Stripe and Resend routes | concurrent deliveries, crashes, retries | at most one owner of an event |
| Ingest and tail worker `api/internal/ingest`, `apps/tail` | `execution`, `usage_event`, `execution_log` rows | report an outcome | inbox, dispatcher | statements that fail half-way; several reports of one execution; deletion meanwhile | billed at most once, only for a recorded execution |
| Stripe webhook `api/webhooks/stripe` | the workspace's `subscription` row | checkout, updated, deleted | inbox, Stripe | at-least-once, unordered delivery; a live retrieve among snapshots | the row follows Stripe |
| Usage report `server/billing-usage.ts` | `reportedToStripeAt` marks | nightly sum, meter event, mark | Stripe, ingest | rows inserted between sum and mark; crash between report and mark | each row reported once |
| Deployment `dashboard/[fn]/actions.ts`, `api/cli/functions/deploy`, `api/internal/lookup` | `fn.currentVersionId`, `fn_version.status`, worker scripts, FN_INDEX entries | deploy, rename, delete, purge | Cloudflare, dispatcher's cache | concurrent deploys; a stale lookup written back after the purge | what is served is uploaded and not marked failed; stale entries have a known cause |
| Function files `server/fn-assets.ts` | `fn_asset` rows, the README in `fn_marketplace_profile` | upload, rename, delete, bundle, snapshot | deployment, marketplace | a count before an insert; a file read twice by a deploy; README in two tables | the limit; bundle and snapshot agree |
| KV store `server/kv-store.ts` | `fn_kv` rows with an expiry | get, set, delete, incr, list | worker shim | quota check and insert are two statements; expiry against the sweep | atomic increments, bounded keys |
| Custom domains `server/custom-domains.ts`, `settings/domains/actions.ts` | `custom_domain` rows, DOMAIN_INDEX | add, refresh, remove | Cloudflare, dispatcher | three stores without a transaction | a hostname is routed iff its row is active |
| Scheduled runs `apps/cron`, `api/internal/cron` | `webhook_event` rows as acknowledgements | due, run, ack | dispatcher | overlapping wake-ups, a clock read twice, acknowledgements that throw | a due trigger is run; an acknowledgement tells the truth |
| Inbound mail `api/webhooks/resend-inbound`, `server/inbound-email.ts`, `apps/email` | the inbox, an event for each recipient | record, look up, run, note | Resend, dispatcher | one recipient of several fails; redelivery | a recipient is run at most once |
| Quotas and plans `server/quota.ts`, `plan.ts`, `plans.ts` | none: two queries over `execution` | check | registry, start, ingest | check-then-act across three requests | the overshoot is bounded |
| Rate limiter `server/rate-limit.ts` | a Redis counter, a counter in memory | increment, expire | all routes | two commands | the window closes |
| Drafts, CLI, API client `api/cli/functions/draft`, `packages/cli`, `packages/api-client` | `fn_draft` rows, a checkout's manifest | pull, push, save | dashboard | optimistic concurrency in two statements, lost answers | no unseen edit is overwritten |
| Marketplace `server/functions.ts` | stars, comments, forks and their counts | add, remove, recount | - | a recount under READ COMMITTED | the count is the number of rows |
| GitHub connection and workspace metadata `server/github-integrations.ts`, `integrations.ts`, `api-tokens.ts` | `github_installation`, `github_repo_access`, `organization.metadata` | connect, disconnect, refresh, select, skip, save settings, make the SDK key | GitHub | one JSON column written back whole by five features | no feature loses another's field; token iff connected |
| Workspaces, members, tokens, secrets, AI, vector, MCP endpoints, outbound proxy, dashboards, docs, editor extension | rows and external services | CRUD and proxies | - | little coordination | - |

PROJECT.json lists every part with its status, and under `hazards` each place of the code where something can go
wrong that a test would hardly reach.

## 2. Plan

The order in which the project was built; each step came with its runs and proofs:

1. **Dispatch**: the execution lifecycle across dispatcher, registry and shim.
2. **Inbox, AtMostOnce, Ingest**: the inbox protocol, the abstract promise it implements, the ingest route.
3. **StripeWebhook**: the same protocol with the subscription row.
4. **KvStore** with its abstract atomic map **KvMap**, and **CustomDomain** with the edge index.
5. **Deploy**: deploys, renames and deletions against the dispatcher's cached lookups.
6. **Usage**, **Quota**, **RateLimit**: what is counted and limited.
7. **InboundMail** on top of Inbox, **Cron**.
8. **Assets**, **Integrations**, **Draft**, **Marketplace**: the control plane's check-then-act code.
9. **ControlPlane**, **DeployAndMail**: the parts side by side, as the runs check them.

No module has a RECURSIVE operator, so that every one can be proved about. Every part whose coordination is worth a
model now has one; section 7 says what is left out of them.

## 3. Modules

### Dispatch

One handler per execution id `e`; `pc[e]` is the await it is at.

| in the model | in the code |
|---|---|
| `pc[e]`: `auth`, `register`, `start`, `fetch`, `running` | the awaits of `fetch` in dispatch.ts: 305, 317, 348, 409; `running` is the worker's `main()` |
| `answered`, `refused`, `denied`, `lost` | ran and answered (470 or 493); refused at registration or by a failed check; 401; the handler died |
| `req[e]` | the request: target, `x-hostfunc-call-chain`, `x-hostfunc-parent-exec`, and a credential: none, the invoke token of the trigger workers, or an API token of the function's workspace. `caller` (the run that made the call) and `claimed` (the frames its outside request brought along) are history values no header carries |
| `registry`, `row` | Redis `exec:` keys; `execution` rows |
| `unsure` | executions whose exec/start failed or was lost: the insert may never commit, or commit later (`LateStart`) |
| `deleted` | functions whose owner deleted them |
| `cur[i]` | `__ofn_state.request` of isolate `i` |
| `call[e]` | the locals of the executeFunction call the run is awaiting: its captured context and where it is |
| `sent` | the ingest requests handed to `ctx.waitUntil` |

Actions: `Receive`, `Authorize`, `AuthorizeFails`, `Register`, `RegisterFails`, `Start`, `LateStart`, `Unregister`,
`Expire`, `FetchThrows`, `Vanish`, `ScriptGone` (dispatcher and registry); `Delete` (deleteFunction, which takes the
executions' rows with it); `Enter`, `CallFn`, `Resolve`, `ResolveFails`, `SendCall`,
`CallReturns`, `CallAborts`, `Finish` (shim). `Faults` says which failures of the environment may happen.

An outside request may bring any call chain and any parent, since nothing signs the two headers; `Claims` bounds what
is tried. The one thing it cannot bring is an execution id that is yet to be drawn (`Minted`), ids being random.

Abstractions: a request is modelled from a successful lookup on; a token is the execution it was signed for and may
expire at any moment after registration; the quotas of registration are a nondeterministic refusal; `DISPATCHER` is
bound (so a first fetch that throws falls back); a run awaits one nested call at a time; the run that a thrown
fetch leaves behind in a worker is not followed any further.

### Inbox, AtMostOnce

`event[k]` is the `webhook_event` row of a (source, external id) pair: none, open (neither mark), processed or
failed. `at[h]` is the database statement the request `h` is before. A statement may throw before or after it took
effect; the process may die between two. The modules of the routes extend Inbox and add the statements of their
`try` blocks. `AtMostOnce` is what its callers rely on: claimed once, effect at most once after that.

### Ingest

`row` is the `execution` row (its status and who reported it), `usage` counts the `usage_event` rows an event
inserted, `logged` the events whose `execution_log` lines are stored. A key's fields are what the payload says:
`status` is absent in what the tail worker makes of Cloudflare's envelope, `lines` says whether it carries log
lines. The start record may be written late (the dispatcher goes on without it) and the function may be deleted at
any time, which the logs' foreign key notices and the usage row does not. The two log inserts are one step.

### StripeWebhook

A Stripe subscription is a version number that grows with every change; plan, status and dates are functions of it.
`emitted` is Stripe's event log; `Send` delivers any emitted event to any handler, again and in any order. `row` is
the workspace's only `subscription` row; the initial state is the one sign-up leaves, with the free plan seeded or
not. `seen` and `found` are the locals of a checkout handler. `tidy` is a history variable: every event was taken on
after all earlier ones were processed. All prices belong to a plan.

### KvMap, KvStore

`fnKv` is the rows of one function, `at[h]` the call a request works on and the statement it is before, `now` the
clock. A set or an increment runs up to three statements of assertQuotaForNewKey (`Existing`, `SweepExpired`,
`Count`) and then its upsert; a get or a delete is its own statement. A TTL is one tick; the delta of an increment
is 1; all values that are no numbers are one. `KvMap` is the promise: every operation takes effect at one instant
between call and answer, a key with a TTL lapses at some time, and a lapsed key reads as missing. A row maps to its
entry, an expired one to `Lapsed`: it still makes a delete answer true and may be swept at any time.
A request reads the clock with the statement that uses it, and servers and database share it; kvGetMany, kvList and
the size limits are left out.

### CustomDomain

| in the model | in the code |
|---|---|
| `row` | `custom_domain` rows: status and whether `cf_hostname_id` is set |
| `cf` | the custom hostnames at Cloudflare, with their two statuses |
| `index` | the DOMAIN_INDEX namespace the dispatcher routes by |
| `at[j]` | the await a server action or status request is at, with what it has read |

`Add`, `provisionDomain`, `RecordHostname`, `MarkFailed` are addDomainAction; `Refresh`, `GetHostname`,
`writeDomainIndex`, `UpdateStatus` are refreshDomainStatus; `Remove`, `deleteDomainIndex`, `deprovisionDomain`,
`DropRow` are removeDomainAction. A call to Cloudflare, the KV or the database may fail, before or after it took
effect where the code tells the two apart, and a handler may die at any await. Cloudflare changes the status of a
hostname at will. History variables: `validated` (was live at Cloudflare), `torn`, `removed` (removal begun, ended),
`crossed` (the hostname's entry was touched by a handler whose own row was gone). An entry's target is its domain:
slugs are left out. Cloudflare's answer to a create is a new record, never one that is live at once.

### Deploy

| in the model | in the code |
|---|---|
| `slug`, `current` | `fn.slug`, `fn.current_version_id` |
| `owner`, `status`, `handled` | `fn_version` rows: function, status, whether `backendHandle` is set |
| `script` | worker scripts in Cloudflare's dispatch namespace |
| `index` | FN_INDEX: the answer cached for a slug |
| `job[a]` | the server action or CLI request an actor is in, with its locals |
| `visit[r]` | a dispatcher request between its cache miss and its write to the index |

`StartDeploy`, `CountActive`, `InsertVersion`, `Upload`, `MarkDeployed`, `SetCurrent`, `Track`, `MarkVersionFailed`
are deployFunction and the CLI's route, whose differences (the CLI purges nothing and tracks an event inside its try)
are kept; `StartRename`, `Rename`, and `StartDelete`, `ReadVersions`, `DeleteRows`, `DeleteScripts` are the other two
actions; `Purge` is purgeLookupCache. `Miss`, `Lookup`, `PutIndex`, `Lapse` are resolveFunctionCached. `unpurged` and
`unsure` are histories. Everything belongs to one workspace; a function starts undeployed. Left out: a change of the
visibility, which a cached answer outlives by a minute, edits of the packages (`fn.packages` is read, changed and
written back) and of the other settings.

### Usage, Quota, RateLimit

`Usage` is reportUsageToStripe for one workspace: `rows`, `reported` and `old` are the `usage_event` rows, the marked
ones and those outside of a new window; `metered` is how often Stripe has counted a row. `Sum` reads, `CheckPlan` is
getEffectivePlan, `SendMeterEvent` the call to Stripe, `MarkRows` the update. The identifier of a meter event contains
the begin of the window to the millisecond, so Stripe takes every report for a new one.

`Quota` keeps of the `execution` rows only the two numbers that registerExecution's queries return. A slot is a
request the dispatcher is working on. The plan's limits are constants: a change of plan is left out, and so is the
status of the subscription, which plans.ts does not look at. The insert of a slot's row may commit at any time from
exec/start on (`CommitStart`), also after the slot is free (`adrift`, `CommitLate`; `overdue` counts those of a day):
the dispatcher goes on without an answer. `OutsideReport` is a report that is none of a slot's, a tail event or a late
one of the dispatcher's: it sets a row's wall time back, which refunds the monthly quota, or raises it (`raised`).
`MaxLate` and `MaxRaise` bound the two for TLC. Wall times are numbers from 0 on. `DeleteExecutions` is a deleted
function, whose rows go with it.

`RateLimit` is enforceRateLimit for one key: `Increment` and `Expire` are the two Redis commands, `Fallback` the catch.

### InboundMail, Cron

`InboundMail` extends Inbox with Resend's webhook: `position[h]` is the recipient a handler has come to, `noted` the
events dispatchInboundEmail records after the run. A redelivery after a failure is answered as a duplicate, whichever
recipients are left. The email worker's own path (`api/internal/email/inbound`) makes one call of
dispatchInboundEmail and ignores its status: a mail that fails there is lost; it is left out.

`Cron`: `wake[w]` is an invocation of the worker, `stamp` and `matched` the two readings of the clock in the due
route, `fired` the runs, `acked` the `webhook_event` rows. `AskDue`, `MatchSchedules`, `FireTrigger`, `Acknowledge`,
`AcknowledgeThrows` and `EndLoop` follow the two routes and the loop. `Schedule` gives the minutes a trigger names;
shouldFireNow looks at the minute and the hour only (due/route.ts:66), so timezones, days, months and weekdays are no
part of the model: `Schedule` is of minutes. Rows without an organization slug and triggers that are edited meanwhile are left out.

### Assets, Draft, Marketplace, Integrations

`Assets`: `file` is `fn_asset` by id, `readme` the marketplace profile's, `request[r]` a request's locals and the
statement it is before; `Find`, `CheckCaps`, `Write`, `Sync` are upsertFunctionAsset, `CheckCollision`, `MoveFile`,
`Clear` and `Remove` the rename and the deletion, `WriteProfile` the profile form, `List`, `Load`, `Loaded`,
`Snapshot` what deployFunction takes. The profile does not hold a README.md as it is: `Sync` stores `Cut` of it (its
first 50,000 characters, fn-assets.ts:316), and `WriteProfile` stores `Tidied` of what the form sent (trimmed, its
first 8,000, functions.ts:941), then writes the file untrimmed, which syncs the profile again, or removes it when
nothing was left. `ReadmeShown` says that at rest the profile is the cut of the file. (A deploy by the CLI takes no files.) Row ids are used again once nobody knows
them. The limit on the bytes is read and used up like the one on the number of files, and left out.

`Draft`: `base[c]` is the merge base in a checkout's manifest, `CheckBase` and `UpsertDraft` the route's two
statements; a digest stands for its code.

`Marketplace`: a star, a comment or a fork is a transaction that makes sure of the profile, changes a row, counts the
rows and sets the count. Under READ COMMITTED the update counts when it begins and waits for the profile's row after.

`Integrations`: `Program` is the list of statements of each feature; a feature that writes the document back is a
`ReadMeta` and a `WriteMeta`, with `Kept` what it writes of what it read. `FindLink`, `Link`, `FindRepo`, `SyncRepo`,
`Unlink`, `RemoveRepos` are the connection's tables. One repository stands for all.

### ControlPlane, DeployAndMail

The parts that share no state are composed side by side: a variable `part` says which of them moves, so the state
space is the sum of the parts' and not their product, and nothing is lost, since no action of one reads a variable of
another. `EachOnItsOwn` and `BothOnTheirOwn` (section 5) are what this rests on: a behaviour of the composition is a
behaviour of each part's own specification. `MCControlPlane` and `MCDeploy` are their instances.

## 4. Runs

| run | instance | what it shows |
|---|---|---|
| `dispatch` | 3 executions, 2 functions of 2 workspaces with limits 2 and 1, an isolate each, 1 nested call per run, 2 outside requests, which may claim a made-up frame and parent; fetches, resolver and calls fail | 2.2 million states: `TypeOK`, `Lineage`, `FunctionConfined`, `OneOutcome` |
| `dispatch_live` | 2 executions, which may also claim each other; authorisation, registration, start record, expiry, dispatcher, resolver and calls fail, functions are deleted | 0.6 million states: `DeniedForCause`, and `CallEnds` under `FairSpec` |
| `dispatch_loop` | 3 executions, no claims, only calls may abort | `NoLoop` fails: the early unregister disables the cycle check |
| `dispatch_lineage` | as `dispatch_loop` | `LineagePreserved` fails: two requests of an isolate |
| `control_plane` | the parts below, one at a time | 1.7 million states: `PartTypeOK`, and |
| - ingest | 3 handlers, 2 executions, 3 events | `ProcessedIsComplete`, `BilledOnRecord`, and the refinement `BilledAtMostOnce` |
| - usage, quota, rate | 2 reports of 2 rows; 2 slots, limits 2 and 2, reports up to 2, 2 late inserts, wall time raised by 2; 2 requests, limit 2 | `MeteredOnce`; `DailyOvershoot`, `WallOvershoot`; `WindowCloses` |
| - assets | 2 requests, 3 paths, a content that is both trimmed and cut, room for 1 file | `FilesOvershoot`, `BundleIsSnapshot`, `ReadmeShown` |
| - integrations | 2 requests, 3 fields, every flow | `NothingLost`, `ConnectionIsWhole`, `ReconnectIsRace` |
| - cron | 2 wake-ups, 2 triggers, 2 minutes | `WakeRunsItsMinute`, `AcksTellTheTruth` |
| - draft, marketplace | 2 checkouts, 3 codes; 3 transactions, 2 rows | `PushOverwritesTheSeen`; `TallyIsCount` |
| `deploy` | 2 functions, 2 slugs, 2 versions, 2 actors, 1 visit, room for 1 function; mail: 2 handlers, 2 messages, one of which names an address twice | `PartTypeOK`; `StaleIsAccountedFor`, `ServedIsUploaded`, `FailedIsNotServed`; `MailRunsOnce`, `ProcessedMailIsHandled` |
| `ingest_billing` | the same without faults | `OneRowPerExecution` fails |
| `stripe` | 3 handlers, 2 subscriptions of 2 versions, 3 events | `NoInvention`, `CaughtUp` |
| `stripe_replay` | 2 handlers, 2 events | `ReplayApplies` fails: a failed event's replay is a duplicate |
| `kv` | 2 requests, 3 keys, room for 1, clock to 2, numbers to 1 | 1.1 million states: `QuotaOvershoot`, and the refinement `AtomicMap` |
| `domain` | 2 handlers, 2 domains of one hostname, every fault | 0.8 million states: `RoutedWasValidated`, `ActiveIsRouted` |
| `domain_removal` | the same without faults | `RemovalStopsRouting` fails: a refresh outlives the removal |

Bounds. Three executions are a caller, its nested call and either a third generation or a stranger in the same
isolate: every conflict the properties speak of involves two chains, or a chain of two. A claim of one frame puts that
chain of two behind it; `dispatch_live` has the claims of executions that exist. The limits 2 and 1 let a
call be refused by either side. Three handlers are two racing deliveries and a later one. Two subscriptions and
three events are an overtaken checkout with an update of either. Three keys with room for one let two requests race
for it while a third key is there to be overwritten, deleted or expired, and two ticks let a key expire exactly now
or earlier; the bound on the quota is reached, by two requests that both pass the check. Two domains that claim one hostname in turn are the old and the new owner of an index entry, and two
handlers any pair of operations that cross.

In the later modules two actors are enough for every hazard listed, each of which is one request overtaken by another;
two slots let a quota be passed by a request that was checked with another, and two late inserts by rows
that no slot stands for; three transactions are an open
one, one that overtakes it and one that repairs the count. Two versions let a function be deployed twice, or two
functions once each; two slugs let a function take the one another has given up; one visit is a lookup that outlives whatever two actors do.
Two minutes let a wake-up fall on the turn of one. Clients, calls per run, versions and events are
bounded by constants in the guards. Deadlock is not checked: all these systems may come to rest.

Fairness (`FairSpec`). Only the shim has timers: its resolve request ends after five seconds (bundler.ts:459) and its
nested call after the caller's timeout (bundler.ts:222). So weak fairness is assumed of `Resolve` or `ResolveFails`, and
of `CallAborts`, and of nothing else. The dispatcher's own requests carry no timeout and no limit is set when a worker
is uploaded: nothing is owed by handlers, answers on their way, clients, user code or failures. That is why `CallEnds`
speaks of the calls a run makes and no property says that a request is answered.

## 5. Proofs

`Dispatch_proofs` proves, for any sets of executions, functions, workspaces and isolates, any limits and any set of
faults, from the assumption `ConstantsOK` alone: `TypeCorrect`, `LineageCorrect`, `ConfinementCorrect`,
`DenialCorrect`, `OutcomeCorrect`.

`Lineage` is not inductive: the chain of a nested request is built from the context an unfinished call captured,
which came from the isolate's global. `IInv` adds what holds along that path: the execution in an isolate's global
has been admitted and is a request of the function the isolate hosts; the context captured by a call is that of an
admitted execution of the caller's function, with the chain extended by exactly its frame and within its limit;
a chain is true past the frames its outside request claimed (`LineageOf`); an execution in a fetch or past it was
registered, and has its row unless its start record failed or its function was deleted (`RowKept`), which is what
`DeniedForCause` follows from when a nested call names it; an outcome in `sent` belongs to a handler that is through. The step proof is split by what an action can do: `AdvancesStep` (a
handler moves on), `EffectsStep` (registry, rows, outcomes), `CapturesStep` (a call captures its context),
`ArrivesStep` (a request arrives). TLC checked `IInv` as an invariant before the proof.

`KvStore_proofs` proves, for any finite sets of keys and requests, any limit and any clock: `KvTypeCorrect`,
`QuotaCorrect` and `MapCorrect`. `QuotaOvershoot` is not inductive, since a request that has passed the check stores
its key whatever happened since: `QuotaInv` counts the keys of such requests (`Claimed`) as if they were stored.
`Count` keeps it because it lets a request pass only below the limit, and the requests that have passed claim no more
keys than there are requests (`ClaimsBounded`); no other step adds a key to `Claimed`. `StepInv` relates a
call to its step and to the expiry it computed, which the refinement needs: each action maps to one operation of
`KvMap` (`GetMaps`, `DeleteMaps`, `SetMaps`, `IncrMaps`, `QuotaMaps`), time to `Lapse` (`TickMaps`).

`Ingest_proofs` (`IngestTypeCorrect`, `CompletenessCorrect`, `BillingCorrect`, and the
refinement `OnceCorrect`),
`StripeWebhook_proofs` (`StripeTypeCorrect`, `NoInventionCorrect`, `CaughtUpCorrect`) and `InboundMail_proofs`
(`MailOnceCorrect`, `MailHandledCorrect`) rest on the same fact about the inbox: `SoleOwner`, an event has at most one
handler that is past recording it. What has been done for the event then follows from where its owner is (`PlaceInv`)
and, once there is none, from the event's marks (`EventInv`). `CaughtUp` needs more: as long as events are taken on in
order there is one owner at a time (`TidyOwner`), the processed events come before the one it owns (`TidyOrder`), and
the row is what the last checkout and the last update after it left (`Applied`); a checkout may have written a version
newer than its event's, which the updates still to come then write again. In InboundMail an owner has settled the
recipients behind its position and run none ahead of it.

`CustomDomain_proofs` (`DomainTypeCorrect`, `RoutedCorrect`, `ActiveCorrect`): a handler's locals stay true of its
domain while it waits (`JobOK`), and what would make them false sets one of the histories the property excuses.

`Deploy_proofs` (`DeployTypeCorrect`, `ServedCorrect`, `FailedCorrect`, `StaleCorrect`, `OvershootCorrect`): `JobOK`
says what each actor's version is at each step (its own, uploaded from `mark` on, marked deployed at `set`, not current
before), and `Distinct` that no two actors have made the same version. `StaleCorrect` is about each action's share of the purges it owes.
`OvershootCorrect` counts the functions of actors past the check as if they were active (`Pending`), which only the
check can add to. `ActiveOvershoot` is named by no run: two functions are too few to break it, and three take
too many states.

`ControlPlane_proofs` proves, each for any sets and limits: `MeteringCorrect` (a counted row is marked, about to be, or
its report was cut short), `WindowCorrect`, `PushCorrect` (the merge base is something the checkout has seen),
`MetadataCorrect`, `ReconnectCorrect` (a flow of the connection that is alone is the only one, so that what it found
still holds), `DailyCorrect` and `WallCorrect` (the requests that are past a check, and those whose row is
still to commit or whose report is still to come, are counted as if they had used up their share already; what comes
from outside a slot is in `overdue` and `raised`), `TallyCorrect` (a transaction alone sees all
rows, or it is marked not to be), `WakesCorrect` and `AcksCorrect` (what a wake-up has run is its minute's triggers
without those still due), `FilesCorrect` (uploads past the count, as above) and `BundleCorrect` (what a deploy has
loaded differs from the rows only in touched paths).

`ReadmeCorrect` and `ConnectionCorrect` are about copies that agree only between the flows that write them, and their
invariants say what holds within one. For README.md (`ReadmeInv`): unless writers overlapped, at most one is between its
two tables; what it found there still holds, so that each statement it has left is known to make the profile what
`Cut` makes of the file, or to leave it so. `Cut` and `Tidied` are any functions. For the connection (`ConnectionInv`): as long as nothing was torn, the tables fit
together (`Whole`) unless a flow has changed some of them; that flow is alone, and has done all the steps it has not
left (`AloneDone`), so that the tables fit again once none is left. Flows that only read so far have changed nothing (`Unbegun`). TLC checked both invariants before the proof,
`ConnectionInv` with three requests on two fields as far as 11 million states.

`EachOnItsOwn` shows that a behaviour of ControlPlane is one of each of its nine parts, and `PartTypeCorrect`
follows from the parts' type theorems; `BothOnTheirOwn` and `DeployPartTypeCorrect` in `InboundMail_proofs` do the same
for DeployAndMail. With them every theorem about a part is one about the composition that the runs check.

Assumptions. The proofs use the ASSUMEs of the modules and nothing else: values that stand for nothing differ from the
values proper (`Nothing`, `NoKey`, `NoTxn`, ...), sets that are counted are finite, limits are numbers, the fields of the
metadata include the token. TLC evaluates each in a passing run.

Only model-checked: `CallEnds`. It is a liveness property under `FairSpec`, and liveness and ENABLED are out of the
prover's reach. The properties of the runs that end in a violation are false, and have no theorem.

## 6. Findings

Each is a run that TLC refutes, quoted in PROJECT.json: the cycle check that the early unregister disables
(dispatch.ts:368), the lineage that concurrent requests of an isolate mix up (bundler.ts:57), the second usage row of
an execution that the tail worker also reports (ingest/route.ts:105), the edge route that a refresh writes back after
its domain was removed (custom-domains.ts:138), and the replay of a failed Stripe event that is
answered as a duplicate (webhook-events.ts:22).

## 7. Not modelled

PROJECT.json gives the reason for each part, and for each modelled part what is left out of it. In sum:

- Proxies and pure translation: AI, vector and MCP endpoints, the outbound worker, the shim's clients, bundling.
- Rows behind a library or written by single statements: sessions, members, tokens, secrets, bindings, settings.
- User interface and content, which is most of the repository: of its 65 thousand lines about two thirds are pages,
  components, templates, styling and the texts of two documentation sites. They hold no state that two
  actors share, and a model of them would only restate them. Most of the rest is queries for pages and single-row
  forms. That is why the map stands for a small share of all lines, although it covers the code in which requests,
  workers and external services meet.
- Some interactions between parts: a rename leaves a custom domain's index entry at the old slug
  (dashboard/[fn]/actions.ts:985); a plan that changes while a request is between two checks; the skew between the
  clocks of servers, Redis and Postgres, which a key's expiry depends on.
- Which report of an execution stands: the ingest route keeps the last writer's, whichever it is, and nothing in the
  repository says which it should be. Ingest and Quota follow the overwrite and state no property of it.
- Liveness beyond the shim's calls: the dispatcher's requests have no timeout, and nothing in the control plane retries by itself. A lost outcome, report, wake-up or
  mail stays lost, and no fairness of the code says otherwise.
