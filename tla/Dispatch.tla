------------------------------ MODULE Dispatch ------------------------------
(***************************************************************************)
(* The execution lifecycle: apps/runtime/src/dispatch.ts (one handler per  *)
(* request), the control plane's exec registry (Redis) and exec/start      *)
(* route (Postgres), and the worker shim that user code runs under in a V8 *)
(* isolate (packages/executor-cloudflare/src/bundler.ts).                  *)
(*                                                                         *)
(* Every await of the source ends a step.  A handler is identified by the  *)
(* execution id it will mint; `req` is what arrived in its headers and     *)
(* never changes.  Slugs, bodies, tokens and wall-clock values are         *)
(* abstracted: a token is the execution it was signed for, and it can      *)
(* expire at any moment after registration.  Nothing signs the call chain  *)
(* and the parent: an outside request may claim any.                       *)
(***************************************************************************)
EXTENDS Naturals, Sequences, FiniteSets

CONSTANTS
    Exec,           \* execution ids, one per request the dispatcher accepts
    Fn,             \* deployed functions
    Org,            \* workspaces
    Isolate,        \* V8 isolates
    OrgOf,          \* the workspace that owns a function
    RequireAuth,    \* functions whose http trigger has requireAuth
    Host,           \* the function whose script an isolate runs
    MaxDepth,       \* plan limit maxCallDepth of a workspace
    MaxCalls,       \* bound: nested calls one run makes
    MaxClients,     \* bound: requests that do not come from another function
    Claims,         \* bound: the call chains and parents an outside request may bring
    Faults,         \* the failures and the deletions that may happen
    Unknown,        \* an id that names nothing
    NoExec,         \* "no execution"
    NoIsolate       \* "not placed in an isolate"

\* A frame of the call chain header; the dispatcher only looks at its shape.
Frame == [fn : Fn \cup {Unknown}, exec : Exec \cup {Unknown}]

ASSUME ConstantsOK ==
    /\ OrgOf \in [Fn -> Org]
    /\ RequireAuth \subseteq Fn
    /\ Host \in [Isolate -> Fn]
    /\ MaxDepth \in [Org -> Nat]
    /\ MaxCalls \in Nat /\ MaxClients \in Nat
    /\ Claims \subseteq [chain : Seq(Frame), parent : Exec \cup {NoExec, Unknown}]
    /\ Faults \subseteq {"auth", "register", "expire", "fetch", "vanish", "resolve", "call",
                        "delete"}
    /\ NoExec \notin Exec
    /\ Unknown \notin Exec \cup Fn \cup {NoExec}
    /\ NoIsolate \notin Isolate

VARIABLES
    pc,         \* where the handler of e is
    req,        \* the request e was started with
    iso,        \* the isolate e's worker call was placed in
    tries,      \* worker fetches made for e: the dispatcher falls back once
    ncalls,     \* nested calls e's current run has made
    call,       \* the executeFunction call e's run is awaiting
    registry,   \* Redis: executions with a live `exec:` key
    row,        \* Postgres: executions with a row
    unsure,     \* executions whose exec/start failed, as far as the dispatcher knows
    deleted,    \* functions whose owner deleted them
    sent,       \* runtime ingest events posted by the dispatcher
    cur         \* `__ofn_state.request` of an isolate

vars == <<pc, req, iso, tries, ncalls, call, registry, row, unsure, deleted, sent, cur>>

Cred == {"none", "invoke", "api"}

\* What the dispatcher is handed: x-hostfunc-call-chain, x-hostfunc-parent-exec
\* and the caller's credential: the invoke token of the trigger workers, or an API
\* token of the function's workspace.  No header carries the other two: the run that
\* really made the call, and how many frames the outside request it goes back to had
\* claimed in front.
Request == [fn : Fn, chain : Seq(Frame), parent : Exec \cup {NoExec, Unknown},
            caller : Exec \cup {NoExec}, claimed : Nat, cred : Cred]

NoRequest == [fn |-> "none"]

\* One executeFunction call: the context it captured, and how far it is.
Call == [phase : {"resolve", "send", "wait"}, target : Fn, chain : Seq(Frame),
         parent : Exec, child : Exec \cup {NoExec}]

NoCall == [phase |-> "none"]

Running == {"fetch", "running"}
Ended   == {"answered", "lost"}                 \* the function was run
Closed  == {"refused", "denied"} \cup Ended

TypeOK ==
    /\ pc \in [Exec -> {"idle", "auth", "register", "start"} \cup Running \cup Closed]
    /\ req \in [Exec -> Request \cup {NoRequest}]
    /\ iso \in [Exec -> Isolate \cup {NoIsolate}]
    /\ tries \in [Exec -> 0..2]
    /\ ncalls \in [Exec -> 0..MaxCalls]
    /\ call \in [Exec -> Call \cup {NoCall}]
    /\ registry \subseteq Exec
    /\ row \subseteq Exec
    /\ unsure \subseteq Exec
    /\ deleted \subseteq Fn
    /\ sent \subseteq [exec : Exec, kind : {"final", "error"}]
    /\ cur \in [Isolate -> Exec \cup {NoExec}]

Init ==
    /\ pc = [e \in Exec |-> "idle"]
    /\ req = [e \in Exec |-> NoRequest]
    /\ iso = [e \in Exec |-> NoIsolate]
    /\ tries = [e \in Exec |-> 0]
    /\ ncalls = [e \in Exec |-> 0]
    /\ call = [e \in Exec |-> NoCall]
    /\ registry = {}
    /\ row = {}
    /\ unsure = {}
    /\ deleted = {}
    /\ sent = {}
    /\ cur = [i \in Isolate |-> NoExec]

OrgOfExec(e) == OrgOf[req[e].fn]

-----------------------------------------------------------------------------
(* The dispatch worker                                                      *)

\* Execution ids are random: a claim can only name one that was minted.
Minted(h) ==
    /\ h.parent \in Exec => pc[h.parent] # "idle"
    /\ \A k \in DOMAIN h.chain : h.chain[k].exec \in Exec => pc[h.chain[k].exec] # "idle"

\* A client, or the cron, email or mcp worker with the invoke token, calls
\* /run/:org/:slug.  A client may send any call chain and any parent; the trigger
\* workers send none.  The lookup is cached: the function may be deleted by now.
Receive(e, f, c, h) ==
    /\ pc[e] = "idle"
    /\ Cardinality({x \in Exec : pc[x] # "idle" /\ req[x].caller = NoExec}) < MaxClients
    /\ Minted(h)
    /\ c = "invoke" => h.chain = <<>> /\ h.parent = NoExec
    /\ pc' = [pc EXCEPT ![e] = "auth"]
    /\ req' = [req EXCEPT ![e] = [fn |-> f, chain |-> h.chain, parent |-> h.parent,
                                  caller |-> NoExec, claimed |-> Len(h.chain), cred |-> c]]
    /\ UNCHANGED <<iso, tries, ncalls, call, registry, row, unsure, deleted, sent, cur>>

\* Mutant of ParentVerified: the live registry is asked instead of the table.
ParentVerifiedLive(e) ==
    LET p == req[e].parent
    IN  /\ p \in registry
        /\ req[p].fn \notin deleted /\ req[e].fn \notin deleted
        /\ OrgOfExec(p) = OrgOfExec(e)

\* verify-parent: the parent has an execution row, its function and the child's have
\* theirs, and both are of one workspace.
ParentVerified(e) ==
    LET p == req[e].parent
    IN  /\ p \in row
        /\ req[p].fn \notin deleted /\ req[e].fn \notin deleted
        /\ OrgOfExec(p) = OrgOfExec(e)

\* enforcePublicHttpAuth, and isInternalInvoke in front of it: who names a parent is
\* judged by it alone, and an API token counts while the function has its row.
Authorized(e) ==
    \/ req[e].cred = "invoke"
    \/ req[e].fn \notin RequireAuth
    \/ req[e].parent # NoExec /\ ParentVerified(e)
    \/ req[e].parent = NoExec /\ req[e].cred = "api" /\ req[e].fn \notin deleted

\* "denied" is the verdict of a control plane that answered.
Authorize(e) ==
    /\ pc[e] = "auth"
    /\ pc' = [pc EXCEPT ![e] = IF Authorized(e) THEN "register" ELSE "denied"]
    /\ UNCHANGED <<req, iso, tries, ncalls, call, registry, row, unsure, deleted, sent, cur>>

\* The verification request itself fails: the caller gets an error all the same.
AuthorizeFails(e) ==
    /\ "auth" \in Faults
    /\ pc[e] = "auth"
    /\ req[e].fn \in RequireAuth
    /\ pc' = [pc EXCEPT ![e] = "refused"]
    /\ UNCHANGED <<req, iso, tries, ncalls, call, registry, row, unsure, deleted, sent, cur>>

\* registerExecution: refused past the workspace's depth, else the `exec:` key
\* is set and a token signed.
Register(e) ==
    /\ pc[e] = "register"
    /\ IF Len(req[e].chain) >= MaxDepth[OrgOfExec(e)]
       THEN pc' = [pc EXCEPT ![e] = "refused"] /\ UNCHANGED registry
       ELSE /\ pc' = [pc EXCEPT ![e] = "start"]
            /\ registry' = registry \cup {e}
    /\ UNCHANGED <<req, iso, tries, ncalls, call, row, unsure, deleted, sent, cur>>

\* A quota is used up by executions outside this model (429), or the register
\* round trip fails (502).  A key that was written all the same belongs to a token
\* nobody received.
RegisterFails(e) ==
    /\ "register" \in Faults
    /\ pc[e] = "register"
    /\ pc' = [pc EXCEPT ![e] = "refused"]
    /\ UNCHANGED <<req, iso, tries, ncalls, call, registry, row, unsure, deleted, sent, cur>>

\* exec/start inserts the row; a deleted function takes no new ones (foreign key).
Record(e) == row' = IF req[e].fn \in deleted THEN row ELSE row \cup {e}

\* The start record is settled: exec/start answered, or failed or never answered,
\* which is only logged.  Either way the unregister request is started, and then
\* the worker fetch.
Start(e) ==
    /\ pc[e] = "start"
    /\ \/ Record(e) /\ UNCHANGED unsure
       \/ "register" \in Faults /\ unsure' = unsure \cup {e} /\ UNCHANGED row
    /\ pc' = [pc EXCEPT ![e] = "fetch"]
    /\ tries' = [tries EXCEPT ![e] = 1]
    /\ UNCHANGED <<req, iso, ncalls, call, registry, deleted, sent, cur>>

\* An insert the dispatcher gave up on commits after all.
LateStart(e) ==
    /\ e \in unsure \ row
    /\ Record(e)
    /\ UNCHANGED <<pc, req, iso, tries, ncalls, call, registry, unsure, deleted, sent, cur>>

\* deleteFunction: one transaction removes the function's executions and its row.
Delete(f) ==
    /\ "delete" \in Faults
    /\ f \notin deleted
    /\ deleted' = deleted \cup {f}
    /\ row' = {x \in row : req[x].fn # f}
    /\ UNCHANGED <<pc, req, iso, tries, ncalls, call, registry, unsure, sent, cur>>

\* The unregister request that ctx.waitUntil was handed once the start record was
\* settled deletes the key.  Nothing waits for it, not even the function's run.
Unregister(e) ==
    /\ pc[e] \in Running \cup Ended
    /\ e \in registry
    /\ registry' = registry \ {e}
    /\ UNCHANGED <<pc, req, iso, tries, ncalls, call, row, unsure, deleted, sent, cur>>

\* The `exec:` key reaches its TTL and the token its expiresAt.
Expire(e) ==
    /\ "expire" \in Faults
    /\ e \in registry
    /\ registry' = registry \ {e}
    /\ UNCHANGED <<pc, req, iso, tries, ncalls, call, row, unsure, deleted, sent, cur>>

\* The run's own state is gone.
EndRun(e) ==
    /\ iso' = [iso EXCEPT ![e] = NoIsolate]
    /\ ncalls' = [ncalls EXCEPT ![e] = 0]
    /\ call' = [call EXCEPT ![e] = NoCall]

\* A run that is cut short leaves the isolate's global as it is, or the isolate
\* went with it.
CutShort(e) ==
    /\ EndRun(e)
    /\ \/ UNCHANGED cur
       \/ cur' = [i \in Isolate |-> IF i = iso[e] THEN NoExec ELSE cur[i]]

\* Mutant of FetchThrows: the fallback is tried without end.
FetchThrowsEndless(e) ==
    /\ "fetch" \in Faults
    /\ pc[e] \in Running
    /\ pc' = [pc EXCEPT ![e] = "fetch"]
    /\ tries' = [tries EXCEPT ![e] = @ + 1]
    /\ CutShort(e)
    /\ UNCHANGED <<req, registry, row, unsure, deleted, sent>>

\* Mutant of FetchThrows: the first failure is reported, then the fallback tried.
FetchThrowsEager(e) ==
    /\ "fetch" \in Faults
    /\ pc[e] \in Running
    /\ IF tries[e] = 1
       THEN /\ pc' = [pc EXCEPT ![e] = "fetch"]
            /\ tries' = [tries EXCEPT ![e] = 2]
       ELSE /\ pc' = [pc EXCEPT ![e] = "answered"]
            /\ tries' = [tries EXCEPT ![e] = 0]
    /\ sent' = sent \cup {[exec |-> e, kind |-> "error"]}
    /\ CutShort(e)
    /\ UNCHANGED <<req, registry, row, unsure, deleted>>

\* The worker fetch throws (dispatcher error, evicted isolate): once it falls
\* back to a second fetch, then the execution is an infra_error.
FetchThrows(e) ==
    /\ "fetch" \in Faults
    /\ pc[e] \in Running
    /\ IF tries[e] = 1
       THEN /\ pc' = [pc EXCEPT ![e] = "fetch"]
            /\ tries' = [tries EXCEPT ![e] = 2]
            /\ UNCHANGED sent
       ELSE /\ pc' = [pc EXCEPT ![e] = "answered"]
            /\ tries' = [tries EXCEPT ![e] = 0]
            /\ sent' = sent \cup {[exec |-> e, kind |-> "error"]}
    /\ CutShort(e)
    /\ UNCHANGED <<req, registry, row, unsure, deleted>>

\* The handler dies without an answer (the platform evicts the dispatcher).  One
\* that dies sooner is one that takes no further step.
Vanish(e) ==
    /\ "vanish" \in Faults
    /\ pc[e] \in Running
    /\ pc' = [pc EXCEPT ![e] = "lost"]
    /\ tries' = [tries EXCEPT ![e] = 0]
    /\ CutShort(e)
    /\ UNCHANGED <<req, registry, row, unsure, deleted, sent>>

\* The script of a deleted function is gone: the platform answers the fetch, and
\* the dispatcher passes that answer on.
ScriptGone(e) ==
    /\ pc[e] = "fetch"
    /\ req[e].fn \in deleted
    /\ pc' = [pc EXCEPT ![e] = "answered"]
    /\ tries' = [tries EXCEPT ![e] = 0]
    /\ sent' = sent \cup {[exec |-> e, kind |-> "final"]}
    /\ EndRun(e)
    /\ UNCHANGED <<req, registry, row, unsure, deleted, cur>>

-----------------------------------------------------------------------------
(* The worker shim                                                          *)

\* Mutant of Enter: one isolate serves the scripts of several functions.
EnterAny(e, i) ==
    /\ pc[e] = "fetch"
    /\ pc' = [pc EXCEPT ![e] = "running"]
    /\ iso' = [iso EXCEPT ![e] = i]
    /\ cur' = [cur EXCEPT ![i] = e]
    /\ UNCHANGED <<req, tries, ncalls, call, registry, row, unsure, deleted, sent>>

\* The entry point of the bundled worker: the isolate may be serving others.
Enter(e, i) ==
    /\ pc[e] = "fetch"
    /\ Host[i] = req[e].fn
    /\ pc' = [pc EXCEPT ![e] = "running"]
    /\ iso' = [iso EXCEPT ![e] = i]
    /\ cur' = [cur EXCEPT ![i] = e]
    /\ UNCHANGED <<req, tries, ncalls, call, registry, row, unsure, deleted, sent>>

\* The context an SDK call of e captures: whatever request the isolate's global
\* holds at that moment.
Ctx(e) == cur[iso[e]]

NextChain(x) == Append(req[x].chain, [fn |-> req[x].fn, exec |-> x])

\* executeFunction up to its first await.  Without a current request, or past
\* the depth limit, the SDK throws and nothing has changed.
CallFn(e, g) ==
    /\ pc[e] = "running"
    /\ call[e] = NoCall
    /\ ncalls[e] < MaxCalls
    /\ Ctx(e) # NoExec
    /\ Len(NextChain(Ctx(e))) <= MaxDepth[OrgOfExec(Ctx(e))]
    /\ call' = [call EXCEPT ![e] = [phase |-> "resolve", target |-> g,
                                    chain |-> NextChain(Ctx(e)),
                                    parent |-> Ctx(e), child |-> NoExec]]
    /\ ncalls' = [ncalls EXCEPT ![e] = @ + 1]
    /\ UNCHANGED <<pc, req, iso, tries, registry, row, unsure, deleted, sent, cur>>

\* authenticateCallback accepts the captured token, and the resolver tells the
\* target's id to a caller of the same workspace.
Resolves(e) ==
    /\ call[e].parent \in registry
    /\ call[e].target \notin deleted
    /\ OrgOf[call[e].target] = OrgOfExec(call[e].parent)

InChain(f, ch) == \E k \in DOMAIN ch : ch[k].fn = f

\* resolve_slug answers: a repeated function is refused; an unauthorised,
\* cross-workspace or failed lookup is no answer, and the call goes ahead.
Resolve(e) ==
    /\ pc[e] = "running"
    /\ call[e].phase = "resolve"
    /\ \/ /\ Resolves(e) /\ InChain(call[e].target, call[e].chain)
          /\ call' = [call EXCEPT ![e] = NoCall]
       \/ /\ ~(Resolves(e) /\ InChain(call[e].target, call[e].chain))
          /\ call' = [call EXCEPT ![e].phase = "send"]
    /\ UNCHANGED <<pc, req, iso, tries, ncalls, registry, row, unsure, deleted, sent, cur>>

\* The resolve request itself times out or errors: no answer.
ResolveFails(e) ==
    /\ "resolve" \in Faults
    /\ pc[e] = "running"
    /\ call[e].phase = "resolve"
    /\ call' = [call EXCEPT ![e].phase = "send"]
    /\ UNCHANGED <<pc, req, iso, tries, ncalls, registry, row, unsure, deleted, sent, cur>>

\* Mutant of SendCall: the parent header is read from the context after the await.
SendCallFreshCtx(e, c) ==
    /\ pc[e] = "running"
    /\ call[e].phase = "send"
    /\ pc[c] = "idle"
    /\ Ctx(e) # NoExec
    /\ pc' = [pc EXCEPT ![c] = "auth"]
    /\ req' = [req EXCEPT ![c] = [fn |-> call[e].target, chain |-> call[e].chain,
                                  parent |-> Ctx(e), caller |-> e,
                                  claimed |-> req[call[e].parent].claimed,
                                  cred |-> "none"]]
    /\ call' = [call EXCEPT ![e].phase = "wait", ![e].child = c]
    /\ UNCHANGED <<iso, tries, ncalls, registry, row, unsure, deleted, sent, cur>>

\* The nested request reaches the dispatcher, with the captured chain and parent.
SendCall(e, c) ==
    /\ pc[e] = "running"
    /\ call[e].phase = "send"
    /\ pc[c] = "idle"
    /\ pc' = [pc EXCEPT ![c] = "auth"]
    /\ req' = [req EXCEPT ![c] = [fn |-> call[e].target, chain |-> call[e].chain,
                                  parent |-> call[e].parent, caller |-> e,
                                  claimed |-> req[call[e].parent].claimed,
                                  cred |-> "none"]]
    /\ call' = [call EXCEPT ![e].phase = "wait", ![e].child = c]
    /\ UNCHANGED <<iso, tries, ncalls, registry, row, unsure, deleted, sent, cur>>

\* The child's answer arrives, whatever its status.
CallReturns(e) ==
    /\ pc[e] = "running"
    /\ call[e].phase = "wait"
    /\ pc[call[e].child] \in {"answered", "refused", "denied"}
    /\ call' = [call EXCEPT ![e] = NoCall]
    /\ UNCHANGED <<pc, req, iso, tries, ncalls, registry, row, unsure, deleted, sent, cur>>

\* Mutant of CallAborts: no timeout once the request is under way.
CallAbortsSendOnly(e) ==
    /\ "call" \in Faults
    /\ pc[e] = "running"
    /\ call[e].phase = "send"
    /\ call' = [call EXCEPT ![e] = NoCall]
    /\ UNCHANGED <<pc, req, iso, tries, ncalls, registry, row, unsure, deleted, sent, cur>>

\* AbortSignal.timeout or a network error; a child already started goes on.
CallAborts(e) ==
    /\ "call" \in Faults
    /\ pc[e] = "running"
    /\ call[e].phase \in {"send", "wait"}
    /\ call' = [call EXCEPT ![e] = NoCall]
    /\ UNCHANGED <<pc, req, iso, tries, ncalls, registry, row, unsure, deleted, sent, cur>>

\* main() returns or throws: the shim's finally clears the isolate's global,
\* the dispatcher answers and posts the execution's final event.
Finish(e) ==
    /\ pc[e] = "running"
    /\ call[e] = NoCall
    /\ cur' = [cur EXCEPT ![iso[e]] = NoExec]
    /\ EndRun(e)
    /\ pc' = [pc EXCEPT ![e] = "answered"]
    /\ tries' = [tries EXCEPT ![e] = 0]
    /\ sent' = sent \cup {[exec |-> e, kind |-> "final"]}
    /\ UNCHANGED <<req, registry, row, unsure, deleted>>

-----------------------------------------------------------------------------

Handler(e) ==
    \/ Authorize(e) \/ AuthorizeFails(e) \/ Register(e) \/ RegisterFails(e) \/ Start(e)
    \/ FetchThrows(e) \/ ScriptGone(e) \/ Vanish(e)

Worker(e) ==
    \/ \E i \in Isolate : Enter(e, i)
    \/ \E g \in Fn : CallFn(e, g)
    \/ Resolve(e) \/ ResolveFails(e)
    \/ \E c \in Exec : SendCall(e, c)
    \/ CallReturns(e) \/ CallAborts(e)
    \/ Finish(e)

\* A credential is only looked at by a function that requires one.
Arrive(e) ==
    \E f \in Fn, c \in Cred, h \in Claims :
        (c # "none" => f \in RequireAuth) /\ Receive(e, f, c, h)

Next ==
    \/ \E e \in Exec : Arrive(e) \/ Handler(e) \/ Worker(e) \/ Unregister(e) \/ Expire(e)
                       \/ LateStart(e)
    \/ \E f \in Fn : Delete(f)

Spec == Init /\ [][Next]_vars

\* Only the shim has timers: AbortSignal.timeout ends its resolve request after five
\* seconds and its nested call after the caller's timeout.  The dispatcher's own
\* requests have none, and no limit is set on a worker: a handler, a run of user
\* code, a client or an answer on its way is owed nothing.
Fairness ==
    \A e \in Exec :
        /\ WF_vars(Resolve(e) \/ ResolveFails(e))
        /\ WF_vars(CallAborts(e))

FairSpec == Spec /\ Fairness

-----------------------------------------------------------------------------
(* Properties                                                               *)

\* What the platform adds to a call chain is true, whatever an outside request
\* claimed in front of it: each frame names a real, admitted execution of that
\* function, at exactly that depth, within the depth its own workspace allows; no
\* execution is its own ancestor; and a nested request has such a frame, the last of
\* which is the parent it names.  Holds however requests share an isolate, because a
\* call captures its context once.
Lineage ==
    \A e \in Exec : pc[e] # "idle" =>
        /\ \A k \in DOMAIN req[e].chain : k > req[e].claimed =>
               LET x == req[e].chain[k].exec
               IN  /\ x \in Exec \ {e}
                   /\ pc[x] \in Running \cup Ended
                   /\ req[x].fn = req[e].chain[k].fn
                   /\ req[x].chain = SubSeq(req[e].chain, 1, k - 1)
                   /\ k - 1 < MaxDepth[OrgOfExec(x)]
        /\ req[e].caller # NoExec =>
               /\ Len(req[e].chain) > req[e].claimed
               /\ req[e].parent = req[e].chain[Len(req[e].chain)].exec

\* The context a run calls out with - its token, chain and parent - may belong to
\* another request of the isolate, but never to another function.
FunctionConfined ==
    \A e \in Exec : call[e] # NoCall => req[call[e].parent].fn = req[e].fn

\* exec/start is settled before the function runs, so a nested call inside one
\* workspace is turned away only if the parent's start record failed, whether it came
\* late or never, or one of the two functions has been deleted.
DeniedForCause ==
    \A e \in Exec :
        LET p == req[e].parent
        IN  /\ pc[e] = "denied"
            /\ req[e].caller # NoExec
            /\ OrgOfExec(p) = OrgOfExec(e)
            => p \in unsure \/ {req[p].fn, req[e].fn} \cap deleted # {}

\* The fallback fetch may run a function twice, and the execution is still
\* reported once, and only when its handler is through.
OneOutcome ==
    \A m \in sent :
        /\ pc[m.exec] = "answered"
        /\ \A n \in sent : n.exec = m.exec => n = m

\* An executeFunction call ends: by an answer, a refusal, its timeout or the end of
\* its run, whatever becomes of the request it sent, recursion included.
CallEnds == \A e \in Exec : call[e] # NoCall ~> call[e] = NoCall

\* A function is in a call chain at most once, past what a client claimed.
NoLoop ==
    \A e \in Exec : pc[e] # "idle" =>
        \A k \in DOMAIN req[e].chain : k > req[e].claimed => req[e].chain[k].fn # req[e].fn

\* The parent a nested call is recorded under is the run that made it.
LineagePreserved ==
    \A e \in Exec : pc[e] # "idle" /\ req[e].caller # NoExec => req[e].parent = req[e].caller

=============================================================================
