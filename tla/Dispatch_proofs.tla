--------------------------- MODULE Dispatch_proofs ---------------------------
(***************************************************************************)
(* The safety of the execution lifecycle, for any set of executions,       *)
(* functions, workspaces and isolates, any depth limits, any claims of     *)
(* outside requests, any failures and deletions.                           *)
(*                                                                         *)
(* Lineage is not inductive as it stands: a nested request is built from   *)
(* the context its caller captured one or two steps earlier, from a global *)
(* that belongs to whichever request entered the isolate last.  The parts  *)
(* of IInv carry what is known at each of those points.                    *)
(***************************************************************************)
EXTENDS Dispatch, SequenceTheorems, TLAPS

\* Past registration, that is: the depth check was passed.
Admitted == {"start"} \cup Running \cup Ended

\* Executions whose function was, or is about to be, given its context.
Begun == Running \cup Ended

WithinDepth(e) ==
    pc[e] \in Admitted => Len(req[e].chain) < MaxDepth[OrgOfExec(e)]

\* A handler past "idle" has a request; a running one is in an isolate of its
\* function.
Placed(e) ==
    /\ pc[e] # "idle" => req[e] \in Request
    /\ pc[e] = "running" => iso[e] \in Isolate /\ Host[iso[e]] = req[e].fn

\* The global of an isolate holds a request of the isolate's function.
GlobalsConfined ==
    \A i \in Isolate : cur[i] # NoExec =>
        pc[cur[i]] \in Begun /\ req[cur[i]].fn = Host[i]

\* The context a call captured is that of one begun execution of its function.
Captured(e) ==
    call[e] # NoCall =>
        /\ pc[e] = "running"
        /\ pc[call[e].parent] \in Begun
        /\ call[e].chain = NextChain(call[e].parent)
        /\ req[call[e].parent].fn = req[e].fn

\* Lineage, of one execution, whose claimed frames are in front of its chain.
LineageOf(e) ==
    pc[e] # "idle" =>
        /\ req[e].claimed <= Len(req[e].chain)
        /\ \A k \in DOMAIN req[e].chain : k > req[e].claimed =>
               LET x == req[e].chain[k].exec
               IN  /\ x \in Exec \ {e}
                   /\ pc[x] \in Begun
                   /\ req[x].fn = req[e].chain[k].fn
                   /\ req[x].chain = SubSeq(req[e].chain, 1, k - 1)
                   /\ k - 1 < MaxDepth[OrgOfExec(x)]
        /\ req[e].caller # NoExec =>
               /\ Len(req[e].chain) > req[e].claimed
               /\ req[e].parent = req[e].chain[Len(req[e].chain)].exec

\* A function that was given its context has its execution's row, unless the start
\* record failed or the function was deleted.
RowKept(e) == pc[e] \in Begun => e \in row \cup unsure \/ req[e].fn \in deleted

IInv ==
    /\ TypeOK
    /\ GlobalsConfined
    /\ \A e \in Exec : WithinDepth(e) /\ Placed(e) /\ Captured(e) /\ LineageOf(e) /\ RowKept(e)
    /\ DeniedForCause
    /\ OneOutcome

-----------------------------------------------------------------------------
(* Sequences                                                                *)

\* Appending a frame to a call chain leaves every prefix of it as it was.
LEMMA AppendPrefix ==
    ASSUME NEW S, NEW s \in Seq(S), NEW x \in S
    PROVE  /\ Append(s, x) \in Seq(S)
           /\ Len(Append(s, x)) = Len(s) + 1
           /\ Append(s, x)[Len(s) + 1] = x
           /\ SubSeq(Append(s, x), 1, Len(s)) = s
           /\ \A k \in 1..Len(s) :
                  /\ Append(s, x)[k] = s[k]
                  /\ SubSeq(Append(s, x), 1, k - 1) = SubSeq(s, 1, k - 1)
<1> DEFINE t == Append(s, x)
<1>1. /\ t \in Seq(S) /\ Len(t) = Len(s) + 1 /\ Len(s) \in Nat
      /\ t[Len(s) + 1] = x
      /\ \A k \in 1..Len(s) : t[k] = s[k]
  OBVIOUS
<1> HIDE DEF t
<1>2. ASSUME NEW n \in 0..Len(s)
      PROVE  SubSeq(t, 1, n) = SubSeq(s, 1, n)
  <2>1. \A i \in 1..n : t[i] \in S /\ s[i] \in S /\ t[i] = s[i]
    BY <1>1, LenProperties
  <2>2. /\ SubSeq(t, 1, n) \in Seq(S) /\ SubSeq(s, 1, n) \in Seq(S)
        /\ Len(SubSeq(t, 1, n)) = n /\ Len(SubSeq(s, 1, n)) = n
        /\ \A i \in 1..n : SubSeq(t, 1, n)[i] = t[i] /\ SubSeq(s, 1, n)[i] = s[i]
    <3>1. n \in Int /\ 1 \in Int /\ n \in Nat
      BY <1>1
    <3>2. /\ SubSeq(t, 1, n) \in Seq(S)
          /\ Len(SubSeq(t, 1, n)) = IF 1 <= n THEN n - 1 + 1 ELSE 0
          /\ \A i \in 1..n - 1 + 1 : SubSeq(t, 1, n)[i] = t[1 + i - 1]
      BY <3>1, <2>1, SubSeqProperties
    <3>3. /\ SubSeq(s, 1, n) \in Seq(S)
          /\ Len(SubSeq(s, 1, n)) = IF 1 <= n THEN n - 1 + 1 ELSE 0
          /\ \A i \in 1..n - 1 + 1 : SubSeq(s, 1, n)[i] = s[1 + i - 1]
      BY <3>1, <2>1, SubSeqProperties
    <3> QED  BY <3>1, <3>2, <3>3
  <2> QED  BY <2>1, <2>2, SeqEqual
<1>3. SubSeq(t, 1, Len(s)) = s
  BY <1>1, <1>2, SubSeqFull
<1>4. \A k \in 1..Len(s) : SubSeq(t, 1, k - 1) = SubSeq(s, 1, k - 1)
  <2> SUFFICES ASSUME NEW k \in 1..Len(s) PROVE SubSeq(t, 1, k - 1) = SubSeq(s, 1, k - 1)
    OBVIOUS
  <2> k - 1 \in 0..Len(s)
    BY <1>1
  <2> QED  BY <1>2
<1> QED  BY <1>1, <1>3, <1>4 DEF t

-----------------------------------------------------------------------------
(* Types                                                                    *)

LEMMA TypeInit == Init => TypeOK
<1> USE ConstantsOK DEF Init, TypeOK
<1> QED  BY DEF Running, Closed, Ended

\* A run that is cut short leaves well-formed state behind.
LEMMA CutShortType ==
    ASSUME TypeOK, NEW e \in Exec, CutShort(e)
    PROVE  /\ iso' \in [Exec -> Isolate \cup {NoIsolate}]
           /\ ncalls' \in [Exec -> 0..MaxCalls]
           /\ call' \in [Exec -> Call \cup {NoCall}]
           /\ cur' \in [Isolate -> Exec \cup {NoExec}]
<1>1. MaxCalls \in Nat
  BY ConstantsOK
<1> QED  BY <1>1 DEF TypeOK, CutShort, EndRun

\* What an outside request claims, and what a captured context sends, is a request.
LEMMA ClaimType ==
    ASSUME NEW f \in Fn, NEW c \in Cred, NEW h \in Claims
    PROVE  [fn |-> f, chain |-> h.chain, parent |-> h.parent, caller |-> NoExec,
            claimed |-> Len(h.chain), cred |-> c] \in Request
<1>1. h.chain \in Seq(Frame) /\ h.parent \in Exec \cup {NoExec, Unknown}
  BY ConstantsOK
<1>2. Len(h.chain) \in Nat
  BY <1>1, LenProperties
<1> QED  BY <1>1, <1>2 DEF Request

LEMMA NestedType ==
    ASSUME IInv, NEW e \in Exec, call[e] # NoCall
    PROVE  [fn |-> call[e].target, chain |-> call[e].chain, parent |-> call[e].parent,
            caller |-> e, claimed |-> req[call[e].parent].claimed, cred |-> "none"] \in Request
<1>1. call[e] \in Call
  BY DEF IInv, TypeOK
<1>2. call[e].parent \in Exec /\ pc[call[e].parent] # "idle"
  BY <1>1 DEF IInv, Captured, Call, Begun, Running, Ended
<1>3. req[call[e].parent].claimed \in Nat
  BY <1>2 DEF IInv, Placed, Request
<1> QED  BY <1>1, <1>3 DEF Call, Request, Cred

\* Every step keeps the types: a captured context is well-formed only because
\* an isolate's global names a handler that has its request.
LEMMA TypeStep == IInv /\ [Next]_vars => TypeOK'
<1> SUFFICES ASSUME IInv, [Next]_vars PROVE TypeOK'
  OBVIOUS
<1>0. /\ TypeOK
      /\ \A e \in Exec : Placed(e)
      /\ GlobalsConfined
  BY DEF IInv
<1> USE ConstantsOK, <1>0
<1> USE DEF TypeOK, Running, Ended, Closed
<1>1. ASSUME NEW e \in Exec, NEW f \in Fn, NEW c \in Cred, NEW h \in Claims, Receive(e, f, c, h)
      PROVE  TypeOK'
  <2>1. [fn |-> f, chain |-> h.chain, parent |-> h.parent, caller |-> NoExec,
         claimed |-> Len(h.chain), cred |-> c] \in Request
    BY ClaimType
  <2> QED  BY <1>1, <2>1 DEF Receive
<1>2. ASSUME NEW e \in Exec, Authorize(e) \/ AuthorizeFails(e)
      PROVE  TypeOK'
  BY <1>2 DEF Authorize, AuthorizeFails
<1>3. ASSUME NEW e \in Exec, Register(e) \/ RegisterFails(e)
      PROVE  TypeOK'
  BY <1>3 DEF Register, RegisterFails
<1>4. ASSUME NEW e \in Exec, Start(e) \/ LateStart(e)
      PROVE  TypeOK'
  <2>1. row' \subseteq Exec /\ unsure' \subseteq Exec
    BY <1>4 DEF Start, LateStart, Record
  <2>2. tries' \in [Exec -> 0..2]
    <3>1. tries' = [tries EXCEPT ![e] = 1] \/ tries' = tries
      BY <1>4 DEF Start, LateStart
    <3>2. tries \in [Exec -> 0..2]
      OBVIOUS
    <3> QED  BY ONLY <3>1, <3>2
  <2> QED  BY <1>4, <2>1, <2>2 DEF Start, LateStart
<1>5. ASSUME NEW e \in Exec, FetchThrows(e)
      PROVE  TypeOK'
  <2>1. tries' \in [Exec -> 0..2]
    <3>1. tries' = [tries EXCEPT ![e] = 2] \/ tries' = [tries EXCEPT ![e] = 0]
      BY <1>5 DEF FetchThrows
    <3>2. tries \in [Exec -> 0..2]
      OBVIOUS
    <3> QED  BY ONLY <3>1, <3>2
  <2>2. sent' \subseteq [exec : Exec, kind : {"final", "error"}]
    <3>1. [exec |-> e, kind |-> "error"] \in [exec : Exec, kind : {"final", "error"}]
      OBVIOUS
    <3>2. sent' = sent \/ sent' = sent \cup {[exec |-> e, kind |-> "error"]}
      BY <1>5 DEF FetchThrows
    <3>3. sent \subseteq [exec : Exec, kind : {"final", "error"}]
      OBVIOUS
    <3> QED  BY ONLY <3>1, <3>2, <3>3
  <2>3. CutShort(e)
    BY <1>5 DEF FetchThrows
  <2> QED  BY <1>5, <2>1, <2>2, <2>3, CutShortType DEF FetchThrows
<1>6. ASSUME NEW e \in Exec, Vanish(e) \/ ScriptGone(e)
      PROVE  TypeOK'
  <2>1. tries' \in [Exec -> 0..2]
    <3>1. tries' = [tries EXCEPT ![e] = 0]
      BY <1>6 DEF Vanish, ScriptGone
    <3>2. tries \in [Exec -> 0..2]
      OBVIOUS
    <3> QED  BY ONLY <3>1, <3>2
  <2>2. sent' \subseteq [exec : Exec, kind : {"final", "error"}]
    <3>1. [exec |-> e, kind |-> "final"] \in [exec : Exec, kind : {"final", "error"}]
      OBVIOUS
    <3>2. sent' = sent \/ sent' = sent \cup {[exec |-> e, kind |-> "final"]}
      BY <1>6 DEF Vanish, ScriptGone
    <3>3. sent \subseteq [exec : Exec, kind : {"final", "error"}]
      OBVIOUS
    <3> QED  BY ONLY <3>1, <3>2, <3>3
  <2>3. CutShort(e)
    BY <1>6 DEF Vanish, ScriptGone, CutShort
  <2> QED  BY <1>6, <2>1, <2>2, <2>3, CutShortType DEF Vanish, ScriptGone
<1>7. ASSUME NEW e \in Exec, NEW i \in Isolate, Enter(e, i)
      PROVE  TypeOK'
  BY <1>7 DEF Enter
<1>8. ASSUME NEW e \in Exec, NEW g \in Fn, CallFn(e, g)
      PROVE  TypeOK'
  <2>1. Ctx(e) \in Exec /\ req[Ctx(e)] \in Request
    <3>1. iso[e] \in Isolate /\ cur[iso[e]] # NoExec
      BY <1>8 DEF CallFn, Ctx, Placed
    <3>2. cur[iso[e]] \in Exec /\ pc[cur[iso[e]]] \in Begun
      BY ONLY <1>0, <3>1 DEF TypeOK, GlobalsConfined
    <3> QED  BY <3>2 DEF Ctx, Placed, Begun
  <2>2. NextChain(Ctx(e)) \in Seq(Frame)
    <3>1. /\ req[Ctx(e)].chain \in Seq(Frame)
          /\ [fn |-> req[Ctx(e)].fn, exec |-> Ctx(e)] \in Frame
      BY <2>1 DEF Request, Frame
    <3> QED  BY <3>1, AppendPrefix DEF NextChain
  <2>3. [phase |-> "resolve", target |-> g, chain |-> NextChain(Ctx(e)),
         parent |-> Ctx(e), child |-> NoExec] \in Call
    BY <2>1, <2>2 DEF Call
  <2> QED  BY <1>8, <2>3 DEF CallFn
<1>9. ASSUME NEW e \in Exec, Resolve(e) \/ ResolveFails(e)
      PROVE  TypeOK'
  <2>1. call[e] \in Call
    BY <1>9 DEF Resolve, ResolveFails, NoCall
  <2>2. [call[e] EXCEPT !.phase = "send"] \in Call
    BY <2>1 DEF Call
  <2>3. call' \in [Exec -> Call \cup {NoCall}]
    BY <1>9, <2>2 DEF Resolve, ResolveFails
  <2> QED  BY <1>9, <2>3 DEF Resolve, ResolveFails
<1>10. ASSUME NEW e \in Exec, NEW c \in Exec, SendCall(e, c)
      PROVE  TypeOK'
  <2>0. call[e] # NoCall
    BY <1>10 DEF SendCall, NoCall
  <2>1. call[e] \in Call
    BY <2>0
  <2>2. [[call[e] EXCEPT !.phase = "wait"] EXCEPT !.child = c] \in Call
    BY <2>1 DEF Call
  <2>3. [fn |-> call[e].target, chain |-> call[e].chain, parent |-> call[e].parent,
         caller |-> e, claimed |-> req[call[e].parent].claimed, cred |-> "none"] \in Request
    BY <2>0, NestedType
  <2>4. call' \in [Exec -> Call \cup {NoCall}]
    BY <1>10, <2>2 DEF SendCall
  <2> QED  BY <1>10, <2>3, <2>4 DEF SendCall
<1>11. ASSUME NEW e \in Exec, CallReturns(e) \/ CallAborts(e)
      PROVE  TypeOK'
  BY <1>11 DEF CallReturns, CallAborts
<1>12. ASSUME NEW e \in Exec, Finish(e)
      PROVE  TypeOK'
  <2>1. sent' \subseteq [exec : Exec, kind : {"final", "error"}]
    BY <1>12 DEF Finish
  <2>2. cur' \in [Isolate -> Exec \cup {NoExec}]
    BY <1>12 DEF Finish
  <2> QED  BY <1>12, <2>1, <2>2 DEF Finish, EndRun
<1>13. ASSUME NEW e \in Exec, Unregister(e) \/ Expire(e)
      PROVE  TypeOK'
  BY <1>13 DEF Unregister, Expire
<1>14. ASSUME NEW f \in Fn, Delete(f)
      PROVE  TypeOK'
  BY <1>14 DEF Delete
<1>15. CASE UNCHANGED vars
  BY <1>15 DEF vars
<1> QED
  BY <1>1, <1>2, <1>3, <1>4, <1>5, <1>6, <1>7, <1>8, <1>9, <1>10, <1>11, <1>12, <1>13, <1>14,
     <1>15 DEF Next, Arrive, Handler, Worker

-----------------------------------------------------------------------------
(* What one step does to one execution                                      *)

\* A request is never changed, a handler past its depth check stays past it, and
\* nothing is revised once it is denied or answered.
Advances(x) ==
    /\ pc[x] # "idle" => pc'[x] # "idle" /\ req'[x] = req[x]
    /\ pc[x] \in Begun => pc'[x] \in Begun
    /\ pc[x] = "answered" => pc'[x] = "answered"
    /\ pc'[x] \in Admitted =>
           \/ pc[x] \in Admitted
           \/ pc[x] = "register" /\ Len(req[x].chain) < MaxDepth[OrgOfExec(x)]
    /\ pc'[x] = "denied" => \/ pc[x] = "denied"
                            \/ pc[x] = "auth" /\ ~Authorized(x)

\* A start record is settled before the function runs, and only a deletion takes
\* it away.
Recorded(x) ==
    /\ x \in unsure => x \in unsure'
    /\ deleted \subseteq deleted'
    /\ x \in row => x \in row' \/ req[x].fn \in deleted'
    /\ pc'[x] \in Begun =>
           \/ pc[x] \in Begun
           \/ pc[x] = "start" /\ (x \in row' \cup unsure' \/ req[x].fn \in deleted')

\* A run stays in the isolate it entered.
Stays(x) ==
    pc'[x] = "running" =>
        \/ pc[x] = "running" /\ iso'[x] = iso[x]
        \/ pc[x] = "fetch" /\ iso'[x] \in Isolate /\ Host[iso'[x]] = req[x].fn

\* A global that comes to name an execution names one that enters the isolate.
Takes(x) ==
    \A i \in Isolate : cur'[i] = x =>
        \/ cur[i] = x
        \/ pc[x] = "fetch" /\ pc'[x] = "running" /\ req[x].fn = Host[i]

\* A call keeps the context it captured when it was made.
Captures(x) ==
    call'[x] # NoCall =>
        /\ pc[x] = "running" /\ pc'[x] = "running"
        /\ \/ /\ call[x] # NoCall
              /\ call'[x].parent = call[x].parent
              /\ call'[x].chain = call[x].chain
           \/ /\ Ctx(x) # NoExec
              /\ call'[x].parent = Ctx(x)
              /\ call'[x].chain = NextChain(Ctx(x))

\* A request that arrives is a client's, or is made from a pending call.
Arrives(x) ==
    pc[x] = "idle" /\ pc'[x] # "idle" =>
        /\ pc'[x] = "auth" /\ req'[x] \in Request
        /\ \/ req'[x].caller = NoExec /\ req'[x].claimed = Len(req'[x].chain)
           \/ \E e \in Exec : /\ call[e] # NoCall
                              /\ req'[x].chain = call[e].chain
                              /\ req'[x].parent = call[e].parent
                              /\ req'[x].claimed = req[call[e].parent].claimed

\* An outcome is posted as the handler answers, and one only.
Reports(x) ==
    /\ pc[x] = "answered" => \A m \in sent' : m.exec = x => m \in sent
    /\ \A m \in sent' : m.exec = x =>
           \/ m \in sent
           \/ /\ pc[x] \in Running /\ pc'[x] = "answered"
              /\ \A n \in sent' : n.exec = x => n \in sent \/ n = m

Effects(x) == Recorded(x) /\ Stays(x) /\ Takes(x) /\ Reports(x)

LEMMA AdvancesStep ==
    ASSUME IInv, [Next]_vars, NEW x \in Exec
    PROVE  Advances(x)
<1>0. TypeOK /\ ConstantsOK
  BY ConstantsOK DEF IInv
<1> USE <1>0 DEF TypeOK, Advances, Running, Ended, Begun, Admitted
<1>1. ASSUME NEW e \in Exec, NEW f \in Fn, NEW c \in Cred, NEW h \in Claims, Receive(e, f, c, h)
      PROVE  Advances(x)
  BY <1>1 DEF Receive
<1>2. ASSUME NEW e \in Exec, Authorize(e) \/ AuthorizeFails(e)
      PROVE  Advances(x)
  BY <1>2 DEF Authorize, AuthorizeFails
<1>3. ASSUME NEW e \in Exec, Register(e) \/ RegisterFails(e)
      PROVE  Advances(x)
  <2>1. Len(req[e].chain) \in Nat /\ MaxDepth[OrgOfExec(e)] \in Nat
    <3>1. req[e] \in Request
      BY <1>3 DEF IInv, Placed, Register, RegisterFails
    <3> QED  BY <3>1 DEF Request, OrgOfExec
  <2>2. /\ req' = req
        /\ \A y \in Exec : pc'[y] # pc[y] => y = e /\ pc[e] = "register"
        /\ \/ pc'[e] = "refused"
           \/ ~(Len(req[e].chain) >= MaxDepth[OrgOfExec(e)])
    BY <1>3 DEF Register, RegisterFails
  <2> QED  BY <1>3, <2>1, <2>2 DEF Register, RegisterFails
<1>4. ASSUME NEW e \in Exec, Start(e) \/ LateStart(e)
      PROVE  Advances(x)
  BY <1>4 DEF Start, LateStart, Record
<1>5. ASSUME NEW e \in Exec, FetchThrows(e)
      PROVE  Advances(x)
  BY <1>5 DEF FetchThrows, CutShort, EndRun
<1>6. ASSUME NEW e \in Exec, Vanish(e) \/ ScriptGone(e)
      PROVE  Advances(x)
  BY <1>6 DEF Vanish, ScriptGone, CutShort, EndRun
<1>7. ASSUME NEW e \in Exec, NEW i \in Isolate, Enter(e, i)
      PROVE  Advances(x)
  BY <1>7 DEF Enter
<1>8. ASSUME NEW e \in Exec, NEW g \in Fn, CallFn(e, g)
      PROVE  Advances(x)
  BY <1>8 DEF CallFn
<1>9. ASSUME NEW e \in Exec, Resolve(e) \/ ResolveFails(e)
      PROVE  Advances(x)
  BY <1>9 DEF Resolve, ResolveFails
<1>10. ASSUME NEW e \in Exec, NEW c \in Exec, SendCall(e, c)
      PROVE  Advances(x)
  BY <1>10 DEF SendCall
<1>11. ASSUME NEW e \in Exec, CallReturns(e) \/ CallAborts(e)
      PROVE  Advances(x)
  BY <1>11 DEF CallReturns, CallAborts
<1>12. ASSUME NEW e \in Exec, Finish(e)
      PROVE  Advances(x)
  BY <1>12 DEF Finish, EndRun
<1>13. ASSUME NEW e \in Exec, Unregister(e) \/ Expire(e)
      PROVE  Advances(x)
  BY <1>13 DEF Unregister, Expire
<1>14. ASSUME NEW f \in Fn, Delete(f)
      PROVE  Advances(x)
  BY <1>14 DEF Delete
<1>15. CASE UNCHANGED vars
  BY <1>15 DEF vars
<1> QED
  BY <1>1, <1>2, <1>3, <1>4, <1>5, <1>6, <1>7, <1>8, <1>9, <1>10, <1>11, <1>12, <1>13, <1>14,
     <1>15 DEF Next, Arrive, Handler, Worker

LEMMA EffectsStep ==
    ASSUME IInv, [Next]_vars, NEW x \in Exec
    PROVE  Effects(x)
<1>0. TypeOK /\ ConstantsOK
  BY ConstantsOK DEF IInv
<1> USE <1>0 DEF TypeOK, Effects, Recorded, Stays, Takes, Reports, Running, Ended, Begun
<1>1. ASSUME NEW e \in Exec, NEW f \in Fn, NEW c \in Cred, NEW h \in Claims, Receive(e, f, c, h)
      PROVE  Effects(x)
  BY <1>1 DEF Receive
<1>2. ASSUME NEW e \in Exec, Authorize(e) \/ AuthorizeFails(e)
      PROVE  Effects(x)
  BY <1>2 DEF Authorize, AuthorizeFails
<1>3. ASSUME NEW e \in Exec, Register(e) \/ RegisterFails(e)
      PROVE  Effects(x)
  BY <1>3 DEF Register, RegisterFails
<1>4. ASSUME NEW e \in Exec, Start(e) \/ LateStart(e)
      PROVE  Effects(x)
  BY <1>4 DEF Start, LateStart, Record
<1>5. ASSUME NEW e \in Exec, FetchThrows(e)
      PROVE  Effects(x)
  BY <1>5 DEF FetchThrows, CutShort, EndRun
<1>6. ASSUME NEW e \in Exec, Vanish(e) \/ ScriptGone(e)
      PROVE  Effects(x)
  BY <1>6 DEF Vanish, ScriptGone, CutShort, EndRun
<1>7. ASSUME NEW e \in Exec, NEW i \in Isolate, Enter(e, i)
      PROVE  Effects(x)
  BY <1>7 DEF Enter
<1>8. ASSUME NEW e \in Exec, NEW g \in Fn, CallFn(e, g)
      PROVE  Effects(x)
  BY <1>8 DEF CallFn
<1>9. ASSUME NEW e \in Exec, Resolve(e) \/ ResolveFails(e)
      PROVE  Effects(x)
  BY <1>9 DEF Resolve, ResolveFails
<1>10. ASSUME NEW e \in Exec, NEW c \in Exec, SendCall(e, c)
      PROVE  Effects(x)
  BY <1>10 DEF SendCall
<1>11. ASSUME NEW e \in Exec, CallReturns(e) \/ CallAborts(e)
      PROVE  Effects(x)
  BY <1>11 DEF CallReturns, CallAborts
<1>12. ASSUME NEW e \in Exec, Finish(e)
      PROVE  Effects(x)
  BY <1>12 DEF Finish, EndRun
<1>13. ASSUME NEW e \in Exec, Unregister(e) \/ Expire(e)
      PROVE  Effects(x)
  BY <1>13 DEF Unregister, Expire
<1>14. ASSUME NEW f \in Fn, Delete(f)
      PROVE  Effects(x)
  BY <1>14 DEF Delete
<1>15. CASE UNCHANGED vars
  BY <1>15 DEF vars
<1> QED
  BY <1>1, <1>2, <1>3, <1>4, <1>5, <1>6, <1>7, <1>8, <1>9, <1>10, <1>11, <1>12, <1>13, <1>14,
     <1>15 DEF Next, Arrive, Handler, Worker

LEMMA CapturesStep ==
    ASSUME IInv, [Next]_vars, NEW x \in Exec
    PROVE  Captures(x)
<1>0. /\ TypeOK /\ ConstantsOK
      /\ call[x] # NoCall => pc[x] = "running"
  BY ConstantsOK DEF IInv, Captured
<1> USE <1>0 DEF TypeOK, Captures, Running, Ended, Begun
<1>1. ASSUME NEW e \in Exec, NEW f \in Fn, NEW c \in Cred, NEW h \in Claims, Receive(e, f, c, h)
      PROVE  Captures(x)
  BY <1>1 DEF Receive
<1>2. ASSUME NEW e \in Exec, Authorize(e) \/ AuthorizeFails(e)
      PROVE  Captures(x)
  BY <1>2 DEF Authorize, AuthorizeFails
<1>3. ASSUME NEW e \in Exec, Register(e) \/ RegisterFails(e)
      PROVE  Captures(x)
  BY <1>3 DEF Register, RegisterFails
<1>4. ASSUME NEW e \in Exec, Start(e) \/ LateStart(e)
      PROVE  Captures(x)
  BY <1>4 DEF Start, LateStart, Record
<1>5. ASSUME NEW e \in Exec, FetchThrows(e)
      PROVE  Captures(x)
  BY <1>5 DEF FetchThrows, CutShort, EndRun
<1>6. ASSUME NEW e \in Exec, Vanish(e) \/ ScriptGone(e)
      PROVE  Captures(x)
  BY <1>6 DEF Vanish, ScriptGone, CutShort, EndRun
<1>7. ASSUME NEW e \in Exec, NEW i \in Isolate, Enter(e, i)
      PROVE  Captures(x)
  BY <1>7 DEF Enter
<1>8. ASSUME NEW e \in Exec, NEW g \in Fn, CallFn(e, g)
      PROVE  Captures(x)
  BY <1>8 DEF CallFn
<1>9. ASSUME NEW e \in Exec, Resolve(e) \/ ResolveFails(e)
      PROVE  Captures(x)
  <2>1. call[e] \in Call /\ pc' = pc /\ pc[e] = "running"
    BY <1>9 DEF Resolve, ResolveFails, NoCall
  <2>2. /\ [call[e] EXCEPT !.phase = "send"].parent = call[e].parent
        /\ [call[e] EXCEPT !.phase = "send"].chain = call[e].chain
    BY <2>1 DEF Call
  <2>3. \/ call'[x] = NoCall
        \/ call'[x] = call[x]
        \/ x = e /\ call'[x] = [call[e] EXCEPT !.phase = "send"]
    BY <1>9 DEF Resolve, ResolveFails
  <2>4. call[e] # NoCall
    BY <1>9 DEF Resolve, ResolveFails, NoCall
  <2> QED  BY <2>1, <2>2, <2>3, <2>4
<1>10. ASSUME NEW e \in Exec, NEW c \in Exec, SendCall(e, c)
      PROVE  Captures(x)
  <2>1. /\ call[e] \in Call /\ pc[e] = "running" /\ pc[c] = "idle"
        /\ pc' = [pc EXCEPT ![c] = "auth"]
    BY <1>10 DEF SendCall, NoCall
  <2> DEFINE sending == [[call[e] EXCEPT !.phase = "wait"] EXCEPT !.child = c]
  <2>2. sending.parent = call[e].parent /\ sending.chain = call[e].chain
    BY <2>1 DEF Call
  <2>3. call'[x] = IF x = e THEN sending ELSE call[x]
    BY <1>10 DEF SendCall
  <2>4. call[e] # NoCall
    BY <1>10 DEF SendCall, NoCall
  <2> HIDE DEF sending
  <2> QED  BY <2>1, <2>2, <2>3, <2>4
<1>11. ASSUME NEW e \in Exec, CallReturns(e) \/ CallAborts(e)
      PROVE  Captures(x)
  BY <1>11 DEF CallReturns, CallAborts
<1>12. ASSUME NEW e \in Exec, Finish(e)
      PROVE  Captures(x)
  BY <1>12 DEF Finish, EndRun
<1>13. ASSUME NEW e \in Exec, Unregister(e) \/ Expire(e)
      PROVE  Captures(x)
  BY <1>13 DEF Unregister, Expire
<1>14. ASSUME NEW f \in Fn, Delete(f)
      PROVE  Captures(x)
  BY <1>14 DEF Delete
<1>15. CASE UNCHANGED vars
  BY <1>15 DEF vars
<1> QED
  BY <1>1, <1>2, <1>3, <1>4, <1>5, <1>6, <1>7, <1>8, <1>9, <1>10, <1>11, <1>12, <1>13, <1>14,
     <1>15 DEF Next, Arrive, Handler, Worker

LEMMA ArrivesStep ==
    ASSUME IInv, [Next]_vars, NEW x \in Exec
    PROVE  Arrives(x)
<1>0. TypeOK /\ ConstantsOK
  BY ConstantsOK DEF IInv
<1> USE <1>0 DEF TypeOK, Arrives, Running, Ended, Begun
<1>1. ASSUME NEW e \in Exec, NEW f \in Fn, NEW c \in Cred, NEW h \in Claims, Receive(e, f, c, h)
      PROVE  Arrives(x)
  <2>1. [fn |-> f, chain |-> h.chain, parent |-> h.parent, caller |-> NoExec,
         claimed |-> Len(h.chain), cred |-> c] \in Request
    BY ClaimType
  <2> QED  BY <1>1, <2>1 DEF Receive
<1>2. ASSUME NEW e \in Exec, Authorize(e) \/ AuthorizeFails(e)
      PROVE  Arrives(x)
  BY <1>2 DEF Authorize, AuthorizeFails
<1>3. ASSUME NEW e \in Exec, Register(e) \/ RegisterFails(e)
      PROVE  Arrives(x)
  BY <1>3 DEF Register, RegisterFails
<1>4. ASSUME NEW e \in Exec, Start(e) \/ LateStart(e)
      PROVE  Arrives(x)
  BY <1>4 DEF Start, LateStart, Record
<1>5. ASSUME NEW e \in Exec, FetchThrows(e)
      PROVE  Arrives(x)
  BY <1>5 DEF FetchThrows, CutShort, EndRun
<1>6. ASSUME NEW e \in Exec, Vanish(e) \/ ScriptGone(e)
      PROVE  Arrives(x)
  BY <1>6 DEF Vanish, ScriptGone, CutShort, EndRun
<1>7. ASSUME NEW e \in Exec, NEW i \in Isolate, Enter(e, i)
      PROVE  Arrives(x)
  BY <1>7 DEF Enter
<1>8. ASSUME NEW e \in Exec, NEW g \in Fn, CallFn(e, g)
      PROVE  Arrives(x)
  BY <1>8 DEF CallFn
<1>9. ASSUME NEW e \in Exec, Resolve(e) \/ ResolveFails(e)
      PROVE  Arrives(x)
  BY <1>9 DEF Resolve, ResolveFails
<1>10. ASSUME NEW e \in Exec, NEW c \in Exec, SendCall(e, c)
      PROVE  Arrives(x)
  <2>1. call[e] # NoCall /\ call[e] \in Call
    BY <1>10 DEF SendCall, NoCall
  <2>2. CASE x = c
    <3>0. [fn |-> call[e].target, chain |-> call[e].chain, parent |-> call[e].parent,
           caller |-> e, claimed |-> req[call[e].parent].claimed, cred |-> "none"] \in Request
      BY <2>1, NestedType
    <3>1. /\ pc'[x] = "auth" /\ req'[x] \in Request
          /\ req'[x].chain = call[e].chain
          /\ req'[x].parent = call[e].parent
          /\ req'[x].claimed = req[call[e].parent].claimed
      BY <1>10, <2>2, <3>0 DEF SendCall
    <3> QED  BY <2>1, <3>1
  <2>3. CASE x # c
    BY <1>10, <2>3 DEF SendCall
  <2> QED  BY <2>2, <2>3
<1>11. ASSUME NEW e \in Exec, CallReturns(e) \/ CallAborts(e)
      PROVE  Arrives(x)
  BY <1>11 DEF CallReturns, CallAborts
<1>12. ASSUME NEW e \in Exec, Finish(e)
      PROVE  Arrives(x)
  BY <1>12 DEF Finish, EndRun
<1>13. ASSUME NEW e \in Exec, Unregister(e) \/ Expire(e)
      PROVE  Arrives(x)
  BY <1>13 DEF Unregister, Expire
<1>14. ASSUME NEW f \in Fn, Delete(f)
      PROVE  Arrives(x)
  BY <1>14 DEF Delete
<1>15. CASE UNCHANGED vars
  BY <1>15 DEF vars
<1> QED
  BY <1>1, <1>2, <1>3, <1>4, <1>5, <1>6, <1>7, <1>8, <1>9, <1>10, <1>11, <1>12, <1>13, <1>14,
     <1>15 DEF Next, Arrive, Handler, Worker

-----------------------------------------------------------------------------
(* The inductive invariant                                                  *)

LEMMA IInvInit == Init => IInv
<1> SUFFICES ASSUME Init PROVE IInv
  OBVIOUS
<1>1. TypeOK
  BY TypeInit
<1>2. /\ GlobalsConfined
      /\ DeniedForCause
      /\ OneOutcome
  BY DEF Init, GlobalsConfined, DeniedForCause, OneOutcome
<1>3. \A e \in Exec : WithinDepth(e) /\ Placed(e) /\ Captured(e) /\ LineageOf(e) /\ RowKept(e)
  BY DEF Init, WithinDepth, Placed, Captured, LineageOf, RowKept, Admitted, Begun, Running, Ended
<1> QED  BY <1>1, <1>2, <1>3 DEF IInv

LEMMA IInvStep == IInv /\ [Next]_vars => IInv'
<1> SUFFICES ASSUME IInv, [Next]_vars PROVE IInv'
  OBVIOUS
<1>1. TypeOK'
  BY TypeStep
<1>2. \A x \in Exec : /\ Advances(x) /\ Recorded(x) /\ Stays(x) /\ Takes(x)
                      /\ Captures(x) /\ Arrives(x) /\ Reports(x)
  BY AdvancesStep, EffectsStep, CapturesStep, ArrivesStep DEF Effects
<1>3. /\ TypeOK /\ GlobalsConfined /\ DeniedForCause /\ OneOutcome
      /\ \A x \in Exec : WithinDepth(x) /\ Placed(x) /\ Captured(x) /\ LineageOf(x) /\ RowKept(x)
  BY DEF IInv
\* What was there stays: the facts every part uses.
<1>4. ASSUME NEW x \in Exec, pc[x] # "idle"
      PROVE  req'[x] = req[x] /\ pc'[x] # "idle" /\ req[x] \in Request
  BY <1>2, <1>3, <1>4 DEF Advances, Placed
<1>5. ASSUME NEW x \in Exec, pc[x] \in Begun
      PROVE  pc'[x] \in Begun /\ req'[x] = req[x] /\ req[x] \in Request
  <2>1. pc[x] # "idle"
    BY <1>5 DEF Begun, Running, Ended
  <2> QED  BY <1>2, <1>4, <1>5, <2>1 DEF Advances
<1>6. GlobalsConfined'
  <2> SUFFICES ASSUME NEW i \in Isolate, cur'[i] # NoExec
               PROVE  pc'[cur'[i]] \in Begun /\ req'[cur'[i]].fn = Host[i]
    BY DEF GlobalsConfined
  <2> DEFINE x == cur'[i]
  <2>1. x \in Exec
    BY <1>1 DEF TypeOK
  <2>2. CASE cur[i] = x
    <3>1. pc[x] \in Begun /\ req[x].fn = Host[i]
      BY <1>3, <2>2 DEF GlobalsConfined
    <3> QED  BY <1>5, <2>1, <3>1
  <2>3. CASE pc[x] = "fetch" /\ pc'[x] = "running" /\ req[x].fn = Host[i]
    <3>1. req'[x] = req[x]
      BY <1>4, <2>1, <2>3
    <3> QED  BY <2>3, <3>1 DEF Begun, Running
  <2> QED  BY <1>2, <2>1, <2>2, <2>3 DEF Takes
<1>7. ASSUME NEW x \in Exec PROVE WithinDepth(x)'
  <2> SUFFICES ASSUME pc'[x] \in Admitted
               PROVE  Len(req'[x].chain) < MaxDepth[OrgOf[req'[x].fn]]
    BY DEF WithinDepth, OrgOfExec
  <2>1. Len(req[x].chain) < MaxDepth[OrgOfExec(x)] /\ pc[x] # "idle"
    BY <1>2, <1>3, <1>7 DEF Advances, WithinDepth, Admitted, Running, Ended
  <2> QED  BY <1>4, <2>1 DEF OrgOfExec
<1>8. ASSUME NEW x \in Exec PROVE Placed(x)'
  <2>1. ASSUME pc'[x] # "idle" PROVE req'[x] \in Request
    <3>1. CASE pc[x] # "idle"
      BY <1>4, <3>1
    <3>2. CASE pc[x] = "idle"
      BY <1>2, <2>1, <3>2 DEF Arrives
    <3> QED  BY <3>1, <3>2
  <2>2. ASSUME pc'[x] = "running"
        PROVE  iso'[x] \in Isolate /\ Host[iso'[x]] = req'[x].fn
    <3>1. /\ pc[x] # "idle"
          /\ iso'[x] \in Isolate /\ Host[iso'[x]] = req[x].fn
      BY <1>2, <1>3, <2>2 DEF Stays, Placed
    <3> QED  BY <1>4, <3>1
  <2> QED  BY <2>1, <2>2 DEF Placed
<1>9. ASSUME NEW x \in Exec PROVE Captured(x)'
  <2> SUFFICES ASSUME call'[x] # NoCall
               PROVE  /\ pc'[x] = "running"
                      /\ pc'[call'[x].parent] \in Begun
                      /\ call'[x].chain =
                             Append(req'[call'[x].parent].chain,
                                    [fn |-> req'[call'[x].parent].fn, exec |-> call'[x].parent])
                      /\ req'[call'[x].parent].fn = req'[x].fn
    BY DEF Captured, NextChain
  <2> DEFINE p == call'[x].parent
  <2>1. pc[x] = "running" /\ pc'[x] = "running"
    BY <1>2 DEF Captures
  <2>2. p \in Exec /\ pc[p] \in Begun /\ call'[x].chain = NextChain(p) /\ req[p].fn = req[x].fn
    <3>1. CASE call[x] # NoCall /\ p = call[x].parent /\ call'[x].chain = call[x].chain
      <4>1. call[x].parent \in Exec
        BY <1>3, <3>1 DEF TypeOK, Call
      <4> QED  BY <1>3, <3>1, <4>1 DEF Captured
    <3>2. CASE Ctx(x) # NoExec /\ p = Ctx(x) /\ call'[x].chain = NextChain(Ctx(x))
      <4>1. iso[x] \in Isolate /\ Host[iso[x]] = req[x].fn
        BY <1>3, <2>1 DEF Placed
      <4>2. p \in Exec
        BY <1>3, <3>2, <4>1 DEF TypeOK, Ctx
      <4>3. pc[p] \in Begun /\ req[p].fn = Host[iso[x]]
        BY <1>3, <3>2, <4>1 DEF GlobalsConfined, Ctx
      <4> QED  BY <3>2, <4>1, <4>2, <4>3
    <3> QED  BY <1>2, <3>1, <3>2 DEF Captures
  <2>3. pc'[p] \in Begun /\ req'[p] = req[p] /\ req'[x] = req[x]
    BY <1>4, <1>5, <2>1, <2>2
  <2> QED  BY <2>1, <2>2, <2>3 DEF NextChain
<1>10. ASSUME NEW x \in Exec PROVE LineageOf(x)'
  <2> SUFFICES ASSUME pc'[x] # "idle"
               PROVE  /\ req'[x].claimed <= Len(req'[x].chain)
                      /\ \A k \in DOMAIN req'[x].chain : k > req'[x].claimed =>
                             LET y == req'[x].chain[k].exec
                             IN  /\ y \in Exec \ {x}
                                 /\ pc'[y] \in Begun
                                 /\ req'[y].fn = req'[x].chain[k].fn
                                 /\ req'[y].chain = SubSeq(req'[x].chain, 1, k - 1)
                                 /\ k - 1 < MaxDepth[OrgOf[req'[y].fn]]
                      /\ req'[x].caller # NoExec =>
                             /\ Len(req'[x].chain) > req'[x].claimed
                             /\ req'[x].parent = req'[x].chain[Len(req'[x].chain)].exec
    BY DEF LineageOf, OrgOfExec
  \* A request that was there before: its ancestors have only moved on.
  <2>1. CASE pc[x] # "idle"
    <3>1. req'[x] = req[x]
      BY <1>4, <2>1
    <3>2. /\ req[x].claimed <= Len(req[x].chain)
          /\ req[x].caller # NoExec =>
                 /\ Len(req[x].chain) > req[x].claimed
                 /\ req[x].parent = req[x].chain[Len(req[x].chain)].exec
      BY <1>3, <2>1 DEF LineageOf
    <3>3. ASSUME NEW k \in DOMAIN req[x].chain, k > req[x].claimed
          PROVE  LET y == req[x].chain[k].exec
                 IN  /\ y \in Exec \ {x}
                     /\ pc'[y] \in Begun
                     /\ req'[y].fn = req[x].chain[k].fn
                     /\ req'[y].chain = SubSeq(req[x].chain, 1, k - 1)
                     /\ k - 1 < MaxDepth[OrgOf[req'[y].fn]]
      <4> DEFINE y == req[x].chain[k].exec
      <4>1. /\ y \in Exec \ {x}
            /\ pc[y] \in Begun
            /\ req[y].fn = req[x].chain[k].fn
            /\ req[y].chain = SubSeq(req[x].chain, 1, k - 1)
            /\ k - 1 < MaxDepth[OrgOfExec(y)]
        BY <1>3, <2>1, <3>3 DEF LineageOf
      <4>2. pc'[y] \in Begun /\ req'[y] = req[y]
        BY <1>5, <4>1
      <4> QED  BY <4>1, <4>2 DEF OrgOfExec
    <3> QED  BY <3>1, <3>2, <3>3
  \* An outside request only has the frames it claims.
  <2>2. CASE /\ pc[x] = "idle" /\ req'[x] \in Request
             /\ req'[x].caller = NoExec /\ req'[x].claimed = Len(req'[x].chain)
    <3>1. req'[x].chain \in Seq(Frame)
      BY <2>2 DEF Request
    <3>2. Len(req'[x].chain) \in Nat /\ DOMAIN req'[x].chain = 1..Len(req'[x].chain)
      BY <3>1, LenProperties
    <3>3. \A k \in DOMAIN req'[x].chain : ~(k > req'[x].claimed)
      BY <2>2, <3>2
    <3>4. req'[x].claimed <= Len(req'[x].chain)
      BY <2>2, <3>2
    <3> QED  BY <2>2, <3>3, <3>4
  \* A nested one extends the lineage of the execution whose context was captured.
  <2>3. CASE /\ pc[x] = "idle"
             /\ \E e \in Exec : /\ call[e] # NoCall
                                /\ req'[x].chain = call[e].chain
                                /\ req'[x].parent = call[e].parent
                                /\ req'[x].claimed = req[call[e].parent].claimed
    <3>1. PICK e \in Exec : /\ call[e] # NoCall
                            /\ req'[x].chain = call[e].chain
                            /\ req'[x].parent = call[e].parent
                            /\ req'[x].claimed = req[call[e].parent].claimed
      BY <2>3
    <3> DEFINE p == call[e].parent
               s == req[p].chain
               fr == [fn |-> req[p].fn, exec |-> p]
    <3>2. p \in Exec /\ pc[p] \in Begun /\ pc[p] # "idle" /\ req'[x].parent = p
      BY <1>3, <3>1 DEF TypeOK, Captured, Call, Begun, Running, Ended
    <3>3. /\ req'[p] = req[p] /\ pc'[p] \in Begun
          /\ s \in Seq(Frame) /\ fr \in Frame
          /\ req[p].claimed \in Nat
      BY <1>5, <3>2 DEF Request, Frame
    <3>4. req'[x].chain = Append(s, fr)
      BY <1>3, <3>1 DEF Captured, NextChain
    <3>5. Len(s) < MaxDepth[OrgOfExec(p)]
      BY <1>3, <3>2 DEF WithinDepth, Admitted, Begun
    <3>6. x # p
      BY <2>3, <3>2
    <3>15. req'[x].claimed = req[p].claimed /\ req[p].claimed <= Len(s)
      BY <1>3, <3>1, <3>2 DEF LineageOf
    <3> HIDE DEF s, fr
    <3> DEFINE t == Append(s, fr)
    <3>7. /\ t \in Seq(Frame) /\ Len(t) = Len(s) + 1 /\ Len(s) \in Nat
          /\ t[Len(s) + 1] = fr
          /\ SubSeq(t, 1, Len(s)) = s
          /\ \A k \in 1..Len(s) : t[k] = s[k] /\ SubSeq(t, 1, k - 1) = SubSeq(s, 1, k - 1)
      BY <3>3, AppendPrefix
    <3>8. DOMAIN t = 1..(Len(s) + 1)
      BY <3>7, LenProperties
    <3> HIDE DEF t
    <3>9. ASSUME NEW k \in 1..Len(s), k > req[p].claimed
          PROVE  LET y == t[k].exec
                 IN  /\ y \in Exec \ {x}
                     /\ pc'[y] \in Begun
                     /\ req'[y].fn = t[k].fn
                     /\ req'[y].chain = SubSeq(t, 1, k - 1)
                     /\ k - 1 < MaxDepth[OrgOf[req'[y].fn]]
      <4> DEFINE y == s[k].exec
      <4>1. t[k] = s[k] /\ SubSeq(t, 1, k - 1) = SubSeq(s, 1, k - 1)
        BY <3>7
      <4>2. k \in DOMAIN s
        BY <3>3, LenProperties
      <4>3. /\ y \in Exec
            /\ pc[y] \in Begun
            /\ req[y].fn = s[k].fn
            /\ req[y].chain = SubSeq(s, 1, k - 1)
            /\ k - 1 < MaxDepth[OrgOfExec(y)]
        BY <1>3, <3>2, <3>9, <4>2 DEF LineageOf, s
      <4>4. y # x
        BY <2>3, <4>3 DEF Begun, Running, Ended
      <4>5. pc'[y] \in Begun /\ req'[y] = req[y]
        BY <1>5, <4>3
      <4> QED  BY <4>1, <4>3, <4>4, <4>5 DEF OrgOfExec
    <3>10. LET y == t[Len(s) + 1].exec
           IN  /\ y = p
               /\ y \in Exec \ {x}
               /\ pc'[y] \in Begun
               /\ req'[y].fn = t[Len(s) + 1].fn
               /\ req'[y].chain = SubSeq(t, 1, Len(s))
               /\ Len(s) < MaxDepth[OrgOf[req'[y].fn]]
      BY <3>2, <3>3, <3>5, <3>6, <3>7 DEF fr, s, OrgOfExec
    <3>11. \A k \in DOMAIN t : k \in 1..Len(s) \/ (k = Len(s) + 1 /\ k - 1 = Len(s))
      BY <3>7, <3>8
    <3>12. req'[x].chain = t
      BY <3>4 DEF t
    <3>13. /\ req'[x].claimed <= Len(t) /\ Len(t) > req'[x].claimed
           /\ req'[x].parent = t[Len(t)].exec
      BY <3>2, <3>3, <3>7, <3>10, <3>15
    <3>14. ASSUME NEW k \in DOMAIN t, k > req'[x].claimed
           PROVE  LET y == t[k].exec
                  IN  /\ y \in Exec \ {x}
                      /\ pc'[y] \in Begun
                      /\ req'[y].fn = t[k].fn
                      /\ req'[y].chain = SubSeq(t, 1, k - 1)
                      /\ k - 1 < MaxDepth[OrgOf[req'[y].fn]]
      <4>1. CASE k \in 1..Len(s)
        BY <3>9, <3>14, <3>15, <4>1
      <4>2. CASE k = Len(s) + 1 /\ k - 1 = Len(s)
        BY <3>10, <4>2
      <4> QED  BY <3>11, <4>1, <4>2
    <3> QED  BY <3>12, <3>13, <3>14
  <2> QED  BY <1>2, <2>1, <2>2, <2>3 DEF Arrives
<1>11. ASSUME NEW x \in Exec PROVE RowKept(x)'
  <2> SUFFICES ASSUME pc'[x] \in Begun
               PROVE  x \in row' \cup unsure' \/ req'[x].fn \in deleted'
    BY DEF RowKept
  <2>1. pc[x] \in Begun \cup {"start"} /\ pc[x] # "idle"
    BY <1>2 DEF Recorded, Begun, Running, Ended
  <2>2. req'[x] = req[x]
    BY <1>4, <2>1
  <2>3. CASE pc[x] \in Begun
    <3>1. x \in row \cup unsure \/ req[x].fn \in deleted
      BY <1>3, <2>3 DEF RowKept
    <3> QED  BY <1>2, <2>2, <3>1 DEF Recorded
  <2>4. CASE x \in row' \cup unsure' \/ req[x].fn \in deleted'
    BY <2>2, <2>4
  <2> QED  BY <1>2, <2>3, <2>4 DEF Recorded
<1>12. DeniedForCause'
  <2> SUFFICES ASSUME NEW x \in Exec, pc'[x] = "denied", req'[x].caller # NoExec,
                      OrgOf[req'[req'[x].parent].fn] = OrgOf[req'[x].fn]
               PROVE  \/ req'[x].parent \in unsure'
                      \/ {req'[req'[x].parent].fn, req'[x].fn} \cap deleted' # {}
    BY DEF DeniedForCause, OrgOfExec
  <2> DEFINE p == req[x].parent
  <2>1. pc[x] \in {"auth", "denied"} /\ pc[x] # "idle"
    BY <1>2 DEF Advances
  <2>2. req'[x] = req[x] /\ req[x] \in Request
    BY <1>4, <2>1
  \* Its parent has begun, so that its start record is settled.
  <2>3. p \in Exec /\ pc[p] \in Begun
    <3> DEFINE s == req[x].chain
    <3>1. req[x].claimed \in Nat /\ Len(s) \in Nat /\ DOMAIN s = 1..Len(s)
      BY <2>2, LenProperties DEF Request
    <3>2. Len(s) > req[x].claimed /\ p = s[Len(s)].exec
      BY <1>3, <2>1, <2>2 DEF LineageOf
    <3>3. Len(s) \in DOMAIN s
      BY <3>1, <3>2
    <3> QED  BY <1>3, <2>1, <3>2, <3>3 DEF LineageOf
  <2>4. req'[p] = req[p]
    BY <1>5, <2>3
  <2>5. p \in unsure \/ req[p].fn \in deleted \/ req[x].fn \in deleted
    <3>1. CASE pc[x] = "denied"
      <4>1. p \in unsure \/ {req[p].fn, req[x].fn} \cap deleted # {}
        BY <1>3, <2>2, <2>4, <3>1 DEF DeniedForCause, OrgOfExec
      <4> QED  BY <4>1
    <3>2. CASE pc[x] = "auth"
      <4>1. ~Authorized(x)
        BY <1>2, <3>2 DEF Advances
      <4>2. p # NoExec
        BY <2>3, ConstantsOK
      <4>3. p \notin row \/ req[p].fn \in deleted \/ req[x].fn \in deleted
        BY <2>2, <2>4, <4>1, <4>2 DEF Authorized, ParentVerified, OrgOfExec
      <4> QED  BY <1>3, <2>3, <4>3 DEF RowKept
    <3> QED  BY <2>1, <3>1, <3>2
  <2>6. p \in unsure' \/ req[p].fn \in deleted' \/ req[x].fn \in deleted'
    BY <1>2, <2>3, <2>5 DEF Recorded
  <2> QED  BY <2>2, <2>4, <2>6
<1>13. OneOutcome'
  <2> SUFFICES ASSUME NEW m \in sent'
               PROVE  pc'[m.exec] = "answered" /\ \A n \in sent' : n.exec = m.exec => n = m
    BY DEF OneOutcome
  <2> DEFINE x == m.exec
  <2>1. x \in Exec
    BY <1>1 DEF TypeOK
  <2>2. CASE m \in sent
    <3>1. pc[x] = "answered" /\ \A n \in sent : n.exec = x => n = m
      BY <1>3, <2>2 DEF OneOutcome
    <3>2. pc'[x] = "answered" /\ \A n \in sent' : n.exec = x => n \in sent
      BY <1>2, <2>1, <3>1 DEF Advances, Reports
    <3> QED  BY <3>1, <3>2
  <2>3. CASE m \notin sent
    <3>1. /\ pc[x] \in Running /\ pc'[x] = "answered"
          /\ \A n \in sent' : n.exec = x => n \in sent \/ n = m
      BY <1>2, <2>1, <2>3 DEF Reports
    <3>2. \A n \in sent : n.exec # x
      BY <1>3, <3>1 DEF OneOutcome, Running
    <3> QED  BY <3>1, <3>2
  <2> QED  BY <2>2, <2>3
<1> QED  BY <1>1, <1>6, <1>7, <1>8, <1>9, <1>10, <1>11, <1>12, <1>13 DEF IInv

-----------------------------------------------------------------------------
(* Theorems                                                                 *)

LEMMA IInvInvariant == Spec => []IInv
<1> QED  BY IInvInit, IInvStep, PTL DEF Spec

\* The types of dispatch.ts's and the shim's state are kept: in particular a context
\* the shim captures is that of a request.
THEOREM TypeCorrect == Spec => []TypeOK
<1>1. IInv => TypeOK
  BY DEF IInv
<1> QED  BY IInvInvariant, <1>1, PTL

\* Past what a client claimed, the call chain the dispatcher forwards and the depth it
\* registers are those of real, admitted executions, however the isolates are shared.
THEOREM LineageCorrect == Spec => []Lineage
<1>1. IInv => Lineage
  BY DEF IInv, LineageOf, Lineage, Begun
<1> QED  BY IInvInvariant, <1>1, PTL

\* The shim's global never lets a run call out with another function's context.
THEOREM ConfinementCorrect == Spec => []FunctionConfined
<1>1. IInv => FunctionConfined
  BY DEF IInv, Captured, FunctionConfined
<1> QED  BY IInvInvariant, <1>1, PTL

\* verify-parent turns away a nested call of the same workspace only if exec/start
\* failed for the parent, late row or none, or a function was deleted.
THEOREM DenialCorrect == Spec => []DeniedForCause
<1>1. IInv => DeniedForCause
  BY DEF IInv
<1> QED  BY IInvInvariant, <1>1, PTL

\* The dispatcher posts at most one outcome of an execution, after its handler is
\* through, the fallback fetch included.
THEOREM OutcomeCorrect == Spec => []OneOutcome
<1>1. IInv => OneOutcome
  BY DEF IInv
<1> QED  BY IInvInvariant, <1>1, PTL

=============================================================================
