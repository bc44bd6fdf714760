----------------------------- MODULE MCDispatch -----------------------------
(* Two workspaces, a function each; f requires auth and may share an isolate. *)
EXTENDS Dispatch, TLC

CONSTANTS f, g, o1, o2, i1, i2

MCFn == {f, g}
MCOrg == {o1, o2}
MCIsolate == {i1, i2}
MCOrgOf == f :> o1 @@ g :> o2
MCHost == i1 :> f @@ i2 :> g
MCMaxDepth == o1 :> 2 @@ o2 :> 1
MCRequireAuth == {f}

\* A client claims nothing, or a frame it made up, or one it saw or a parent without
\* a chain.
MCNoClaim == {[chain |-> <<>>, parent |-> NoExec]}

MCMadeUp == MCNoClaim \cup {[chain |-> <<[fn |-> Unknown, exec |-> Unknown]>>,
                             parent |-> Unknown]}

MCClaims ==
    MCMadeUp \cup {[chain |-> <<[fn |-> f, exec |-> x]>>, parent |-> NoExec] : x \in Exec}
             \cup {[chain |-> <<>>, parent |-> x] : x \in Exec}

Symmetry == Permutations(Exec)

=============================================================================
