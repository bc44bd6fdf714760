--------------------------- MODULE MCControlPlane ---------------------------
(* Small instances of the parts of the control plane.                        *)
EXTENDS ControlPlane, MCIngest

CONSTANTS p1, p2, p3, x1, x2, x3, a, b, sliced, tidied

Process == {p1, p2}
MCHandler == {p1, p2, p3}
Pair == {x1, x2}
Three == {x1, x2, x3}
MCRowId == {a, b, e1}

\* A file that is too long for the profile and has white space around it.
MCCut == x3 :> sliced
MCTidied == x3 :> tidied

\* Every minute, and at minute 1.
MCSchedule == a :> {0, 1} @@ b :> {1}

PartSymmetry == Permutations(Process) \cup Permutations(Pair)

=============================================================================
