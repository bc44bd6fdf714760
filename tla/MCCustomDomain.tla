--------------------------- MODULE MCCustomDomain ---------------------------
(* One hostname that two domains claim in turn. *)
EXTENDS CustomDomain, TLC

CONSTANTS h, d1, d2

MCHostOf == d1 :> h @@ d2 :> h

Symmetry == Permutations(Domain) \cup Permutations(Job)

=============================================================================
