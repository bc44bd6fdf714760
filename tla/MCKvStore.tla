----------------------------- MODULE MCKvStore ------------------------------
(* More keys than the quota allows, and requests racing for the room. *)
EXTENDS KvStore, TLC

Symmetry == Permutations(Key) \cup Permutations(Handler)

=============================================================================
