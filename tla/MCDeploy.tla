------------------------------ MODULE MCDeploy ------------------------------
(* Small instances of the versions of two functions and of their mail.       *)
EXTENDS DeployAndMail, TLC

CONSTANTS k1, k2, a, b

\* Two messages, one of which names an address twice.
MCRecipients == k1 :> <<a, b>> @@ k2 :> <<b, a, b>>

Symmetry == Permutations(Fn) \cup Permutations(Slug) \cup Permutations(Version) \cup Permutations(Actor)

=============================================================================
