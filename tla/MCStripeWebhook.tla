--------------------------- MODULE MCStripeWebhook ---------------------------
(* Two subscriptions, so that a second checkout can overtake the first.       *)
EXTENDS StripeWebhook, TLC

MCKey == [type : Type, sub : Sub, version : 1..MaxVersion]

Symmetry == Permutations(Handler)

=============================================================================
