----------------------------- MODULE AtMostOnce -----------------------------
(***************************************************************************)
(* What the webhook inbox promises its callers: an event is claimed once,  *)
(* and its effect happens at most once, after that.  Whether it happens at *)
(* all is not promised.                                                    *)
(***************************************************************************)
EXTENDS Naturals

CONSTANT Key

VARIABLES
    claimed,    \* events somebody took on
    effect      \* how often the effect of an event happened

Init == claimed = {} /\ effect = [k \in Key |-> 0]

Claim(k) ==
    /\ k \notin claimed
    /\ claimed' = claimed \cup {k}
    /\ UNCHANGED effect

Act(k) ==
    /\ k \in claimed
    /\ effect[k] = 0
    /\ effect' = [effect EXCEPT ![k] = 1]
    /\ UNCHANGED claimed

Next == \E k \in Key : Claim(k) \/ Act(k)

Spec == Init /\ [][Next]_<<claimed, effect>>

=============================================================================
