------------------------------ MODULE MCIngest ------------------------------
(* An execution that failed, reported by the dispatcher and by a tail event,   *)
(* and a second one of which only a tail event is left.                        *)
EXTENDS Ingest, TLC

CONSTANTS e1, e2

MCKey == {[exec |-> e1, source |-> "runtime", id |-> 0, lines |-> TRUE, status |-> "fn_error"],
          [exec |-> e1, source |-> "tail", id |-> 0, lines |-> TRUE, status |-> "absent"],
          [exec |-> e2, source |-> "tail", id |-> 0, lines |-> FALSE, status |-> "absent"]}

Symmetry == Permutations(Handler)

=============================================================================
