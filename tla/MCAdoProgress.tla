---------------------------- MODULE MCAdoProgress ----------------------------
(* One milestone without a state to set, told by one publisher. *)
EXTENDS AdoProgress

CONSTANTS m1, p1

BareSequence == [m \in {m1} |-> 1]
BareTarget == [m \in {m1} |-> "none"]

==============================================================================
