----------------------------- MODULE MCFlowRun -----------------------------
(* A flow of two states with nothing but their artifacts, for the liveness of *)
(* a prepare: one call at a time, and a second lease of the source's item.    *)
EXTENDS FlowRun

CONSTANTS c1, r1

BareFlowStates == {"shape", "release"}
BareDuties == {}
BareRoutes == {[from |-> "shape", to |-> "release", outcome |-> "onward", impact |-> "any"]}

=============================================================================
