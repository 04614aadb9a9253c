------------------------------- MODULE MCFleet -------------------------------
(* A pool of two instances under the API's loop and one manual reconciliation. *)
EXTENDS Fleet

CONSTANTS i1, i2, k1, k2, r1, r2

\* Scale to zero with one instance, and one kept warm of two.
MCPolicies == {[min |-> 0, max |-> 1, hibernation |-> TRUE],
               [min |-> 1, max |-> 2, hibernation |-> TRUE]}

MCOnePolicy == {[min |-> 0, max |-> 2, hibernation |-> TRUE]}

=============================================================================
