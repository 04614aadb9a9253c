---------------------------- MODULE MCRoleQueue ----------------------------
(* The instance of RoleQueue that TLC checks: two instances of one role that *)
(* compete for two items of one queue, one of which may hand on the other,   *)
(* and an instance of another role that must never get either.               *)
EXTENDS RoleQueue, TLC

CONSTANTS i1, i2, pm, q1, k1, k2

MCInstances == {i1, i2, pm}
MCSteady == {pm}
MCHandoffKeys == {k2}
MCQueues == {q1}
MCLeaseIds == 1..3
MCItems == {k1, k2}
MCQueueRole == [q \in MCQueues |-> "eng"]
MCInstanceRole == [i \in MCInstances |-> IF i = pm THEN "pm" ELSE "eng"]
MCRank == (k1 :> 1) @@ (k2 :> 2)
InstanceSymmetry == Permutations({i1, i2})

=============================================================================
