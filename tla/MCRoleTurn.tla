------------------------------ MODULE MCRoleTurn ------------------------------
(* RoleTurn on two instances of a role and the items of one conversation. *)
EXTENDS RoleTurn, TLC

CONSTANTS i1, i2, k1, k2, d1, d2

MCInstances == {i1, i2}

InstanceSymmetry == Permutations(MCInstances)

==============================================================================
