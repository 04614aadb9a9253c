SPECIFICATION FairSpec
CONSTANTS
  i1 = i1
  i2 = i2
  k1 = k1
  k2 = k2
  r1 = r1
  r2 = r2
  None = None
  Instances = {i1, i2}
  Items = {k1}
  Reconcilers = {r1, r2}
  Loop = r1
  Policies <- MCPolicies
  MaxFaults = 1
INVARIANTS TypeOK
PROPERTIES WithinPolicy EndsWithItsAction ZeroSizedWakes
