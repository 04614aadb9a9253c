SPECIFICATION Spec
CONSTANTS
  i1 = i1
  i2 = i2
  k1 = k1
  k2 = k2
  r1 = r1
  r2 = r2
  None = None
  Instances = {i1, i2}
  Items = {k1}
  Reconcilers = {r1}
  Loop = r1
  Policies <- MCOnePolicy
  MaxFaults = 0
INVARIANTS HibernationFailsClosed
