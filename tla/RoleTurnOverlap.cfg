SPECIFICATION Spec
CONSTANTS
  i1 = i1
  i2 = i2
  k1 = k1
  k2 = k2
  d1 = d1
  d2 = d2
  None = None
  Instances = {i1, i2}
  Items = {k1, k2}
  Retries = {}
  Digests = {d1, d2}
  MaxGen = 2
  MaxFaults = 0
INVARIANTS ConversationSerial
