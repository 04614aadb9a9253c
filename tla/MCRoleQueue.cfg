SPECIFICATION Spec
CONSTANTS
  Items <- MCItems
  LeaseIds <- MCLeaseIds
  Instances <- MCInstances
  Queues <- MCQueues
  QueueRole <- MCQueueRole
  InstanceRole <- MCInstanceRole
  Steady <- MCSteady
  HandoffKeys <- MCHandoffKeys
  Rank <- MCRank
  None = None
  i1 = i1
  i2 = i2
  pm = pm
  q1 = q1
  k1 = k1
  k2 = k2
INVARIANTS TypeOK LeaseConsistent SourceAccepted TargetOwnsHandoff
PROPERTIES ImplementsWorkQueue
SYMMETRY InstanceSymmetry
