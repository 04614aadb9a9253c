SPECIFICATION PlatformSpec
CONSTANTS
  w1 = w1
  g1 = g1
  g2 = g2
  s1 = s1
  s2 = s2
  a1 = a1
  f1 = f1
  f2 = f2
  q1 = q1
  None = None
  Works = {w1}
  Gates = {g1, g2}
  Sponsors = {s1, s2}
  Callers = {a1}
  Incidents = {f1, f2}
  FlowStates <- MCFlowStates
  EntryState = "shape"
  FlowDuties <- MCDuties
  FlowRoutes <- MCRoutes
  Tags = {"a"}
  Supplied = {"none", "no-material"}
  FlowCalls = {s1, s2}
  Reviewers = {f1}
  SponsorGates = {g1, g2}
  MaxVersion = 4
  MaxLeases = 2
  MaxEdits = 1
  MaxDeaths = 1
  Absent = Absent
  Parts <- MCParts
  EntityOf <- MCEntityOf
  Entities = {w1, q1}
  Values = {1}
  Writers = {s1, s2}
  Streams = {a1}
  MaxEvents = 4
  Limits = {1, 2}
  Milestones = {f1, f2}
  SequenceOf <- MCSequenceOf
  TargetOf <- MCTargetOf
  Publishers = {s1, s2}
  MaxTries = 2
  MaxHumanEdits = 1
  MaxLost = 1
SYMMETRY MCSymmetry
INVARIANTS PlatformTypeOK
INVARIANTS GateHoldsWork NeverStranded TerminalEarned
INVARIANTS TransitionsChain SponsorGateResolvable
INVARIANTS NewestIsSource ReadersComplete MilestonesInOrder
PROPERTIES ImplementsGovernedFlow RebuildRepairs HumanEditsKept
CHECK_DEADLOCK FALSE
