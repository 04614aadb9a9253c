SPECIFICATION FairFlowSpec
CONSTANTS
  c1 = c1
  r1 = r1
  FlowStates <- BareFlowStates
  EntryState = "shape"
  FlowDuties <- BareDuties
  FlowRoutes <- BareRoutes
  Tags = {"a"}
  Supplied = {"none"}
  FlowCalls = {c1}
  Reviewers = {r1}
  SponsorGates = {}
  MaxVersion = 3
  MaxLeases = 2
  MaxEdits = 0
  MaxDeaths = 1
PROPERTIES TransitionRecorded
CHECK_DEADLOCK FALSE
