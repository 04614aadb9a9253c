SPECIFICATION AdoSpec
CONSTANTS
  m1 = m1
  p1 = p1
  Milestones = {m1}
  SequenceOf <- BareSequence
  TargetOf <- BareTarget
  Publishers = {p1}
  MaxTries = 2
  MaxHumanEdits = 0
  MaxLost = 0
INVARIANTS CommentedOnce
CHECK_DEADLOCK FALSE
