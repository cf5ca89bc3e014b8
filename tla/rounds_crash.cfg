CONSTANTS
  a = a
  b = b
  Never = Never
  Targets <- TwoTargets
  RoundLen = 1
  Slack = 0
  Grace = 1
  FlagExpireTicks = 2
  Answers <- OkOrCritical
  InitialStarts <- AtZero
  InitialEnds <- Unplanned
  InitialFreezes <- Unplanned
  Horizon = 3
  MaxRestarts = 1
  MaxPauses = 0

SPECIFICATION Spec

INVARIANTS
  SlaReproducible
  FailureKept
  StatusMatchesFlags
  CellsTellTheSla

PROPERTIES
  ImplementsHistory
  FlagsFinal

CONSTRAINT OnlyAFails

CHECK_DEADLOCK FALSE
