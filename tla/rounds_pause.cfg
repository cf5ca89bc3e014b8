CONSTANTS
  a = a
  b = b
  Never = Never
  Targets <- OneTarget
  RoundLen = 2
  Slack = 1
  Grace = 1
  FlagExpireTicks = 1
  Answers <- OnlyOk
  InitialStarts <- AtOne
  InitialEnds <- AtFour
  InitialFreezes <- AtFour
  Horizon = 8
  MaxRestarts = 1
  MaxPauses = 2

SPECIFICATION FairSpec

INVARIANTS
  PlayersAreTold

PROPERTIES
  CountdownHolds
  FrozenAtPlayedRound
  RoundCloses
  StartsOnTime
  EndIsNoticed

CHECK_DEADLOCK FALSE
