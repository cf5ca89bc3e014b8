CONSTANTS
  c1 = c1
  c2 = c2
  a = a
  p1 = p1
  Callers <- TwoCallers
  Teams <- OneTeam
  Profiles <- OneProfile
  Ticks <- TwoTicks
  DefaultTick = 120
  MaxEdits = 1
  MaxCrashes = 0

SPECIFICATION Spec

INVARIANTS
  PauseIsObeyed

CHECK_DEADLOCK FALSE
