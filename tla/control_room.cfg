CONSTANTS
  me = me
  other = other
  a = a
  p1 = p1
  None = None
  Sent = Sent
  Callers <- TwoCallers
  Teams <- OneTeam
  Profiles <- OneProfile
  Ticks <- TwoTicks
  DefaultTick = 120
  MaxEdits = 1
  MaxCrashes = 1

SPECIFICATION FairRoomSpec

INVARIANTS
  MemoryFollows
  PromisesHold
  OwnChangesShown

PROPERTIES
  PanelCatchesUp

CHECK_DEADLOCK FALSE
