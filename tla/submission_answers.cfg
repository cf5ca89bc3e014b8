CONSTANTS
  a = a
  b = b
  c = c
  nop = nop
  web = web
  r1 = r1
  r2 = r2
  Nobody = Nobody
  Junk = Junk
  Teams <- WithNop
  NopTeams <- OneNop
  Targets <- OnlyB
  Services <- OneService
  Requests <- TwoRequests
  InitialScore = 2
  LowGain = 1
  EvenGain = 2
  HighGain = 3
  FlagExpireTicks = 1
  RateLimited = TRUE
  MaxFlags = 1
  Bannable <- JustB
  MayPause = TRUE
  MaxRound = 0
  MaxRestarts = 0

SPECIFICATION FairSpec

PROPERTIES
  RequestsEnd

CHECK_DEADLOCK FALSE
