CONSTANTS
  a = a
  b = b
  c = c
  nop = nop
  web = web
  r1 = r1
  r2 = r2
  Nobody = Nobody
  Junk = Junk
  Teams <- ThreeTeams
  NopTeams <- NoNop
  Targets <- OneVictim
  Services <- OneService
  Requests <- TwoRequests
  InitialScore = 2
  LowGain = 1
  EvenGain = 2
  HighGain = 3
  FlagExpireTicks = 1
  RateLimited = FALSE
  MaxFlags = 1
  Bannable <- NoNop
  MayPause = FALSE
  MaxRound = 0
  MaxRestarts = 1

SPECIFICATION Spec

INVARIANTS
  IInv
  NeverClashes

PROPERTIES
  ImplementsLedger

SYMMETRY ThievesSymmetry

CHECK_DEADLOCK FALSE
