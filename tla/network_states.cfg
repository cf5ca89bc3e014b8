CONSTANTS
  r1 = r1
  r2 = r2
  c1 = c1
  c2 = c2
  a = a
  Agent = Agent
  NoTeam = NoTeam
  Routers <- OneRouter
  Callers <- TwoCallers
  Bannable <- OneTeam
  Orders <- AllStates
  MaxOrders = 2
  MaxReboots = 1
  MaxRestarts = 1

SPECIFICATION FairNetworkSpec

INVARIANTS
  NothingUnasked

PROPERTIES
  RoutersConverge

CHECK_DEADLOCK FALSE
