CONSTANTS
  a = a
  b = b
  t1 = t1
  Builder = builder
  Panel = panel
  Teams <- TwoTeams
  Terminals <- TerminalForA
  MaxFailures = 1
  MaxStops = 1

SPECIFICATION FairSpec

INVARIANTS
  BoxSurvives
  BoxComplete

PROPERTIES
  ResetIsFresh
  NodeComesUp
