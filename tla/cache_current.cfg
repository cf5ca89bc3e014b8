CONSTANTS
  r1 = r1
  r2 = r2
  roundLoop = roundLoop
  organizer = organizer
  settings = settings
  None = None
  NoData = NoData
  Empty = Empty
  Requests <- TwoRequests
  Changers <- TwoChangers
  Parts <- OnePart
  MaxChanges = 1
  MaxRound = 1

SPECIFICATION PageSpec

INVARIANTS
  AnswersCurrent
  BoardKeepsUp

SYMMETRY Symmetric

CHECK_DEADLOCK FALSE
