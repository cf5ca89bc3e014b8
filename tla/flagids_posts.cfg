CONSTANTS
  r1 = r1
  r2 = r2
  w1 = w1
  w2 = w2
  f0 = f0
  f1 = f1
  Nil = Nil
  Nobody = Nobody
  Requests <- TwoRequests
  Writers <- OneWriter
  Flags <- TwoFlags
  RoundOf <- RoundsInOrder
  Filters <- WithFilter
  FlagExpireTicks = 1
  MaxPosts = 1
  MaxRound = 1

SPECIFICATION Spec

INVARIANTS
  UnfilteredHavePosts
  NothingEarly

SYMMETRY Symmetric

CHECK_DEADLOCK FALSE
