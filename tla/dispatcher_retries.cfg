CONSTANTS
  j1 = j1
  e1 = e1
  w1 = w1
  Jobs <- OneJob
  Workers <- Mixed
  Embedded <- OnlyEmbedded
  Capacity = 2
  Lease = 1
  Slack = 1
  Deadlines <- LongRound
  Horizon = 4
  MaxRestarts = 1
  Statuses <- TwoStatuses
  Killed = "KILLED"
  NoVerdict = "none"

SPECIFICATION FairSpec

INVARIANTS
  NothingLost
  NoEarlyRetry
  HandsBounded

PROPERTIES
  QueueDrains
  ImplementsCheckJobs

CHECK_DEADLOCK FALSE
