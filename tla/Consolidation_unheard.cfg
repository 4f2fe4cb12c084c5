\* A few turns of one conversation, with consolidations in between.
SPECIFICATION ConsSpec
CONSTANTS
  Interval = 2
  Every2 = 2
  Every3 = 4
  Unified = TRUE
  MaxExperiences = 1
  MaxInsights = 1
  Claimed = {40, 80}
  Dims = {"trust"}
  Levels = {98}
  TurnMax = 6
  SaveMax = 1
  DoubtMin = 50
INVARIANTS
  UserHeard
CHECK_DEADLOCK FALSE
