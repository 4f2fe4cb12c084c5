\* Files of every version with three crashes, calls on one of them; six turns of
\* a conversation; four operations on the care list.
SPECIFICATION MemorySpec
CONSTANTS
  Sessions <- MCSessions
  Roles <- MCRoles
  Keys <- MCKeys
  Legacies <- MCLegacies
  KeepMax = 2
  CrashMax = 3
  Absent = Absent
  Callers = {c1, c2, c3}
  OnLoop = {c1}
  Workers = 1
  Statements = 2
  CallMax = 1
  Followed <- MCFollowed
  Nobody = Nobody
  Interval = 2
  Every2 = 2
  Every3 = 4
  Unified = TRUE
  MaxExperiences = 1
  MaxInsights = 1
  Claimed = {40, 80}
  Dims = {"trust"}
  Levels = {98}
  TurnMax = 6
  SaveMax = 1
  DoubtMin = 50
  Contents = {t1, t2, t3}
  PlanLike = {t3}
  Given = {20, 60}
  MaxEntries = 2
  SurfaceK = 1
  MaxRounds = 2
  WorkMax = 4
INVARIANTS
  FactsStay
  MergeAtomic
  BackupHolds
  CallsAtomic
  TurnsKept
  ExtractedOnce
  NoTwins
  StaysSettled
PROPERTIES
  InsightEarned
CHECK_DEADLOCK FALSE
