SPECIFICATION FairSpec
CONSTANTS
  Requests = {r1, r2}
  MaxRounds = 2
  MaxRetries = 2
  MaxAttempts = 4
  MaxTries = 2
  PoolSize = 1
  MaxLoops = 2
  MaxIterations = 3
  MaxFakes = 2
  Threshold = 2
INVARIANTS SuccessTold ModelFailuresAnswered
PROPERTIES NotRepeated Answered
