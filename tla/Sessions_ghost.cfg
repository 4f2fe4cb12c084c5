\* One tab that closes, and nobody else.
SPECIFICATION FairSpec
CONSTANTS
  ada = ada
  bob = bob
  s1 = s1
  s2 = s2
  s3 = s3
  q1 = q1
  q2 = q2
  None = None
  Roles = {ada}
  Sockets = {s1}
  Requests = {}
  MaxSessions = 2
  Ttl = 2
  CleanupEvery = 2
  MaxAgents = 2
  MaxTimers = 1
  MaxMessages = 0
PROPERTIES
  AbandonedRemoved
CHECK_DEADLOCK FALSE
