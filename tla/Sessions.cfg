\* One role in two tabs and a POST, another role that cleanup_old may push
\* out. The host stops after Shutdown.
SPECIFICATION Spec
CONSTANTS
  ada = ada
  bob = bob
  s1 = s1
  s2 = s2
  s3 = s3
  q1 = q1
  q2 = q2
  None = None
  Roles = {ada, bob}
  Sockets = {s1, s2}
  Requests = {q1}
  MaxSessions = 1
  Ttl = 1
  CleanupEvery = 2
  MaxAgents = 3
  MaxTimers = 2
  MaxMessages = 2
SYMMETRY Symmetry
INVARIANTS
  LatestServed
  OneDriver
  MessagesSerial
  MoodKept
CHECK_DEADLOCK FALSE
