\* The TUI: each message in a thread of its own, without the lock, and the
\* driver, which takes it.
SPECIFICATION FairSpec
CONSTANTS
  u1 = u1
  u2 = u2
  d1 = d1
  d2 = d2
  NoOne = NoOne
  Users = {u1, u2}
  Drivers = {d1}
  Locked = FALSE
  MemLen = 3
  Restored = 0
  MaxLoops = 1
  MaxExchanges = 2
  MaxAgents = 1
PROPERTIES
  LockReleased
