\* The Web host: the whole exchange under the lock, a driver that a new
\* connection may replace, and a second agent for the role, built by a
\* restart or while threads still work for the first.
SPECIFICATION Spec
CONSTANTS
  u1 = u1
  u2 = u2
  d1 = d1
  d2 = d2
  NoOne = NoOne
  Users = {u1, u2}
  Drivers = {d1, d2}
  Locked = TRUE
  MemLen = 3
  Restored = 2
  MaxLoops = 0
  MaxExchanges = 3
  MaxAgents = 2
SYMMETRY Alike
INVARIANTS
  ExchangesContiguous
  NumbersAscend
  ReplyNumbersUnique
  MemOnDisk
PROPERTIES
  ImplementsTranscript
  FeelsOwnTurn
