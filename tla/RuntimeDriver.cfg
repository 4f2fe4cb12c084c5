\* Two loops and two agent objects, reused over any number of restarts.
SPECIFICATION Spec
CONSTANTS
  d1 = d1
  d2 = d2
  a1 = a1
  a2 = a2
  NoAgent = NoAgent
  Drivers = {d1, d2}
  Agents = {a1, a2}
  IdleFloor = 1
  ChatGap = 2
  ExploreGap = 3
  MaxBackoff = 2
  MaxSilents = 2
  MaxTicks = 1
SYMMETRY Symmetry
INVARIANTS
  BackoffJustified
PROPERTIES
  RateLimited
