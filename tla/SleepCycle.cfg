\* A day after day, with the code's cooldown of an hour asleep.
SPECIFICATION Spec
CONSTANTS
  Cooldown = 6
INVARIANTS
  AwakeByDay
PROPERTIES
  RestKept
  OneSleepPerWindow
