\* Each service by itself, in a small instance.
SPECIFICATION ServicesSpec
CONSTANTS
  Askers = {t1, t2}
  Interruptible = {t1}
  Attempts = 2
  Trips = 2
  Hosts = {h1, h2}
  FailThreshold = 2
  MaxRestarts = 2
  Texts = {"a", "b"}
  Blank = ""
  Batches <- MCBatches
  Dims = {1, 2}
  SelfTest = "a"
  Stored = 1
  CacheMax = 2
  Answers <- MCAnswers
  Pool = 2
  Builders = {t1, t2}
  Prompts = {"drive", "reply"}
  Blocks = {"identity", "memory"}
  Static = {"identity"}
  Ttl = 2
  MaxBlocks = 1
  HourMax = 3
  Personas = {"kind", "shy"}
  Default = "default"
  MaxEvents = 2
  EditMax = 3
  Clients = {r1, r2}
  MaxRequests = 2
  Window = 2
  ClockMax = 5
INVARIANTS
  Fits
  WindowKept
  CharacterKept
PROPERTIES
  ProviderComesBack
  Recovers
  BatchEnds
  NotTooOld
CHECK_DEADLOCK FALSE
