\* Is a prompt given the blocks its own builders make?
SPECIFICATION CacheSpec
CONSTANTS
  Builders = {t1}
  Prompts = {"drive", "reply"}
  Blocks = {"identity", "memory"}
  Static = {"identity"}
  Ttl = 2
  MaxBlocks = 2
  HourMax = 3
INVARIANT OwnBlock
CHECK_DEADLOCK FALSE
