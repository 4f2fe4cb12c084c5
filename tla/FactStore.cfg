SPECIFICATION Spec
CONSTANTS
  k1 = k1
  k2 = k2
  k3 = k3
  v1 = v1
  v2 = v2
  NoValue = NoValue
  Keys = {k1, k2, k3}
  Values = {v1, v2}
  Claimed = {40, 90}
  Fades = {15, 80}
  MaxFacts = 2
  MaxBatch = 2
  MaxWork = 5
SYMMETRY Symmetry
CHECK_DEADLOCK FALSE
INVARIANTS
  HonestConfidence
  ActiveFresh
PROPERTIES
  OneRemark
  MergeKept
