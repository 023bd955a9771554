CONSTANTS
  Jobs = {j1, j2}
  Workers = {w1, w2}
  NoJob = NoJob

SPECIFICATION Spec

CHECK_DEADLOCK FALSE

INVARIANTS
  ObjectsFreed
  OnlyCloseMatters

PROPERTIES
  Settled
