SPECIFICATION Spec
CONSTANTS
  Value    = {a, b}
  None     = None
  Capacity <- MCCapacity
INVARIANTS
  NoTornValue
PROPERTY
  IsFifo
