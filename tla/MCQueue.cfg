\* Lock-free ring: one writer, one reader, one observer.
CONSTANTS
  Size = 4
  Values = {v1, v2}
  NULL = NULL
  Observers = {o1}
SYMMETRY Symmetric
SPECIFICATION Spec
INVARIANTS
  TypeOK
  AssertsHold
  NoSlotRace
  OwnerLengthBounds
PROPERTY FifoSpec
