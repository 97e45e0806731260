\* A documented claim the code does not meet: LongNamesAreCut.
CONSTANTS
  Short = {n1, n2}
  Long = {long}
  Services = {s1, s2}
  Blocks = {b1, b2, b3, b4}
  Nil = Nil
  Pointer = pointer
  MaxInbox = 2
SYMMETRY Symmetric
SPECIFICATION Spec
INVARIANT LongNamesAreCut
