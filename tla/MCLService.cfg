\* The Lua layer: one name (and one too long), two services, four packed blocks.
CONSTANTS
  Short = {n1}
  Long = {long}
  Services = {s1, s2}
  Blocks = {b1, b2, b3, b4}
  Nil = Nil
  Pointer = pointer
  MaxInbox = 2
SYMMETRY Symmetric
SPECIFICATION Spec
INVARIANTS
  TypeOK
  OneOwner
PROPERTY LostOnce
