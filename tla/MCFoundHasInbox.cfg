\* A documented claim the code does not meet: FoundHasInbox.
CONSTANTS
  Threads = {t1, t2}
  Nobody = nobody
  Names = {n1, n2}
  Services = {s1, s2}
  Variables = {p1, p2}
  NULL = NULL
SPECIFICATION Spec
INVARIANT FoundHasInbox
