\* Two threads, two names, two services and two pointers of variables; safety and liveness.
CONSTANTS
  Threads = {t1, t2}
  Nobody = nobody
  Names = {n1, n2}
  Services = {s1, s2}
  Variables = {p1, p2}
  NULL = NULL
SPECIFICATION FairSpec
INVARIANTS
  TypeOK
  LookupsAgree
  FiledUnderName
PROPERTIES
  DirectorySpec
  CallsReturn
