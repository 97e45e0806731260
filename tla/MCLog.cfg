\* Two threads and two events of two levels, stderr and up to two callbacks.
CONSTANTS
  Threads = {t1, t2}
  Nobody = nobody
  Levels = {0, 1}
  MAX_CALLBACKS = 2
  MaxEvents = 2
SPECIFICATION FairSpec
INVARIANTS
  TypeOK
  WholeLines
  SinksAgree
  Delivered
PROPERTY LogReturns
