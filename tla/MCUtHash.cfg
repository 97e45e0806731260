\* The hash table: four keys, every hash function into three values; with a
\* threshold of one, doublings of no use and the end of doubling are reached.
CONSTANTS
  Keys = {k1, k2, k3, k4}
  Pointers = {p1}
  Elements = {e1, e2, e3, e4}
  NULL = NULL
  Hashes = {0, 1, 4}
  HASH_INITIAL_NUM_BUCKETS = 1
  HASH_BKT_CAPACITY_THRESH = 1
  MaxBuckets = 16
SYMMETRY Symmetric
SPECIFICATION Spec
INVARIANTS
  TypeOK
  HASH_FSCK
  ListsAgree
PROPERTY MapSpec
