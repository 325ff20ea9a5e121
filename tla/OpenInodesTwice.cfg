CONSTANTS
  Threads = {t1, t2}
  t1 = t1
  t2 = t2
  Sectors = {s1}
  s1 = s1
  Addresses = {a1, a2}
  a1 = a1
  a2 = a2
  MaxRefs = 2
  NULL = NULL
SPECIFICATION Spec
INVARIANT
  OneInode
