CONSTANTS
  t1 = t1
  t2 = t2
  l1 = l1
  c1 = c1
  s1 = s1
  Threads = {t1, t2}
  initial_thread = t1
  idle_thread = idle
  TIME_SLICE = 2
  Semas = {s1}
  Locks = {l1}
  Conds = {c1}
  CondLock <- MCCondLock
  NULL = NULL
  MaxValue = 1
SPECIFICATION FairSpec
PROPERTIES RoundRobin WakeupDelivered
