CONSTANTS
  t1 = t1
  t2 = t2
  Threads = {t1, t2}
  initial_thread = t1
  idle_thread = idle
  TIME_SLICE = 2
  Irqs = {32, 39, 46}
  Handled = {32, 46}
  MaxSleep = 1
SPECIFICATION Spec
INVARIANT ContextAccurate
PROPERTIES RequestsServed Preempted
