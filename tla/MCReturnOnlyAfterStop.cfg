SPECIFICATION Spec
CONSTANTS
  t1 = t1
  t2 = t2
  Threads = {t1, t2}
  Owner = Owner
  NoThread = NoThread
  Capacity = 1
  MaxRuns = 2
  MaxStops = 2
  MaxCalls = 2
SYMMETRY Symmetry
INVARIANT ReturnOnlyAfterStop
CHECK_DEADLOCK FALSE
