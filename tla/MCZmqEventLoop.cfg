SPECIFICATION FairSpec
CONSTANTS
  t1 = t1
  t2 = t2
  Threads = {t1, t2}
  Owner = Owner
  NoThread = NoThread
  Capacity = 1
  MaxRuns = 2
  MaxStops = 1
  MaxCalls = 2
INVARIANTS NoLostWakeup EveryReturnHasAStop
PROPERTIES InOrderExactlyOnce StopEndsRun CallbackIsExecuted
CHECK_DEADLOCK FALSE
