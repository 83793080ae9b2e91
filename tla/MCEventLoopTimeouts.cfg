SPECIFICATION FairSpec
CONSTANTS
  TicksPerMs = 2
  Health = 2
  Delays = {0, 1, 3}
  TimePoints = {2}
  MaxTime = 4
  MaxTimeouts = 3
INVARIANTS PassIsFinite PollBounds
PROPERTIES ImplementsService TimeoutIsExecuted
CHECK_DEADLOCK FALSE
