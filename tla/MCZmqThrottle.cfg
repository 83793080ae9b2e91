SPECIFICATION ThrottleFairSpec
CONSTANTS
  Timers = {a, b}
  Throttles = {a}
  Periods = {0, 2}
  Rates = {0, 2}
  MaxTime = 4
  MaxTimeouts = 3
PROPERTIES ExpiryIsCurrent ScheduledExpires AtMostOncePerRate CallIsExecuted
CHECK_DEADLOCK FALSE
