SPECIFICATION FairSpec
CONSTANTS
  Sockets = {s}
  Fds = {f}
  EventSets = {{"IN"}, {"ERR"}, {"IN", "ERR"}}
  MaxSubs = 3
INVARIANTS PolledIsRegistered DispatchComplete
PROPERTIES ReadyIsCalled ServedAcrossRuns
CHECK_DEADLOCK FALSE
