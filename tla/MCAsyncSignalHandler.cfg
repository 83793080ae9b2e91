SPECIFICATION SignalsFairSpec
CONSTANTS
  Handlers = {g, h}
  Stoppers = {g}
  Signals = {s, t}
  None = None
INVARIANTS ReadsDoNotBlock RegisteredIsDelivered
PROPERTY SignalIsHandled
CHECK_DEADLOCK FALSE
