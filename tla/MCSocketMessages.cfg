SPECIFICATION FairSpec
CONSTANTS
  Sizes = {1, 2, 3}
  Wanted = {1, 2}
  Modes = {"blocking", "nonblocking"}
  Hwm = 2
  MaxParts = 5
INVARIANTS RestHasArrived CallsAreAtomic ReturnsOneMessage
PROPERTIES ReceiveEnds ImplementsChannel
CHECK_DEADLOCK FALSE
