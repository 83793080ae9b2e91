SPECIFICATION FairSpec
CONSTANTS
  Hwm = 2
  MaxMsgs = 2
INVARIANT NoSpuriousError
PROPERTIES AloneIsServed CloseUnblocks
CHECK_DEADLOCK FALSE
