SPECIFICATION FairSpec
CONSTANTS
  Hwm = 2
  MaxMsgs = 2
PROPERTIES ReaderIsWoken
CHECK_DEADLOCK FALSE
