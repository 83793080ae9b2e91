SPECIFICATION FairSpec
CONSTANTS
  a = a
  Names = {a}
  Uptime = uptime
  Stats = {}
  MaxLogEvents = 2
  Interval = 1
  Profiling = 3
  MaxTime = 3
  Clients = {c, d}
  SetParams <- OneSet
  BumpLists <- OneBump
  Logs <- TwoLogs
  SampleToMerge <- Common
  Foreign = {"unknown", "malformed"}
  MaxRequests = 3
INVARIANTS LastLogsAreKept SenderPrevails PurgeIsTimely ReplyMatches ReadYourWrites
PROPERTIES PullAgreesWithPush QueryReturns
CHECK_DEADLOCK FALSE
