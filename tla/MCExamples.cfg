SPECIFICATION FairSpec
CONSTANTS
  Clients = {c}
  Server = Server
  Stranger = Stranger
  Rounds = 2
  MaxStrange = 1
  StrangeKinds = {"multiple", "thrift"}
INVARIANTS TypeOK ReplyIsForRequest GetFollowsSet
PROPERTIES ClientExits SignalEndsServer
CHECK_DEADLOCK FALSE
