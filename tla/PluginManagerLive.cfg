CONSTANTS
  r1 = r1
  r2 = r2
  r3 = r3
  Connections <- MCConnections
  Requests <- MCTwoRequests
  Calls <- MCFewCalls
  Req <- MCReq
  Conn <- MCConn
  ConfigMaps <- MCConfigMaps
  Nil = Nil
SPECIFICATION FairSpec
PROPERTY EveryGetEnds
\* the manager really stops: it is killed, or it crashes
CHECK_DEADLOCK FALSE
