CONSTANTS
  r1 = r1
  r2 = r2
  r3 = r3
  Connections <- MCConnections
  Requests <- MCRequests
  Calls <- MCCalls
  Req <- MCReq
  Conn <- MCConn
  ConfigMaps <- MCOneConfig
  Nil = Nil
SYMMETRY MCSymmetry
SPECIFICATION Spec
INVARIANTS TypeOK SoleStarter NoLostProcess LoadedHasProcess CallersAgree
PROPERTY ShutdownKillsAll
\* the manager really stops: it is killed, or it crashes
CHECK_DEADLOCK FALSE
