CONSTANTS
  Nodes <- MCNodes
  Root = "dashboard"
  Children <- MCChildren
  Containers <- MCContainers
  Checks <- MCChecks
  Queries <- MCQueries
SPECIFICATION FairSpec
INVARIANTS
  TypeOK
  NoSendBlocks
PROPERTIES
  Implements
  
CHECK_DEADLOCK FALSE
