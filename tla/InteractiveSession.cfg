CONSTANTS
  Lines = {"empty", "partial", "exit", "setting", "searchPath", "query"}
  MaxLines = 3
  MaxRows = 1
SPECIFICATION FairSpec
INVARIANTS TypeOK PromptAfterResults CleanExit
PROPERTIES LinesAndExitEnd
\* the session really ends, and a prompt may be stuck for good
CHECK_DEADLOCK FALSE
