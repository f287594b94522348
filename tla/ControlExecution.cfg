CONSTANTS
  Items <- MCItems
  Children <- MCChildren
  ShortName <- MCShortName
  Arguments <- MCArguments
  Filters <- MCFilters
  MaxParallel = 2
  MaxRows = 1
SPECIFICATION FairSpec
INVARIANTS TypeOK ReportedOnce AllRunsOver 
PROPERTIES CheckEnds
\* Execute ends, and a run of a cancelled check may be blocked for good
CHECK_DEADLOCK FALSE
