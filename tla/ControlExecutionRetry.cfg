CONSTANTS
  Items <- MCItems
  Children <- MCChildren
  ShortName <- MCShortName
  Arguments <- MCArguments
  Filters <- MCFilters
  MaxParallel = 2
  MaxRows = 1
SPECIFICATION FairSpec
PROPERTY EveryCheckEnds
\* Execute ends, and a run of a cancelled check may be blocked for good
CHECK_DEADLOCK FALSE
