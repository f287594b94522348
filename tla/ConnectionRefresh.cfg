CONSTANTS
  Files = {"aws", "gcp"}
  FirstFiles = {"aws"}
  MaxChanges = 2
  MaxCommands = 1
SPECIFICATION FairSpec
INVARIANTS
  TypeOK
  StateFileTrue
  RefreshApplied
PROPERTIES
  ChangesNoticed
CHECK_DEADLOCK FALSE
