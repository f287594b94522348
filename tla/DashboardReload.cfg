CONSTANTS
  Clients = {c1}
  Dashboards = {d1, d2}
  Runs = {r1, r2}
  MaxChanges = 2
  MaxSelects = 2
  Conditions = {"valid", "unresolved", "workspaceInput"}
  NONE = NONE
SPECIFICATION ServerSpec
INVARIANT ReloadNeverRelocks
CHECK_DEADLOCK FALSE
