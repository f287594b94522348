SPECIFICATION ModSpec
CONSTANTS
  Mods <- MCMods
  Versions = {1, 2}
  Requires <- MCRequires
  Args <- MCArgs
  MaxModCommands = 2
PROPERTIES DryRunKeepsInstalled
CHECK_DEADLOCK FALSE
