SPECIFICATION MCSpec
CONSTANTS
  Plugins = {"aws", "gcp"}
  OldPlugins = {"aws"}
  Terminals = {t1, t2}
  MaxDigest = 2
  MaxCommands = 3
  MaxFaults = 1
  Shells = {1, 2}
  MaxRelease = 2
  MaxRuns = 4
  Mods <- MCMods
  Versions = {1, 2}
  Requires <- MCRequires
  Args <- MCArgs
  MaxModCommands = 2
  Blocks = {"locals", "query", "control", "dashboard"}
  Defines <- MCDefines
  MayRefer <- MCMayRefer
  Dashboard = "dashboard"
  Child = "chart"
  MaxRefs = 1
  MaxGiven = 2
  MaxEdits = 2
  Texts <- MCTexts
  Placeholders <- MCPlaceholders
  Runners = {1, 2}
  Backends = {1, 2, 3}
  MaxQueries = 2
  MaxTextEdits = 2
  Connections = {"aws", "gcp"}
  Sorted <- MCSorted
  Configs <- MCConfigs
  Flags <- MCFlags
  LinePaths <- MCLinePaths
  OwnPaths <- MCOwnPaths
  Pids = {1, 2, 3}
  MaxSearches = 2
  MaxConfigEdits = 1
INVARIANTS TypeOK  InstalledIsUsable   LoadedIfValid  PathsFollowSettings
VIEW View
CHECK_DEADLOCK FALSE
