\* Two games, two consoles, five buttons, one change behind the shell.
CONSTANTS
  g1 = g1
  g2 = g2
  amiga = amiga
  apps = apps
  None = None
  Titles <- MCTitles
  Consoles <- MCConsoles
  SystemOf <- MCSystemOf
  Modes = {"Fresh", "Resume"}
  NestGames = {g1}
  Stocked = {g2}
  MaxPresses = 5
  MaxEdits = 1
SPECIFICATION ShellFairSpec
CHECK_DEADLOCK FALSE
PROPERTIES
  SelectionKept
  BrowseReturns
  NothingStale
  LaunchAsAsked
  QueueEmpties
  BackReachesHome
