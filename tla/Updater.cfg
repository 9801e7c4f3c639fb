\* Two commits, two restarts, four runs of the script, one accident.
CONSTANTS
  Commits = {v1, v2}
  Shipped = v1
  None = None
  MaxBoots = 2
  MaxScripts = 4
  MaxEvents = 1
SPECIFICATION FairSpec
CHECK_DEADLOCK FALSE
INVARIANT
  VersionTrue
PROPERTIES
  LossReported
  ScreenFrees
