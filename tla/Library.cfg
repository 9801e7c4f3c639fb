\* A game on a drive that comes and goes, two scanners, a crash of the daemon.
CONSTANTS
  Games = {g}
  Card = Card
  Drive = Drive
  None = None
  MaxEvents = 3
SPECIFICATION FairSpec
CHECK_DEADLOCK FALSE
PROPERTIES
  CatalogKept
  DeletedForgotten
  CatalogCurrent
