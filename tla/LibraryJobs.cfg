\* A game of Nest, two jobs of any kind, two mishaps.
CONSTANTS
  Games = {n}
  NestGames = {n}
  Types = {"scan", "identify", "build_thumb", "scrape"}
  None = None
  MaxJobs = 2
  MaxEvents = 2
SPECIFICATION FairSpec
CHECK_DEADLOCK FALSE
INVARIANTS
  ClaimedOnce
  ShownArtExists
PROPERTY JobsEnd
