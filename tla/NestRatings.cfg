\* Requests and answers that are lost or late, writes that fail and power that
\* goes, at any step; a store that confirms now and then.
CONSTANTS
  Games = {g1, g2}
  MaxStars = 2
  MaxChanges = 3
  Faults = {"stop", "late"}
  None = None
SPECIFICATION LiveSpec
INVARIANT
  RatingsTrue
PROPERTIES
  ImportLosesNone
  StarsArrive
