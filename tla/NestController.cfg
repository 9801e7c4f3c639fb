\* A game for everybody, of the legacy format, and one that the PIN hides; the
\* worker and the polling of the shell are fair.
CONSTANTS
  mild = mild
  adult = adult
  Games = {mild, adult}
  Mature = {adult}
  Legacy = {mild}
  None = None
SPECIFICATION FairSpec
VIEW LiveState
INVARIANT
  LockHolds
PROPERTIES
  TransfersKept
  Settles
