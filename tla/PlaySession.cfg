\* One identity, two basenames (an archive's and its content's), two manual
\* slots and three launches: a rotation, a crash in it, and a resume after it.
CONSTANTS
  Keys = {k1}
  Names = {rom, inner}
  DefaultName = rom
  Slots = {s0, s1}
  None = None
  MaxSessions = 3
  ReplaceMidLaunch = FALSE
SPECIFICATION Spec
CHECK_DEADLOCK FALSE
INVARIANTS
  StateNameMatches
  ResumesWhatWasSaved
  StatusIsTrue
  ManualSlotsKept
PROPERTY
  StoreSpec
