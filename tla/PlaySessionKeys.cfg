\* Two identities of ROM and core that replace each other between launches.
CONSTANTS
  Keys = {k1, k2}
  Names = {rom}
  DefaultName = rom
  Slots = {}
  None = None
  MaxSessions = 2
  ReplaceMidLaunch = FALSE
SPECIFICATION FairSpec
CHECK_DEADLOCK FALSE
INVARIANT
  TiedToIdentity
PROPERTY
  ShellReturns
