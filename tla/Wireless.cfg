CONSTANTS
  home = home
  cafe = cafe
  pad = pad
  clock = clock
  None = None
  Networks = {home, cafe}
  Secured = {home, cafe}
  Devices <- MCDevices
  KindOf <- MCKindOf
  Paired = {pad, clock}
  KeyCount = 4
  KeyColumns = 2
  LetterCount = 3
  LetterColumns = 2
  MaxPassword = 1
  MaxButtons = 7
  MaxChanges = 1
SPECIFICATION WirelessSpec
INVARIANTS
  IndexInRange
  PasswordOwn
  ActsOnSelected
PROPERTIES
  ForgetConfirmed
CHECK_DEADLOCK FALSE
