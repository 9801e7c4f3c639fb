CONSTANTS
  pad = pad
  board = board
  event0 = event0
  event1 = event1
  None = None
  Ports <- MCPorts
  Pads = {pad, board}
  Removable = {}
  GamepadScore <- MCGamepadScore
  KeyboardScore <- MCKeyboardScore
  Keys <- MCKeys
  Repeating = {board}
  Mice = {}
  InitiallyAt <- MCInitiallyAt
  CaptureOrder <- MCCaptureOrder
  Mandatory = 1
  MaxMoves = 3
  MaxGames = 1
SPECIFICATION Spec
INVARIANT
  ReleaseHidesPanel
CHECK_DEADLOCK FALSE
