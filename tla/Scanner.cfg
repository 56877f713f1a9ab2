CONSTANTS
  Camera = {c1, c2}
  NoCamera = NoCamera
  Focusing = {c2}
  Torches = {c1, c2}
  Zooms = {c2}
  Rare = {}
  MaxAttempts = 2
SPECIFICATION ScannerSpec
CHECK_DEADLOCK FALSE
INVARIANTS NothingLeftRunning ButtonsTellTheCamera
PROPERTIES OnlyTheCurrentHands
