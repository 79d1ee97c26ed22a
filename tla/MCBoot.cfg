CONSTANTS
  VGA_WIDTH = 3
  VGA_HEIGHT = 2
  TAB = 2
  BYTE = 4
  Loaders <- MCLoaders
  Message <- MCMessage
  Keys <- MCKeys
  MaxKeys = 3
SPECIFICATION BootSpec
CHECK_DEADLOCK FALSE
INVARIANTS ScreenShowsText CursorTrue EveryTagSeen
