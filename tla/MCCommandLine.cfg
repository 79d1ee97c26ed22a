CONSTANTS
  HEAP_START = 32
  HEAP_SIZE = 64
  HDR = 12
  SPLIT_SLACK = 16
  WORD = 256
  MAX_FILES = 2
  MAX_FILE_SIZE = 6
  Names <- MCNames
  Stored <- MCStored
  Contents <- MCContents
  ContentSize <- MCContentSize
  ContentRows <- MCContentRows
  DefaultFiles <- MCDefaultFiles
  LINE_MAX = 8
  Chars <- MCChars
  HEIGHT = 150
  COLS = 9
  HINT = 3
  Lines <- MCLines
  unnamed = unnamed
  NoName = unnamed
SPECIFICATION LineSpec
CHECK_DEADLOCK FALSE
INVARIANTS LineTypeOK TextAtCursor OverrunOnlyByFileName
PROPERTY CompletionSound
