CONSTANTS
  HEAP_START = 32
  HEAP_SIZE = 108
  HDR = 12
  SPLIT_SLACK = 16
  WORD = 256
  MAX_FILES = 3
  MAX_FILE_SIZE = 60
  Names <- MCNames
  Stored <- MCStored
  Contents <- MCContents
  ContentSize <- MCContentSize
  DefaultFiles <- MCDefaultFiles
  NoName = unnamed
  cut = cut long = long unnamed = unnamed small = small
SPECIFICATION Spec
INVARIANT UniqueNames
