CONSTANTS
  HEAP_START = 32
  HEAP_SIZE = 108
  HDR = 12
  SPLIT_SLACK = 16
  WORD = 256
  MAX_FILES = 2
  MAX_FILE_SIZE = 6
  CMD_MAX = 2
  Names <- MCNames
  Stored <- MCStored
  Contents <- MCContents
  ContentSize <- MCContentSize
  Downloads <- MCDownloads
  DefaultFiles <- MCDefaultFiles
  NoName = unnamed
  a = a b = b d = d unnamed = unnamed
SYMMETRY OtherNames
SPECIFICATION ShellSpec
INVARIANTS EditFits LineNumberExact SavedIsReadable WritesNeverFail
