CONSTANTS
  HEAP_START = 32
  HEAP_SIZE = 108
  HDR = 12
  SPLIT_SLACK = 16
  WORD = 256
  MAX_FILES = 3
  MAX_FILE_SIZE = 60
  Names <- MCNames
  Stored <- MCStored
  Contents <- MCContents
  ContentSize <- MCContentSize
  DefaultFiles <- MCDefaultFiles
  NoName = unnamed
  NoContent = nothing
  a = a b = b d = d nothing = nothing unnamed = unnamed
  small = small middle = middle large = large huge = huge
SPECIFICATION Spec
INVARIANTS OneOwnerPerBlock ContentInBlock
PROPERTIES OneFileAtATime ImplementsFileStore
