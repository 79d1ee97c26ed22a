CONSTANTS
  BUFFER_SIZE = 3
  Setups <- OnlyAsBuilt
  MaxBytes = 3
SPECIFICATION Spec
PROPERTY AddedKeyIsBuffered
