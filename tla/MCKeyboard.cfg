CONSTANTS
  BUFFER_SIZE = 3
  Setups <- MCSetups
  MaxBytes = 4
SPECIFICATION FairSpec
INVARIANTS NoStaleKeyReadable GetcharNeverBlocks PolledInOrder
PROPERTIES RingDrains PolledEventually
