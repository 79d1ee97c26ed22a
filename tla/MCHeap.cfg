CONSTANTS
  HEAP_START = 32
  HEAP_SIZE = 96
  HDR = 12
  SPLIT_SLACK = 16
  WORD = 1024
  Requests <- MCRequests
  PAGE = 32
  MaxPages = 2
SPECIFICATION Spec
INVARIANTS TypeOK BlocksTileHeap FullyCoalesced HeldExactlyUsed GrantCoversRequest
INVARIANTS RefusesOnlyWhenFull StatsExact
PROPERTIES HeldBlocksStay ImplementsAllocator
