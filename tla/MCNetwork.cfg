CONSTANTS
  NUM_TX_DESC = 3
  NUM_RX_DESC = 3
  Commands <- OnlyPing
  Senders <- MCSenders
  MaxSends = 6
  MaxFrames = 5
  Typed <- MCTyped
  CardMac = card
  FallbackMac = fallback
  NoMac = none
SPECIFICATION NetworkSpec
CHECK_DEADLOCK FALSE
INVARIANTS WholePacketsInOrder SentWasSent FramesOnceInOrder ReceiveNeverWedges
INVARIANTS ChecksumsVerify SourceIsCard LoggedAsTyped
