SPECIFICATION FairSpec
CONSTANTS
  Width = 4
  Head0 = 10
  Head1 = 5
  End0 = 14
  MaxLength = 2
  XorByte <- XorBits
  Frames <- AnyFrames
  MaxFrames = 3
  MaxFaults = 0
INVARIANTS PayloadsInOrder DispatchedHeadersTrue
PROPERTIES EveryFrameDelivered
