SPECIFICATION NoisySpec
CONSTANTS
  Width = 3
  Head0 = 6
  Head1 = 2
  End0 = 7
  MaxLength = 5
  XorByte <- XorBits
  Frames <- PlainFrames
  MaxFrames = 3
  MaxFaults = 1
INVARIANTS TypeOK DamageContained Resyncs
