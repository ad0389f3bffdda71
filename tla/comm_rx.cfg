CONSTANTS
  SOF0 = 165
  SOF1 = 90
  Crc <- Crc16
  Script <- Commands
  Depth = 2
  Damaged <- Noise
  MaxDamaged = 1
  MaxLost = 1

SPECIFICATION Spec

INVARIANTS
  OnlyWholePass
  AgreesWithBlockDecoder
  IntactIsDelivered
  NeverDeaf

PROPERTY ImplementsFrameStream
