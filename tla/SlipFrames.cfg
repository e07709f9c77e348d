\* One fault of each kind; a frame of the header alone, one of octets that are escaped, and one too long.
SPECIFICATION Spec
CONSTANTS
  CalcCrc <- ubcsp_calc_crc
  CrcReverse <- ubcsp_crc_reverse
  Frame <- ThreeFrames
  ReceiveLength = 4
  Stray = {1, 192}
  Noise = {5, 192, 219}
  WireMax = 2
  MaxFrames = 3
  MaxDrops = 1
  MaxNoise = 1
INVARIANTS
  TypeOK
  ReadsInside
PROPERTIES
  AcceptedAsSent
  WholeIsAccepted
  CrcIsCcitt
