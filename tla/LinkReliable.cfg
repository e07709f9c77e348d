\* Packets both ways, unreliable ones among those of the chip; a frame to the host lost or damaged.
SPECIFICATION Spec
CONSTANTS
  SeqModulus = 2
  PollDelay = 1
  LineMax = 1
  MaxPackets <- TwoOne
  Reliability <- ChipMixed
  MaxNoise <- HostOne
INVARIANTS
  TypeOK
  NoSyncToActive
  Handshake
  ActiveAgreement
  LeUntilActive
  WindowOfOne
PROPERTIES
  HostToChipReliable
  ChipToHostReliable
