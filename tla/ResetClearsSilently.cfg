\* The SYNC of a reset chip acknowledges the outstanding packet.
SPECIFICATION RestartSpec
CONSTANTS
  SeqModulus = 2
  PollDelay = 1
  LineMax = 1
  MaxPackets <- HostTwo
  Reliability <- AllReliable
  MaxNoise <- None
  MaxRestarts <- ChipOne
  OnlySettled = TRUE
PROPERTIES
  ClearedIsReported
