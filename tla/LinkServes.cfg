\* A packet of the host; a frame each way lost or damaged, so the packet, its acknowledgement or
\* a message of the establishment.
SPECIFICATION FairSpec
CONSTANTS
  SeqModulus = 2
  PollDelay = 0
  LineMax = 1
  MaxPackets <- HostOne
  Reliability <- AllReliable
  MaxNoise <- OneEach
PROPERTIES
  LinkServes
