\* Two operations, at most one event per command, a wait that is given up, a frame to the chip
\* lost or damaged once the device is open.
SPECIFICATION FairSpec
CONSTANTS
  SeqModulus = 2
  PollDelay = 1
  LineMax = 1
  QueueSlots = 2
  MaxOps = 2
  Op <- NumberedOps
  MaxUnsolicited = 1
  MaxTimeouts = 1
  Patient = TRUE
  Answers = {"complete", "nothing"}
  MaxNoise <- ChipOne
  NoisyPhases = {"polling"}
INVARIANTS
  TypeOK
  QueueKeepsOrder
  InTurn
PROPERTIES
  CommandsReliable
  EveryOpArrives
