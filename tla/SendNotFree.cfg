\* An event nobody asked for while a command is not acknowledged.
SPECIFICATION Spec
CONSTANTS
  SeqModulus = 2
  PollDelay = 1
  LineMax = 1
  QueueSlots = 2
  MaxOps = 2
  Op <- NumberedOps
  MaxUnsolicited = 2
  MaxTimeouts = 0
  Patient = TRUE
  Answers = {"complete"}
  MaxNoise <- None
  NoisyPhases = {}
PROPERTIES
  SendOnlyWhenFree
