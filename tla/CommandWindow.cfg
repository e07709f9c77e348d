\* A COMMAND STATUS before the COMMAND COMPLETE.
SPECIFICATION Spec
CONSTANTS
  SeqModulus = 2
  PollDelay = 1
  LineMax = 1
  QueueSlots = 2
  MaxOps = 2
  Op <- NumberedOps
  MaxUnsolicited = 1
  MaxTimeouts = 0
  Patient = TRUE
  Answers = {"status"}
  MaxNoise <- None
  NoisyPhases = {}
PROPERTIES
  OneCommandWindow
