\* The chip restarts while the host still has a CONF to answer.
SPECIFICATION RestartSpec
CONSTANTS
  SeqModulus = 2
  PollDelay = 1
  LineMax = 2
  MaxPackets <- None
  Reliability <- AllReliable
  MaxNoise <- None
  MaxRestarts <- ChipOne
  OnlySettled = FALSE
INVARIANTS
  LeUntilActive
