\* The chip restarts on a settled link.
SPECIFICATION RestartFairSpec
CONSTANTS
  SeqModulus = 2
  PollDelay = 1
  LineMax = 1
  MaxPackets <- None
  Reliability <- AllReliable
  MaxNoise <- None
  MaxRestarts <- ChipOne
  OnlySettled = TRUE
PROPERTIES
  LinkRecovers
