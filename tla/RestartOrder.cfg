\* The chip restarts between or under the packets of the host; the engines never wait.
SPECIFICATION RestartSpec
CONSTANTS
  SeqModulus = 2
  PollDelay = 0
  LineMax = 1
  MaxPackets <- HostTwo
  Reliability <- AllReliable
  MaxNoise <- None
  MaxRestarts <- ChipOne
  OnlySettled = TRUE
INVARIANTS
  RestartTypeOK
  DeliveredInOrder
  LossBounded
  RestartInStep
