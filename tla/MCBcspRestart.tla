--------------------------- MODULE MCBcspRestart ---------------------------
(* BcspRestart for TLC: bounds as functions on End.                        *)
EXTENDS BcspRestartLoss

None == [host |-> 0, chip |-> 0]
HostOne == [host |-> 1, chip |-> 0]
HostTwo == [host |-> 2, chip |-> 0]
ChipOne == [host |-> 0, chip |-> 1]
OneEach == [host |-> 1, chip |-> 1]

AllReliable == [host |-> {TRUE}, chip |-> {TRUE}]

=============================================================================
