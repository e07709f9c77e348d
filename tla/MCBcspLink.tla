----------------------------- MODULE MCBcspLink -----------------------------
(* BcspLink for TLC: bounds on packets and on noise, as functions on End.  *)
EXTENDS BcspWindow

None == [host |-> 0, chip |-> 0]
HostOne == [host |-> 1, chip |-> 0]
HostTwo == [host |-> 2, chip |-> 0]
ChipOne == [host |-> 0, chip |-> 1]
OneEach == [host |-> 1, chip |-> 1]
TwoOne == [host |-> 2, chip |-> 1]

AllReliable == [host |-> {TRUE}, chip |-> {TRUE}]
ChipMixed == [host |-> {TRUE}, chip |-> {TRUE, FALSE}]

=============================================================================
