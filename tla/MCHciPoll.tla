----------------------------- MODULE MCHciPoll -----------------------------
(* HciPoll and HciTurn for TLC: the operations are numbered from one; how  *)
(* many frames are damaged or lost, as functions on End.                   *)
EXTENDS HciTurn

NumberedOps == 1 .. MaxOps

None == [host |-> 0, chip |-> 0]
ChipOne == [host |-> 0, chip |-> 1]

=============================================================================
