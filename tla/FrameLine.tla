----------------------------- MODULE FrameLine -----------------------------
(***************************************************************************)
(* What SLIP, the header checksum and the CRC promise about one direction  *)
(* of the UART, and all that the frames of Ubcsp take for granted: frames  *)
(* come out as they were sent, in order, each at most once.  Any may be    *)
(* lost.                                                                   *)
(***************************************************************************)
EXTENDS Naturals, Sequences

CONSTANT Frame

VARIABLES
  sent,      \* every frame that was sent to its end, in order
  accepted,  \* every frame that came out, in order
  position   \* the number in sent of the last one that came out

vars == <<sent, accepted, position>>

Init ==
  /\ sent = <<>>
  /\ accepted = <<>>
  /\ position = 0

Send(f) ==
  /\ sent' = Append(sent, f)
  /\ UNCHANGED <<accepted, position>>

\* Frame k comes out; those between the last one and k are lost.
Deliver(k) ==
  /\ accepted' = Append(accepted, sent[k])
  /\ position' = k
  /\ UNCHANGED sent

Next ==
  \/ \E f \in Frame : Send(f)
  \/ \E k \in position + 1 .. Len(sent) : Deliver(k)

Spec == Init /\ [][Next]_vars

=============================================================================
