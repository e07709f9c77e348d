-------------------------- MODULE ReliableChannel --------------------------
(***************************************************************************)
(* What a BCSP link promises to its two users about the reliable packets   *)
(* of one direction: packets are submitted one at a time, come out once    *)
(* each and in order, and are reported sent only after they have come out. *)
(***************************************************************************)
EXTENDS Naturals, Sequences

CONSTANT Message

VARIABLES
  submitted,  \* every message handed to the channel, in order
  delivered,  \* every message that came out, in order
  confirmed   \* how many of them were reported sent

vars == <<submitted, delivered, confirmed>>

Init ==
  /\ submitted = <<>>
  /\ delivered = <<>>
  /\ confirmed = 0

\* The window is one: nothing is submitted while a message is unconfirmed.
Submit(m) ==
  /\ confirmed = Len(submitted)
  /\ submitted' = Append(submitted, m)
  /\ UNCHANGED <<delivered, confirmed>>

Deliver ==
  /\ Len(delivered) < Len(submitted)
  /\ delivered' = Append(delivered, submitted[Len(delivered) + 1])
  /\ UNCHANGED <<submitted, confirmed>>

Confirm ==
  /\ confirmed < Len(delivered)
  /\ confirmed' = confirmed + 1
  /\ UNCHANGED <<submitted, delivered>>

Next ==
  \/ \E m \in Message : Submit(m)
  \/ Deliver
  \/ Confirm

Spec == Init /\ [][Next]_vars

=============================================================================
