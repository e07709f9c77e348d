-------------------------- MODULE BcspRestartOrder --------------------------
(***************************************************************************)
(* Why restarts on a settled link bring no packet twice and none out of    *)
(* order: what the frames from an end, on the line and being clocked out,  *)
(* and the packets that came out have to do with each other, and what the  *)
(* two ends know of a restart that one of them has not noticed yet.        *)
(* RestartInStep is inductive, together with RestartTypeOK.                *)
(***************************************************************************)
EXTENDS BcspRestart, BcspWindow

SyncFrames == {f \in Frame : f.kind = "sync"}

\* Reliable data by the number of its packet, and by its own number.
Since(n) == {f \in ReliableFrames : f.packet.id >= n}
Before(n) == {f \in ReliableFrames : f.packet.id < n}
Numbered(n, s) == {f \in ReliableFrames : f.packet.id = n /\ f.seq = s}
Renumbered(n, s) == {f \in ReliableFrames : f.packet.id = n /\ f.seq # s}

\* In l and then x the packets, of 1 .. n, come in the order they were submitted,
\* each under one sequence number only.
Ascending(l, x, n) ==
  /\ Without(l, x, Since(n + 1))
  /\ \A i \in 0 .. n : NeverBehind(l, x, Since(i), Before(i))
  /\ \A i \in 0 .. n, s \in 0 .. SeqModulus - 1 :
       NeverBehind(l, x, Numbered(i, s), Renumbered(i, s))

LastOf(d) == d[Len(d)]

\* Nothing in l and then x is older than the last packet of d, and that packet is
\* not in it under the number a, which would be taken for new.
NotAgain(l, x, a, d) ==
  d # <<>> => /\ Without(l, x, Before(LastOf(d)))
              /\ Without(l, x, Numbered(LastOf(d), a))

\* The packets from e keep their order and their numbers, even across a reset, and
\* what has come out will not come out again.
PacketsInOrder(e) ==
  LET s == config[e].sequence_number
      p == config[e].send_packet
      l == line[Other(e)]
      x == config[e].sending
      a == config[Other(e)].ack_number
      d == delivered[Other(e)]
  IN  /\ Ascending(l, x, packets[e])
      /\ NotAgain(l, x, a, d)
      /\ \A i \in 1 .. Len(d) : d[i] <= packets[e]
      /\ p # NoPacket => p.id = packets[e]
      /\ p.reliable => /\ Without(l, x, Renumbered(p.id, s))
                       /\ d # <<>> /\ p.id = LastOf(d) => s # a

\* RECEIVED is reported when the buffer is used, and the ACK of a link
\* establishment header is 0.
EngineInStep(e) ==
  /\ "RECEIVED" \in poll[e].activity => ~config[e].receive_packet
  /\ Without(line[Other(e)], config[e].sending, LeFrames \cap NotAcking(0))

\* e is at the beginning of an establishment and has heard nothing that it would
\* answer: it goes on sending SYNC, and has no packet.
BeginsAgain(e) ==
  LET c == config[e]
  IN  /\ c.link_establishment_state = uninitialized
      /\ c.link_establishment_packet = "sync"
      /\ c.link_establishment_resp = 0
      /\ c.sending \in {NoFrame, LeFrame("sync")}
      /\ c.send_packet = NoPacket
      /\ ~mayCall[e]
      /\ ~Sent(e)

\* e has restarted and the other end, active, has not taken a SYNC yet.  It sends
\* nothing of an establishment.
Unnoticed(e) ==
  LET c == config[e]
      d == config[Other(e)]
  IN  /\ BeginsAgain(e)
      /\ d.link_establishment_state = active
      /\ d.link_establishment_packet = "none"
      /\ d.link_establishment_resp = 0
      /\ Without(line[e], d.sending, LeFrames)
      /\ Without(line[Other(e)], c.sending, LeFrames \ SyncFrames)
      /\ NeverBehind(line[Other(e)], c.sending, SyncFrames, DataFrames)

\* An end that restarts on a settled link is noticed before anything else of the
\* new establishment happens; from then on both are in the same one
\* (ubcsp_recevied_packet, the branch that returns PEER_RESET).
RestartInStep ==
  /\ DeliveredInOrder
  /\ \A e \in End : PacketsInOrder(e) /\ EngineInStep(e)
  /\ Handshake \/ \E e \in End : Unnoticed(e)

=============================================================================
