----------------------------- MODULE BcspWindow -----------------------------
(***************************************************************************)
(* Why a MicroBCSP link is a reliable channel in each direction: what the  *)
(* sequence and acknowledgement numbers of the two engines of BcspLink,    *)
(* the frames being clocked out and the frames on the line have to do with *)
(* the packets submitted, delivered and reported sent.  WindowOfOne is     *)
(* inductive, together with TypeOK and Handshake of BcspLink, and each of  *)
(* the steps it allows is one of ReliableChannel.                          *)
(*                                                                         *)
(* The frames from e on their way to Other(e) are those of                 *)
(* line[Other(e)] and, behind them, config[e].sending.                     *)
(***************************************************************************)
EXTENDS BcspLink

\* A frame of S is among those of l.
Has(l, S) == \E i \in 1 .. Len(l) : l[i] \in S

\* No frame of S is in l or is x, which comes behind it.
Without(l, x, S) == x \notin S /\ ~Has(l, S)

\* In l and then x, no frame of T comes behind one of S.
NeverBehind(l, x, S, T) ==
  /\ \A i, j \in 1 .. Len(l) : i < j /\ l[i] \in S => l[j] \notin T
  /\ Has(l, S) => x \notin T

\* Frames by what they mean to the engine that takes them.
LeFrames == {f \in Frame : f.kind \in LeMessage}
ConfFrames == {f \in Frame : f.kind = "conf"}
DataFrames == {f \in Frame : f.kind = "data"}
ReliableFrames == {f \in DataFrames : f.packet.reliable}

\* Reliable data an engine with ack_number a takes for new, and for old.
Fresh(a) == {f \in ReliableFrames : f.seq = a}
Stale(a) == {f \in ReliableFrames : f.seq # a}

\* The headers whose ACK counts, with ACK a and without.
Headers == {f \in Frame : f.kind \notin {"bad", "none"}}
Acking(a) == {f \in Headers : f.ack = a}
NotAcking(a) == {f \in Headers : f.ack # a}

\* c will start no link establishment message unless it takes a CONF.
Quiet(c) == c.link_establishment_packet = "none" /\ c.link_establishment_resp # 2

\* The engine and its caller at e agree: SENT is reported when there is no
\* packet any more, RECEIVED when the buffer is used, and before the link is
\* active there is no packet.
CallerInStep(e) ==
  LET c == config[e]
  IN  /\ mayCall[e] \/ Sent(e) => c.send_packet = NoPacket
      /\ c.send_packet # NoPacket => outstanding[e] = c.send_packet
      /\ "RECEIVED" \in poll[e].activity => ~c.receive_packet
      /\ c.link_establishment_state # active
           => /\ c.send_packet = NoPacket
              /\ outstanding[e] = NoPacket
              /\ ~mayCall[e]
              /\ ~Sent(e)

\* Of the packets e submitted all but the last are delivered and reported sent;
\* the numbers of the two engines tell whether the last one is, too.
Counted(e) ==
  LET c == config[e]
      n == confirmed[e]
      k == Len(delivered[Other(e)])
      m == Len(submitted[e])
  IN  /\ n <= k
      /\ k <= m
      /\ m <= n + 1
      /\ config[Other(e)].ack_number =
           IF k = n THEN c.sequence_number ELSE (c.sequence_number + 1) % SeqModulus
      /\ n = 0 => c.sequence_number = 0
      /\ c.send_packet.reliable <=> m = n + 1
      /\ c.send_packet.reliable => c.send_packet.id = submitted[e][m]

\* The data on its way from e: while the last packet is not delivered, what the
\* other end takes for new is that packet, and nothing old comes behind it; once
\* it is delivered, nothing is taken for new.
DataInOrder(e) ==
  LET l == line[Other(e)]
      x == config[e].sending
      a == config[Other(e)].ack_number
      m == Len(submitted[e])
  IN  IF Len(delivered[Other(e)]) = m
      THEN Without(l, x, Fresh(a))
      ELSE /\ Without(l, x, {f \in Fresh(a) : f.packet.id # submitted[e][m]})
           /\ NeverBehind(l, x, Fresh(a), Stale(a))
           /\ x \notin Stale(a)

\* The acknowledgements on their way to e: while the last packet is delivered
\* and not reported sent there are old ones, then those of that packet; else all
\* are old.
AcksInOrder(e) ==
  LET l == line[e]
      x == config[Other(e)].sending
      s == config[e].sequence_number
      a == config[Other(e)].ack_number
  IN  IF Len(delivered[Other(e)]) = confirmed[e]
      THEN Without(l, x, NotAcking(s))
      ELSE /\ Without(l, x, NotAcking(s) \cap NotAcking(a))
           /\ NeverBehind(l, x, Acking(a), NotAcking(a))
           /\ Has(l, Acking(a)) \/ x \in Acking(a) => Quiet(config[Other(e)])

\* The headers of link establishment have ACK 0, which would acknowledge any
\* packet but the first: none is on its way to e once a packet was reported
\* sent, because a CONF, which would call for one, never comes behind data.
EstablishmentOver(e) ==
  LET c == config[e]
      l == line[Other(e)]
  IN  /\ Without(line[e], config[Other(e)].sending, LeFrames \cap NotAcking(0))
      /\ confirmed[e] > 0
           => /\ Without(line[e], config[Other(e)].sending, LeFrames)
              /\ Quiet(config[Other(e)])
      /\ NeverBehind(l, c.sending, DataFrames, ConfFrames)
      /\ Has(l, DataFrames) \/ c.sending \in DataFrames \/ delivered[Other(e)] # <<>>
           => c.link_establishment_packet = "none"
      /\ delivered[Other(e)] # <<>> => Without(l, c.sending, ConfFrames)

\* At both ends and in both directions, what makes each packet come out once, in
\* order, and be reported sent only then (ubcsp_recevied_packet and
\* ubcsp_poll of ubcsp.c).
WindowOfOne ==
  \A e \in End :
    /\ CallerInStep(e)
    /\ Counted(e)
    /\ DataInOrder(e)
    /\ AcksInOrder(e)
    /\ EstablishmentOver(e)

=============================================================================
