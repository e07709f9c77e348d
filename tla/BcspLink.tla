------------------------------ MODULE BcspLink ------------------------------
(***************************************************************************)
(* Two MicroBCSP engines joined by a noisy UART, each polled forever by a  *)
(* caller that keeps to the contract of ubcsp.h: ubcsp_send_packet only    *)
(* after ubcsp_poll reported SENT, and a new receive buffer as soon as it  *)
(* reported RECEIVED.  Neither end restarts.                               *)
(***************************************************************************)
EXTENDS Ubcsp

CONSTANTS
  MaxPackets,   \* bound: packets each end submits, a function on End
  Reliability,  \* Reliability[e]: the values of packet->reliable at e; {TRUE} in the daemon
  MaxNoise      \* bound: frames the line towards each end damages or loses

ASSUME MaxPacketsAssumption == MaxPackets \in [End -> Nat]
ASSUME ReliabilityAssumption == Reliability \in [End -> SUBSET BOOLEAN]
ASSUME MaxNoiseAssumption == MaxNoise \in [End -> Nat]

VARIABLES
  outstanding,  \* outstanding[e]: the packet the caller at e waits for
  mayCall,      \* mayCall[e]: SENT was reported since the last packet
  packets,      \* packets[e]: how many packets the caller at e has submitted
  submitted,    \* submitted[e]: history, the reliable ones in order
  delivered,    \* delivered[e]: history, reliable packets received at e
  confirmed,    \* confirmed[e]: history, how many of submitted[e] were SENT
  noise         \* noise[e]: frames towards e damaged or lost so far

callerVars == <<outstanding, mayCall, packets, submitted>>
vars == <<config, poll, line, outstanding, mayCall, packets, submitted,
          delivered, confirmed, noise>>

TypeOK ==
  /\ config \in [End -> Config]
  /\ poll \in [End -> Poll]
  /\ line \in [End -> Seq(Frame)]
  /\ outstanding \in [End -> Packet]
  /\ mayCall \in [End -> BOOLEAN]
  /\ packets \in [End -> Nat]
  /\ submitted \in [End -> Seq(Nat)]
  /\ delivered \in [End -> Seq(Nat)]
  /\ confirmed \in [End -> Nat]
  /\ noise \in [End -> Nat]

Init ==
  /\ config = [e \in End |-> FirstConfig]
  /\ poll = [e \in End |-> FirstPoll]
  /\ line = [e \in End |-> <<>>]
  /\ outstanding = [e \in End |-> NoPacket]
  /\ mayCall = [e \in End |-> FALSE]
  /\ packets = [e \in End |-> 0]
  /\ submitted = [e \in End |-> <<>>]
  /\ delivered = [e \in End |-> <<>>]
  /\ confirmed = [e \in End |-> 0]
  /\ noise = [e \in End |-> 0]

-----------------------------------------------------------------------------

\* The receive loop takes a frame.
Receive(e) ==
  LET new == poll'[e].activity \ poll[e].activity
  IN  /\ ReceiveStep(e)
      /\ confirmed' = [confirmed EXCEPT ![e] =
                         IF "SENT" \in new /\ outstanding[e].reliable THEN @ + 1 ELSE @]
      /\ delivered' = [delivered EXCEPT ![e] =
                         IF "RECEIVED" \in new /\ poll'[e].packet.reliable
                         THEN Append(@, poll'[e].packet.id) ELSE @]
      /\ UNCHANGED <<callerVars, noise>>

\* The poll returns and the caller polls again.
NextPoll(e) ==
  /\ TransmitStep(e, Returned(e), line[Other(e)])
  /\ mayCall' = [mayCall EXCEPT ![e] = @ \/ Sent(e)]
  /\ outstanding' = [outstanding EXCEPT ![e] = IF Sent(e) THEN NoPacket ELSE @]
  /\ UNCHANGED <<packets, submitted, delivered, confirmed, noise>>

\* The poll returns, the caller submits its next packet and polls again.
Submit(e) ==
  /\ mayCall[e] \/ Sent(e)
  /\ packets[e] < MaxPackets[e]
  /\ \E r \in Reliability[e], rest \in Abandoned(e) :
       LET p == [id |-> packets[e] + 1, reliable |-> r]
       IN  /\ TransmitStep(e, ubcsp_send_packet(Returned(e), p), line[Other(e)] \o rest)
           /\ outstanding' = [outstanding EXCEPT ![e] = p]
           /\ submitted' = [submitted EXCEPT ![e] = IF r THEN Append(@, p.id) ELSE @]
  /\ mayCall' = [mayCall EXCEPT ![e] = FALSE]
  /\ packets' = [packets EXCEPT ![e] = @ + 1]
  /\ UNCHANGED <<delivered, confirmed, noise>>

\* The oldest frame on its way to e is damaged, or lost: by the line, by an output
\* buffer that is full, or by the escape that a dropped transmission left over.
Noise(e) ==
  /\ noise[e] < MaxNoise[e]
  /\ line[e] # <<>>
  /\ \/ line' = [line EXCEPT ![e] = Tail(@)]
     \/ /\ Head(line[e]) # BadFrame
        /\ line' = [line EXCEPT ![e] = <<BadFrame>> \o Tail(@)]
  /\ noise' = [noise EXCEPT ![e] = @ + 1]
  /\ UNCHANGED <<config, poll, callerVars, delivered, confirmed>>

Step(e) == Receive(e) \/ NextPoll(e) \/ Submit(e)

Next == \E e \in End : Step(e) \/ Noise(e)

Spec == Init /\ [][Next]_vars

\* The callers poll in an endless loop, the receive loop takes what is there,
\* and a frame has finitely many octets.
FinishFrame(e) == SendLast(e, Returned(e), line[Other(e)]) /\ NextPoll(e)

Fairness ==
  \A e \in End :
    /\ WF_vars(NextPoll(e))
    /\ WF_vars(Receive(e))
    /\ SF_vars(FinishFrame(e))

FairSpec == Spec /\ Fairness

-----------------------------------------------------------------------------

\* No SYNC is on its way to an end that is active: the engine takes a SYNC on
\* an active link for a reset of the peer, and the SYNCs of the link's own
\* establishment must not be mistaken for one, however long they were delayed.
NoSyncToActive ==
  \A e \in End :
    config[e].link_establishment_state = active
      => \A i \in 1 .. Len(line[e]) : line[e][i].kind # "sync"

\* An end becomes active only when the other has at least seen the answer to
\* its own SYNC, so that the four messages are a handshake in both directions.
ActiveAgreement ==
  \A e \in End :
    config[e].link_establishment_state = active
      => config[Other(e)].link_establishment_state >= initialized

\* The transmit step falls through to CONF RESP, data and acknowledgements
\* only on an active link: until then next_le_packet always yields a message.
LeUntilActive ==
  \A e \in End :
    config[e].link_establishment_packet = "none"
       => config[e].link_establishment_state = active

\* Past the SYNCs: c has seen its own SYNC answered and will send no more.
PastSync(c) ==
  /\ c.link_establishment_state >= initialized
  /\ c.link_establishment_packet # "sync"
  /\ c.sending.kind # "sync"

Carries(l, kind) == \E i \in 1 .. Len(l) : l[i].kind = kind

\* No SYNC comes behind a CONF RESP.
SyncsFirst(l) ==
  \A i, j \in 1 .. Len(l) :
    l[i].kind = "conf_resp" /\ i < j => l[j].kind # "sync"

\* What an end decides to send suits its own state.
LeSuitsState(c) ==
  /\ c.link_establishment_resp = 2 => c.link_establishment_state >= initialized
  /\ c.link_establishment_packet = "none" => c.link_establishment_state = active
  /\ c.link_establishment_packet = "conf_resp" => c.link_establishment_state >= initialized
  /\ c.sending.kind = "conf_resp" => PastSync(c)

\* Why the three above hold: a CONF RESP is sent, in answer to a CONF, only by
\* an end past its SYNCs, so behind it on the line there is no SYNC either, and
\* the end that it makes active will never see one.
Handshake ==
  \A e \in End :
    LET isActive == config[e].link_establishment_state = active
    IN  /\ LeSuitsState(config[e])
        /\ SyncsFirst(line[e])
        /\ Carries(line[e], "conf_resp") \/ isActive => PastSync(config[Other(e)])
        /\ isActive => ~Carries(line[e], "sync")

\* The reliable packets of each direction: once each, in order, one at a time,
\* and reported SENT only when they have come out at the other end.
HostToChip == INSTANCE ReliableChannel WITH
  Message <- 1 .. MaxPackets["host"],
  submitted <- submitted["host"],
  delivered <- delivered["chip"],
  confirmed <- confirmed["host"]

ChipToHost == INSTANCE ReliableChannel WITH
  Message <- 1 .. MaxPackets["chip"],
  submitted <- submitted["chip"],
  delivered <- delivered["host"],
  confirmed <- confirmed["chip"]

\* What the host sends comes out at the chip as ReliableChannel promises.
HostToChipReliable == HostToChip!Spec

\* What the chip sends comes out at the host as ReliableChannel promises.
ChipToHostReliable == ChipToHost!Spec

\* Whatever the line lost or damaged, the link comes up, and every packet
\* submitted is delivered and reported SENT, by retransmission when its frame or
\* its acknowledgement was lost: again and again there is a moment at which both
\* ends are active and no packet waits.
LinkServes ==
  []<>(\A e \in End : /\ config[e].link_establishment_state = active
                      /\ confirmed[e] = Len(submitted[e])
                      /\ delivered[Other(e)] = submitted[e])

=============================================================================
