------------------------------- MODULE Ubcsp -------------------------------
(***************************************************************************)
(* The MicroBCSP engine of ble-hci-bridge/src/ubcsp.c, at the granularity  *)
(* of frames: two engines, one at each end of a UART, that bring the link  *)
(* up (SYNC, SYNC RESP, CONF, CONF RESP) and then carry packets with a     *)
(* window of one, three-bit sequence and acknowledgement numbers and       *)
(* retransmission.                                                         *)
(*                                                                         *)
(* The "host" end is the daemon.  The "chip" end is the Bluetooth          *)
(* controller, which is not in the repository: BCSP is symmetric and       *)
(* ubcsp.c implements both halves of it, so the same engine stands there.  *)
(*                                                                         *)
(* ubcsp_poll does one transmit step, then takes every octet that is       *)
(* there, then returns to its caller, which calls it again.  The model     *)
(* cuts this loop where it meets the UART.  One step takes a received      *)
(* frame.  One step runs from the end of the receive loop, through the     *)
(* caller, to the receive loop of the next poll; it appends at most to the *)
(* outgoing line, so nothing can happen in the middle of it that could not *)
(* as well happen before or after it.                                      *)
(*                                                                         *)
(* An operator Name_slip is Name with a slip a programmer could make; no   *)
(* other definition uses it.  It is there to see a property fail.          *)
(*                                                                         *)
(* Abstracted: the octets of a frame (SLIP escapes, header checksum, CRC)  *)
(* and the wall-clock length of the delay.  A frame the checks reject is   *)
(* one of kind "bad".                                                      *)
(***************************************************************************)
EXTENDS Integers, Sequences

CONSTANTS
  SeqModulus,  \* 8 in the code: sequence_number and ack_number are 3-bit fields
  PollDelay,   \* UBCSP_POLL_TIME_DELAY, 25 in the code
  LineMax      \* bound: complete frames in flight in one direction

ASSUME SeqModulusAssumption == SeqModulus \in Nat /\ SeqModulus >= 2
ASSUME PollDelayAssumption == PollDelay \in Nat
ASSUME LineMaxAssumption == LineMax \in Nat \ {0}

VARIABLES
  config,  \* config[e]: struct ubcsp_configuration of the engine at end e
  poll,    \* poll[e]: the locals of the call of ubcsp_poll at e, in its receive loop
  line     \* line[e]: frames on the wire towards e, oldest first

engineVars == <<config, poll, line>>

End == {"host", "chip"}
Other(e) == IF e = "host" THEN "chip" ELSE "host"

-----------------------------------------------------------------------------
(* Data.                                                                   *)

uninitialized == 0  \* enum ubcsp_link_establishment_state, compared with <
initialized == 1
active == 2

LeMessage == {"sync", "sync_resp", "conf", "conf_resp"}

\* A packet of the upper layer: a number for its payload, and whether it is
\* reliable.  NoPacket is the null pointer.
Packet == [id : Nat, reliable : BOOLEAN]
NoPacket == [id |-> 0, reliable |-> FALSE]

\* A frame: its kind, the SEQ and ACK of its header, its payload.
Frame == [kind : LeMessage \cup {"data", "ack", "bad", "none"},
          seq : 0 .. SeqModulus - 1,
          ack : 0 .. SeqModulus - 1,
          packet : Packet]

\* Link establishment headers are constants: ACK and SEQ are 0 in them.
LeFrame(k) == [kind |-> k, seq |-> 0, ack |-> 0, packet |-> NoPacket]
NoFrame == LeFrame("none")
BadFrame == LeFrame("bad")

AckFrame(c) ==
  [kind |-> "ack", seq |-> 0, ack |-> c.ack_number, packet |-> NoPacket]

\* Acknowledges the packet expected next instead of the last one received.
DataFrame_slip(c) ==
  [kind |-> "data", seq |-> c.sequence_number,
   ack |-> (c.ack_number + 1) % SeqModulus, packet |-> c.send_packet]

DataFrame(c) ==
  [kind |-> "data", seq |-> c.sequence_number, ack |-> c.ack_number,
   packet |-> c.send_packet]

Activity == {"SENT", "RECEIVED", "PEER_RESET", "ACK"}

Config ==
  [link_establishment_state : {uninitialized, initialized, active},
   link_establishment_resp : {0, 1, 2},
   link_establishment_packet : LeMessage \cup {"none"},
   sequence_number : 0 .. SeqModulus - 1,
   ack_number : 0 .. SeqModulus - 1,
   send_ack : BOOLEAN,
   send_packet : Packet,
   receive_packet : BOOLEAN,   \* is a buffer there to receive into
   sending : Frame,            \* the frame being clocked out (send_ptr, send_size)
   delay : 0 .. PollDelay]

Poll ==
  [delay : {0, PollDelay},     \* the local variable delay
   activity : SUBSET Activity, \* *activity
   packet : Packet]            \* what was put in the caller's receive buffer

\* next_le_packet: the message to send next, by state + 4 * resp.  The last
\* row is not initialised in the source, so it holds zeros: SYNC.
next_le_packet ==
  << "sync", "conf", "none", "none",
     "sync_resp", "sync_resp", "none", "none",
     "none", "conf_resp", "conf_resp", "none",
     "sync", "sync", "sync", "sync" >>

NextLePacket(c) ==
  next_le_packet[c.link_establishment_state + c.link_establishment_resp * 4 + 1]

-----------------------------------------------------------------------------
(* The C functions that only change the configuration.                     *)

\* Forgets link_establishment_packet.
ubcsp_initialize_slip(c) ==
  [c EXCEPT !.ack_number = 0,
            !.sequence_number = 0,
            !.sending = NoFrame,
            !.delay = 0,
            !.link_establishment_state = uninitialized]

\* ubcsp_initialize leaves send_packet, receive_packet, send_ack and
\* link_establishment_resp as they are.
ubcsp_initialize(c) ==
  [c EXCEPT !.ack_number = 0,
            !.sequence_number = 0,
            !.sending = NoFrame,
            !.delay = 0,
            !.link_establishment_state = uninitialized,
            !.link_establishment_packet = "sync"]

\* The static structure is zero; ubcsp_initialize and ubcsp_receive_packet
\* run before the first poll.
Boot ==
  [link_establishment_state |-> uninitialized,
   link_establishment_resp |-> 0,
   link_establishment_packet |-> "sync",
   sequence_number |-> 0,
   ack_number |-> 0,
   send_ack |-> FALSE,
   send_packet |-> NoPacket,
   receive_packet |-> TRUE,
   sending |-> NoFrame,
   delay |-> 0]

\* ubcsp_send_packet drops whatever frame was being clocked out.
ubcsp_send_packet(c, p) == [c EXCEPT !.send_packet = p, !.sending = NoFrame]

ubcsp_receive_packet(c) == [c EXCEPT !.receive_packet = TRUE]

\* Takes every frame for an acknowledgement.
Acknowledged_slip(c, f) == c.send_packet # NoPacket /\ c.send_packet.reliable

\* A window of one: any ACK other than SEQ acknowledges the reliable packet.
Acknowledged(c, f) ==
  /\ f.ack # c.sequence_number
  /\ c.send_packet # NoPacket
  /\ c.send_packet.reliable

\* The sequence number leaves its three bits.
AfterAck_slip(c, f) ==
  IF Acknowledged(c, f)
  THEN [c EXCEPT !.send_packet = NoPacket, !.sequence_number = @ + 1, !.delay = 0]
  ELSE c

AfterAck(c, f) ==
  IF Acknowledged(c, f)
  THEN [c EXCEPT !.send_packet = NoPacket,
                 !.sequence_number = (@ + 1) % SeqModulus,
                 !.delay = 0]
  ELSE c

AckActivity(c, f) == IF Acknowledged(c, f) THEN {"SENT"} ELSE {}

\* ubcsp_sent_packet: an unreliable packet is forgotten and reported SENT at
\* the end of a frame, whichever frame it is.
SentUnreliable(c) == c.send_packet # NoPacket /\ ~c.send_packet.reliable

\* What a dropped transmission leaves on the line: nothing when its header
\* was not complete, else a frame that fails the length check.  If it was dropped
\* between the two octets of an escape, send_slip_escape is still set and spoils the
\* next frame of this end, too: that is one of the frames the line damages (Noise).
Abandoned(e) ==
  IF config[e].sending # NoFrame /\ Len(line[Other(e)]) < LineMax
  THEN {<<>>, <<BadFrame>>}
  ELSE {<<>>}

\* The delay runs down past zero.
Polled_slip(e) == [config[e] EXCEPT !.delay = @ - 1]

\* The end of ubcsp_poll: the delay runs down, or becomes the one decided.
Polled(e) ==
  [config[e] EXCEPT !.delay = IF @ > 0 THEN @ - 1 ELSE poll[e].delay]

\* What the caller finds when the poll returns.  Every caller answers RECEIVED
\* by using the packet and giving the buffer back.
Returned(e) ==
  IF "RECEIVED" \in poll[e].activity THEN ubcsp_receive_packet(Polled(e)) ELSE Polled(e)

Sent(e) == "SENT" \in poll[e].activity

-----------------------------------------------------------------------------
(* The transmit step of ubcsp_poll, from the configuration c and the       *)
(* outgoing line w that the caller left.                                   *)

\* On to the receive loop with configuration c, line w, local delay d and
\* activity a.
EnterReceive(e, c, w, d, a) ==
  /\ config' = [config EXCEPT ![e] = c]
  /\ line' = [line EXCEPT ![Other(e)] = w]
  /\ poll' = [poll EXCEPT ![e] = [delay |-> d, activity |-> a, packet |-> NoPacket]]

\* Free to start a frame, with no link establishment message to send.
Ready(c) ==
  /\ c.delay = 0
  /\ c.sending = NoFrame
  /\ c.link_establishment_packet = "none"

SendDelayed(e, c, w) == c.delay # 0 /\ EnterReceive(e, c, w, 0, {})

\* An octet that is not the last of its frame.
SendOctet(e, c, w) ==
  /\ c.delay = 0
  /\ c.sending # NoFrame
  /\ EnterReceive(e, c, w, 0, {})

\* The last octet and the closing SLIP_FRAME.
SendLast(e, c, w) ==
  /\ c.delay = 0
  /\ c.sending # NoFrame
  /\ Len(w) < LineMax
  /\ EnterReceive(e,
                  [c EXCEPT !.sending = NoFrame,
                            !.send_packet = IF SentUnreliable(c) THEN NoPacket ELSE @],
                  Append(w, c.sending),
                  PollDelay,
                  IF SentUnreliable(c) THEN {"SENT"} ELSE {})

\* link_establishment_packet starts.  This branch returns at once; the
\* frame has more octets, so the next poll is one of SendOctet, and the
\* receive loop entered here is that poll's.
Established(c) ==
  [c EXCEPT !.sending = LeFrame(c.link_establishment_packet),
            !.link_establishment_packet = NextLePacket(c),
            !.link_establishment_resp = 0]

StartLe(e, c, w) ==
  /\ c.delay = 0
  /\ c.sending = NoFrame
  /\ c.link_establishment_packet # "none"
  /\ EnterReceive(e, Established(c), w, 0, {})

StartConfResp(e, c, w) ==
  /\ Ready(c)
  /\ c.link_establishment_resp = 2
  /\ EnterReceive(e, [c EXCEPT !.sending = LeFrame("conf_resp"),
                               !.link_establishment_resp = 0], w, 0, {})

StartData(e, c, w) ==
  /\ Ready(c)
  /\ c.link_establishment_resp # 2
  /\ c.send_packet # NoPacket
  /\ EnterReceive(e, [c EXCEPT !.sending = DataFrame(c), !.send_ack = FALSE], w, 0, {})

StartAck(e, c, w) ==
  /\ Ready(c)
  /\ c.link_establishment_resp # 2
  /\ c.send_packet = NoPacket
  /\ c.send_ack
  /\ EnterReceive(e, [c EXCEPT !.sending = AckFrame(c), !.send_ack = FALSE], w, 0, {})

SendNothing(e, c, w) ==
  /\ Ready(c)
  /\ c.link_establishment_resp # 2
  /\ c.send_packet = NoPacket
  /\ ~c.send_ack
  /\ EnterReceive(e, c, w, PollDelay, {})

TransmitStep(e, c, w) ==
  \/ SendDelayed(e, c, w)
  \/ SendOctet(e, c, w)
  \/ SendLast(e, c, w)
  \/ StartLe(e, c, w)
  \/ StartConfResp(e, c, w)
  \/ StartData(e, c, w)
  \/ StartAck(e, c, w)
  \/ SendNothing(e, c, w)

\* The engine in its first poll, that has started a SYNC.
FirstConfig == Established(Boot)
FirstPoll == [delay |-> 0, activity |-> {}, packet |-> NoPacket]

-----------------------------------------------------------------------------
(* The receive loop of ubcsp_poll, one frame at a time: the octets up to   *)
(* SLIP_FRAME and ubcsp_recevied_packet.                                   *)

\* The next frame is of one of these kinds, and there is a buffer for it.
Receiving(e, kinds) ==
  /\ config[e].receive_packet
  /\ line[e] # <<>>
  /\ Head(line[e]).kind \in kinds

\* The frame is taken: the configuration becomes c, a is added to *activity.
Take(e, c, a) ==
  /\ config' = [config EXCEPT ![e] = c]
  /\ poll' = [poll EXCEPT ![e].activity = @ \cup a]

\* A header checksum, length or CRC error: ask for it again with an ACK.
ReceiveBad(e) ==
  /\ Receiving(e, {"bad"})
  /\ Take(e, [config[e] EXCEPT !.send_ack = TRUE], {})
  /\ line' = [line EXCEPT ![e] = Tail(@)]

\* SYNC on a link that is not active: answer it.
ReceiveSync(e) ==
  LET f == Head(line[e])
  IN  /\ Receiving(e, {"sync"})
      /\ config[e].link_establishment_state < active
      /\ Take(e, [AfterAck(config[e], f) EXCEPT !.delay = 0,
                                                !.link_establishment_resp = 1],
              AckActivity(config[e], f))
      /\ line' = [line EXCEPT ![e] = Tail(@)]

\* SYNC on an active link: the peer was reset.  The activity returned is
\* PEER_RESET alone, even when this header's ACK has just cleared a packet.
ReceivePeerReset(e) ==
  LET f == Head(line[e])
  IN  /\ Receiving(e, {"sync"})
      /\ config[e].link_establishment_state = active
      /\ Take(e, ubcsp_initialize(AfterAck(config[e], f)), {"PEER_RESET"})
      /\ \E rest \in Abandoned(e) :
           line' = [line EXCEPT ![e] = Tail(@), ![Other(e)] = @ \o rest]

\* The answer to SYNC makes the link active at once.
ReceiveSyncResp_slip(e) ==
  LET f == Head(line[e])
  IN  /\ Receiving(e, {"sync_resp"})
      /\ Take(e, [AfterAck(config[e], f) EXCEPT !.delay = 0,
                                                !.link_establishment_state = active],
              AckActivity(config[e], f))
      /\ line' = [line EXCEPT ![e] = Tail(@)]

ReceiveSyncResp(e) ==
  LET f == Head(line[e])
      c == AfterAck(config[e], f)
  IN  /\ Receiving(e, {"sync_resp"})
      /\ Take(e, [c EXCEPT !.delay = 0,
                           !.link_establishment_state =
                             IF @ < initialized THEN initialized ELSE @],
              AckActivity(config[e], f))
      /\ line' = [line EXCEPT ![e] = Tail(@)]

\* CONF is answered in every state.
ReceiveConf_slip(e) ==
  LET f == Head(line[e])
  IN  /\ Receiving(e, {"conf"})
      /\ Take(e, [AfterAck(config[e], f) EXCEPT !.delay = 0, !.link_establishment_resp = 2],
              AckActivity(config[e], f))
      /\ line' = [line EXCEPT ![e] = Tail(@)]

\* CONF is answered only once the link is active.
ReceiveConf_late_slip(e) ==
  LET f == Head(line[e])
      c == AfterAck(config[e], f)
  IN  /\ Receiving(e, {"conf"})
      /\ Take(e, [c EXCEPT !.delay = 0,
                           !.link_establishment_resp =
                             IF c.link_establishment_state > initialized
                             THEN 2 ELSE @],
              AckActivity(config[e], f))
      /\ line' = [line EXCEPT ![e] = Tail(@)]

ReceiveConf(e) ==
  LET f == Head(line[e])
      c == AfterAck(config[e], f)
  IN  /\ Receiving(e, {"conf"})
      /\ Take(e, [c EXCEPT !.delay = 0,
                           !.link_establishment_resp =
                             IF c.link_establishment_state >= initialized
                             THEN 2 ELSE @],
              AckActivity(config[e], f))
      /\ line' = [line EXCEPT ![e] = Tail(@)]

\* CONF RESP makes the link active and drops the frame being clocked out.
ReceiveConfResp(e) ==
  LET f == Head(line[e])
      c == [AfterAck(config[e], f) EXCEPT !.delay = 0]
  IN  /\ Receiving(e, {"conf_resp"})
      /\ \/ /\ c.link_establishment_state < active
            /\ Take(e, [c EXCEPT !.link_establishment_state = active,
                                 !.sending = NoFrame],
                    {"SENT"})
            /\ \E rest \in Abandoned(e) :
                 line' = [line EXCEPT ![e] = Tail(@), ![Other(e)] = @ \o rest]
         \/ /\ c.link_establishment_state = active
            /\ Take(e, c, AckActivity(config[e], f))
            /\ line' = [line EXCEPT ![e] = Tail(@)]

\* An ACK frame, or data on a link that is not active: only its ACK counts.
ReceiveAck(e) ==
  LET f == Head(line[e])
  IN  /\ \/ Receiving(e, {"ack"})
         \/ /\ Receiving(e, {"data"})
            /\ config[e].link_establishment_state # active
      /\ Take(e, AfterAck(config[e], f), AckActivity(config[e], f))
      /\ line' = [line EXCEPT ![e] = Tail(@)]

\* A reliable packet that is not the next in sequence: acknowledge, drop.
ReceiveDuplicate(e) ==
  LET f == Head(line[e])
  IN  /\ Receiving(e, {"data"})
      /\ config[e].link_establishment_state = active
      /\ f.packet.reliable
      /\ f.seq # config[e].ack_number
      /\ Take(e, [AfterAck(config[e], f) EXCEPT !.send_ack = TRUE],
              AckActivity(config[e], f))
      /\ line' = [line EXCEPT ![e] = Tail(@)]

\* The sequence number of a packet is not looked at.
ReceivePacket_slip(e) ==
  LET f == Head(line[e])
      c == [AfterAck(config[e], f) EXCEPT !.receive_packet = FALSE]
      a == AckActivity(config[e], f) \cup {"RECEIVED"}
  IN  /\ Receiving(e, {"data"})
      /\ config[e].link_establishment_state = active
      /\ config' = [config EXCEPT ![e] =
                      [c EXCEPT !.send_ack = TRUE,
                                !.ack_number = (@ + 1) % SeqModulus,
                                !.delay = 0]]
      /\ poll' = [poll EXCEPT ![e].activity = @ \cup a \cup {"ACK"},
                              ![e].packet = f.packet]
      /\ line' = [line EXCEPT ![e] = Tail(@)]

\* The packet goes to the caller, and the buffer with it.
ReceivePacket(e) ==
  LET f == Head(line[e])
      c == [AfterAck(config[e], f) EXCEPT !.receive_packet = FALSE]
      a == AckActivity(config[e], f) \cup {"RECEIVED"}
  IN  /\ Receiving(e, {"data"})
      /\ config[e].link_establishment_state = active
      /\ \/ /\ f.packet.reliable
            /\ f.seq = config[e].ack_number
            /\ config' = [config EXCEPT ![e] =
                            [c EXCEPT !.send_ack = TRUE,
                                      !.ack_number = (@ + 1) % SeqModulus,
                                      !.delay = 0]]
            /\ poll' = [poll EXCEPT ![e].activity = @ \cup a \cup {"ACK"},
                                    ![e].packet = f.packet]
         \/ /\ ~f.packet.reliable
            /\ config' = [config EXCEPT ![e] = c]
            /\ poll' = [poll EXCEPT ![e].activity = @ \cup a,
                                    ![e].packet = f.packet]
      /\ line' = [line EXCEPT ![e] = Tail(@)]

ReceiveStep(e) ==
  \/ ReceiveBad(e)
  \/ ReceiveSync(e)
  \/ ReceivePeerReset(e)
  \/ ReceiveSyncResp(e)
  \/ ReceiveConf(e)
  \/ ReceiveConfResp(e)
  \/ ReceiveAck(e)
  \/ ReceiveDuplicate(e)
  \/ ReceivePacket(e)

=============================================================================
