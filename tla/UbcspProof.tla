----------------------------- MODULE UbcspProof -----------------------------
(***************************************************************************)
(* What the operators of Ubcsp do to the types of the engine: lemmas for   *)
(* every module that runs two engines, for every sequence modulus, delay   *)
(* and bound on the line.                                                  *)
(***************************************************************************)
EXTENDS Ubcsp, SequenceTheorems, TLAPS

EngineType ==
  /\ config \in [End -> Config]
  /\ poll \in [End -> Poll]
  /\ line \in [End -> Seq(Frame)]

\* There are two ends, each the other of the other.
LEMMA Ends ==
  \A e \in End : /\ Other(e) \in End
                 /\ Other(e) # e
                 /\ Other(Other(e)) = e
                 /\ \A x \in End : x = e \/ x = Other(e)
BY DEF End, Other

\* Every frame an engine can build is a Frame.
LEMMA FrameTypes ==
  /\ NoPacket \in Packet
  /\ \A k \in LeMessage \cup {"bad", "none"} : LeFrame(k) \in Frame
  /\ NoFrame \in Frame
  /\ BadFrame \in Frame
  /\ \A c \in Config : AckFrame(c) \in Frame /\ DataFrame(c) \in Frame
BY SeqModulusAssumption
DEF NoPacket, Packet, LeFrame, Frame, LeMessage, NoFrame, BadFrame, Config,
    AckFrame, DataFrame

\* next_le_packet, row by row: NONE is found only by an active engine, or by one
\* reset with a CONF still to answer; CONF RESP only for an answer to CONF; SYNC
\* only by an uninitialized engine.
LEMMA NextLeType ==
  ASSUME NEW c \in Config
  PROVE  /\ NextLePacket(c) \in LeMessage \cup {"none"}
         /\ NextLePacket(c) = "none"
              => \/ c.link_establishment_state = active
                 \/ /\ c.link_establishment_state = uninitialized
                    /\ c.link_establishment_resp = 2
         /\ NextLePacket(c) = "conf_resp"
              => c.link_establishment_resp = 2
         /\ NextLePacket(c) = "sync"
              => c.link_establishment_state = uninitialized
<1>1. /\ c.link_establishment_state \in {0, 1, 2}
      /\ c.link_establishment_resp \in {0, 1, 2}
  BY DEF Config, uninitialized, initialized, active
<1> QED
  BY <1>1 DEF NextLePacket, next_le_packet, LeMessage, uninitialized, active

\* Zero is a sequence number and a delay.
LEMMA Zeros == 0 \in 0 .. SeqModulus - 1 /\ 0 \in 0 .. PollDelay
BY SeqModulusAssumption, PollDelayAssumption

\* ubcsp_initialize yields a well-typed configuration.
LEMMA InitializeType ==
  ASSUME NEW c \in Config
  PROVE  ubcsp_initialize(c) \in Config
<1>1. NoFrame \in Frame
  BY FrameTypes
<1> QED
  BY <1>1, Zeros DEF Config, ubcsp_initialize, LeMessage

\* Taking an acknowledgement keeps the configuration well typed: the sequence
\* number stays within its field.
LEMMA AfterAckType ==
  ASSUME NEW c \in Config, NEW f \in Frame
  PROVE  AfterAck(c, f) \in Config
<1>1. NoPacket \in Packet
  BY FrameTypes
<1>2. (c.sequence_number + 1) % SeqModulus \in 0 .. SeqModulus - 1
  BY SeqModulusAssumption DEF Config
<1> QED
  BY <1>1, <1>2, Zeros DEF Config, AfterAck

\* Starting a link establishment message keeps the configuration well typed.
LEMMA EstablishedType ==
  ASSUME NEW c \in Config, c.link_establishment_packet # "none"
  PROVE  Established(c) \in Config
<1>1. NextLePacket(c) \in LeMessage \cup {"none"}
  BY NextLeType
<1>2. LeFrame(c.link_establishment_packet) \in Frame
  BY FrameTypes DEF Config
<1> QED
  BY <1>1, <1>2 DEF Config, Established

\* An engine begins well typed.
LEMMA FirstType == FirstConfig \in Config /\ FirstPoll \in Poll
<1>1. Boot \in Config
  BY FrameTypes, Zeros DEF Boot, Config, LeMessage
<1>2. FirstConfig \in Config
  <2>1. Boot.link_establishment_packet # "none"
    BY DEF Boot
  <2> QED
    BY <1>1, <2>1, EstablishedType DEF FirstConfig
<1>3. FirstPoll \in Poll
  BY FrameTypes, PollDelayAssumption DEF FirstPoll, Poll
<1> QED
  BY <1>2, <1>3

\* ubcsp_send_packet keeps the configuration well typed.
LEMMA SendType ==
  ASSUME NEW c \in Config, NEW p \in Packet
  PROVE  ubcsp_send_packet(c, p) \in Config
BY FrameTypes DEF Config, ubcsp_send_packet

\* What the caller finds and leaves after a poll is well typed: the delay never
\* runs below zero.
LEMMA ReturnedType ==
  ASSUME EngineType, NEW e \in End
  PROVE  Returned(e) \in Config
<1> DEFINE d == IF config[e].delay > 0 THEN config[e].delay - 1 ELSE poll[e].delay
<1>1. config[e] \in Config /\ poll[e] \in Poll
  BY DEF EngineType
<1>2. d \in 0 .. PollDelay
  BY <1>1, PollDelayAssumption DEF Config, Poll
<1>3. Polled(e) = [config[e] EXCEPT !.delay = d]
  BY <1>1 DEF Polled, Config
<1> HIDE DEF d
<1>4. Polled(e) \in Config
  BY <1>1, <1>2, <1>3 DEF Config
<1> QED
  BY <1>4 DEF Returned, ubcsp_receive_packet, Config

\* A dropped transmission leaves nothing or one bad frame.
LEMMA AbandonedType ==
  ASSUME NEW e \in End, NEW rest \in Abandoned(e)
  PROVE  rest \in Seq(Frame) /\ (rest = <<>> \/ rest = <<BadFrame>>)
<1>1. rest = <<>> \/ rest = <<BadFrame>>
  BY DEF Abandoned
<1>2. <<>> \in Seq(Frame) /\ <<BadFrame>> \in Seq(Frame)
  BY FrameTypes
<1> QED
  BY <1>1, <1>2

\* What EnterReceive needs to keep the engine's types.
LEMMA EnterReceiveType ==
  ASSUME EngineType, NEW e \in End,
         NEW c \in Config, NEW w \in Seq(Frame),
         NEW d \in {0, PollDelay}, NEW a \in SUBSET Activity,
         EnterReceive(e, c, w, d, a)
  PROVE  EngineType'
<1>1. config' \in [End -> Config]
  BY DEF EnterReceive, EngineType
<1>2. line' \in [End -> Seq(Frame)]
  BY Ends DEF EnterReceive, EngineType
<1>3. [delay |-> d, activity |-> a, packet |-> NoPacket] \in Poll
  BY FrameTypes DEF Poll
<1>4. poll' \in [End -> Poll]
  BY <1>3 DEF EnterReceive, EngineType
<1> QED
  BY <1>1, <1>2, <1>4 DEF EngineType

\* Every branch of the transmit step of ubcsp_poll keeps the engine well typed.
LEMMA TransmitType ==
  ASSUME EngineType, NEW e \in End,
         NEW c \in Config, NEW w \in Seq(Frame),
         TransmitStep(e, c, w)
  PROVE  EngineType'
<1>0. /\ {} \in SUBSET Activity
      /\ {"SENT"} \in SUBSET Activity
      /\ 0 \in {0, PollDelay}
      /\ PollDelay \in {0, PollDelay}
  BY DEF Activity
<1>1. CASE SendDelayed(e, c, w)
  BY <1>0, <1>1, EnterReceiveType DEF SendDelayed
<1>2. CASE SendOctet(e, c, w)
  BY <1>0, <1>2, EnterReceiveType DEF SendOctet
<1>3. CASE SendLast(e, c, w)
  <2> DEFINE d == [c EXCEPT !.sending = NoFrame,
                            !.send_packet = IF SentUnreliable(c) THEN NoPacket ELSE @]
             a == IF SentUnreliable(c) THEN {"SENT"} ELSE {}
  <2>1. NoFrame \in Frame /\ NoPacket \in Packet
    BY FrameTypes
  <2>2. d \in Config
    BY <2>1 DEF Config
  <2>3. Append(w, c.sending) \in Seq(Frame)
    BY DEF Config
  <2>4. a \in SUBSET Activity
    BY <1>0
  <2>5. EnterReceive(e, d, Append(w, c.sending), PollDelay, a)
    BY <1>3 DEF SendLast
  <2> HIDE DEF d, a
  <2> QED
    BY <1>0, <2>2, <2>3, <2>4, <2>5, EnterReceiveType
<1>4. CASE StartLe(e, c, w)
  BY <1>0, <1>4, EstablishedType, EnterReceiveType DEF StartLe
<1>5. CASE StartConfResp(e, c, w)
  <2> DEFINE d == [c EXCEPT !.sending = LeFrame("conf_resp"), !.link_establishment_resp = 0]
  <2>1. LeFrame("conf_resp") \in Frame
    BY FrameTypes DEF LeMessage
  <2>2. d \in Config
    BY <2>1 DEF Config
  <2>3. EnterReceive(e, d, w, 0, {})
    BY <1>5 DEF StartConfResp
  <2> HIDE DEF d
  <2> QED
    BY <1>0, <2>2, <2>3, EnterReceiveType
<1>6. CASE StartData(e, c, w)
  <2> DEFINE d == [c EXCEPT !.sending = DataFrame(c), !.send_ack = FALSE]
  <2>1. DataFrame(c) \in Frame
    BY FrameTypes
  <2>2. d \in Config
    BY <2>1 DEF Config
  <2>3. EnterReceive(e, d, w, 0, {})
    BY <1>6 DEF StartData
  <2> HIDE DEF d
  <2> QED
    BY <1>0, <2>2, <2>3, EnterReceiveType
<1>7. CASE StartAck(e, c, w)
  <2> DEFINE d == [c EXCEPT !.sending = AckFrame(c), !.send_ack = FALSE]
  <2>1. AckFrame(c) \in Frame
    BY FrameTypes
  <2>2. d \in Config
    BY <2>1 DEF Config
  <2>3. EnterReceive(e, d, w, 0, {})
    BY <1>7 DEF StartAck
  <2> HIDE DEF d
  <2> QED
    BY <1>0, <2>2, <2>3, EnterReceiveType
<1>8. CASE SendNothing(e, c, w)
  BY <1>0, <1>8, EnterReceiveType DEF SendNothing
<1> QED
  BY <1>1, <1>2, <1>3, <1>4, <1>5, <1>6, <1>7, <1>8 DEF TransmitStep

\* What a frame taken leaves of the configuration, and of the poll's locals.
LEMMA TakeType ==
  ASSUME EngineType, NEW e \in End,
         NEW c \in Config, NEW a \in SUBSET Activity,
         Take(e, c, a)
  PROVE  config' \in [End -> Config] /\ poll' \in [End -> Poll]
<1>1. config' \in [End -> Config]
  BY DEF Take, EngineType
<1>2. poll[e] \in Poll
  BY DEF EngineType
<1>3. [poll[e] EXCEPT !.activity = @ \cup a] \in Poll
  BY <1>2 DEF Poll
<1>4. poll' = [poll EXCEPT ![e] = [poll[e] EXCEPT !.activity = @ \cup a]]
  BY DEF Take
<1> QED
  BY <1>1, <1>3, <1>4 DEF EngineType

\* What the receive step reads: the frame taken, the rest of the line, and the
\* configuration after the acknowledgement are well typed.
LEMMA ReceivingType ==
  ASSUME EngineType, NEW e \in End, NEW kinds, Receiving(e, kinds)
  PROVE  /\ Head(line[e]) \in Frame
         /\ Tail(line[e]) \in Seq(Frame)
         /\ Head(line[e]) = line[e][1]
         /\ Len(line[e]) \in Nat \ {0}
         /\ AckActivity(config[e], Head(line[e])) \in SUBSET Activity
         /\ AfterAck(config[e], Head(line[e])) \in Config
<1>1. line[e] \in Seq(Frame) /\ line[e] # <<>> /\ config[e] \in Config
  BY DEF EngineType, Receiving
<1>2. Head(line[e]) \in Frame
  BY <1>1
<1> QED
  BY <1>1, <1>2, AfterAckType DEF AckActivity, Activity

\* The two shapes of what the receive step does to the lines.
LEMMA LineType ==
  ASSUME EngineType, NEW e \in End, Tail(line[e]) \in Seq(Frame),
         \/ line' = [line EXCEPT ![e] = Tail(@)]
         \/ \E rest \in Abandoned(e) :
              line' = [line EXCEPT ![e] = Tail(@), ![Other(e)] = @ \o rest]
  PROVE  line' \in [End -> Seq(Frame)]
<1>1. CASE line' = [line EXCEPT ![e] = Tail(@)]
  BY <1>1 DEF EngineType
<1>2. CASE \E rest \in Abandoned(e) :
              line' = [line EXCEPT ![e] = Tail(@), ![Other(e)] = @ \o rest]
  <2>1. PICK rest \in Abandoned(e) :
              line' = [line EXCEPT ![e] = Tail(@), ![Other(e)] = @ \o rest]
    BY <1>2
  <2>2. rest \in Seq(Frame) /\ line[Other(e)] \in Seq(Frame)
    BY AbandonedType, Ends DEF EngineType
  <2>3. line[Other(e)] \o rest \in Seq(Frame)
    BY <2>2
  <2> QED
    BY <2>1, <2>3, Ends DEF EngineType
<1> QED
  BY <1>1, <1>2

\* Every branch of ubcsp_recevied_packet keeps the engine well typed.
LEMMA ReceiveType ==
  ASSUME EngineType, NEW e \in End, ReceiveStep(e)
  PROVE  EngineType'
<1> DEFINE f == Head(line[e])
           c == AfterAck(config[e], f)
           b == AckActivity(config[e], f)
<1>0. \E kinds : Receiving(e, kinds)
  BY DEF ReceiveStep, ReceiveBad, ReceiveSync, ReceivePeerReset, ReceiveSyncResp,
         ReceiveConf, ReceiveConfResp, ReceiveAck, ReceiveDuplicate, ReceivePacket
<1>1. /\ config[e] \in Config /\ f \in Frame /\ c \in Config /\ b \in SUBSET Activity
      /\ Tail(line[e]) \in Seq(Frame)
  BY <1>0, ReceivingType DEF EngineType
<1> HIDE DEF f, c, b
<1>2. CASE ReceiveBad(e)
  <2> DEFINE d == [config[e] EXCEPT !.send_ack = TRUE]
  <2>1. d \in Config
    BY <1>1, Zeros DEF Config
  <2>2. Take(e, d, {})
    BY <1>2 DEF ReceiveBad, f, c, b
  <2>3. line' = [line EXCEPT ![e] = Tail(@)]
    BY <1>2 DEF ReceiveBad
  <2> HIDE DEF d
  <2> QED
    BY <1>1, <2>1, <2>2, <2>3, TakeType, LineType DEF EngineType
<1>3. CASE ReceiveSync(e)
  <2> DEFINE d == [c EXCEPT !.delay = 0, !.link_establishment_resp = 1]
  <2>1. d \in Config
    BY <1>1, Zeros DEF Config
  <2>2. Take(e, d, b)
    BY <1>3 DEF ReceiveSync, f, c, b
  <2>3. line' = [line EXCEPT ![e] = Tail(@)]
    BY <1>3 DEF ReceiveSync
  <2> HIDE DEF d
  <2> QED
    BY <1>1, <2>1, <2>2, <2>3, TakeType, LineType DEF EngineType
<1>4. CASE ReceivePeerReset(e)
  <2>1. ubcsp_initialize(c) \in Config
    BY <1>1, InitializeType
  <2>2. Take(e, ubcsp_initialize(c), {"PEER_RESET"})
    BY <1>4 DEF ReceivePeerReset, f, c
  <2>3. \E rest \in Abandoned(e) :
          line' = [line EXCEPT ![e] = Tail(@), ![Other(e)] = @ \o rest]
    BY <1>4 DEF ReceivePeerReset
  <2>4. {"PEER_RESET"} \in SUBSET Activity
    BY DEF Activity
  <2> QED
    BY <1>1, <2>1, <2>2, <2>3, <2>4, TakeType, LineType DEF EngineType
<1>5. CASE ReceiveSyncResp(e)
  <2> DEFINE d == [c EXCEPT !.delay = 0,
                            !.link_establishment_state =
                              IF @ < initialized THEN initialized ELSE @]
  <2>1. d \in Config
    BY <1>1, Zeros DEF Config
  <2>2. Take(e, d, b)
    BY <1>5 DEF ReceiveSyncResp, f, c, b
  <2>3. line' = [line EXCEPT ![e] = Tail(@)]
    BY <1>5 DEF ReceiveSyncResp
  <2> HIDE DEF d
  <2> QED
    BY <1>1, <2>1, <2>2, <2>3, TakeType, LineType DEF EngineType
<1>6. CASE ReceiveConf(e)
  <2> DEFINE d == [c EXCEPT !.delay = 0,
                            !.link_establishment_resp =
                              IF c.link_establishment_state >= initialized THEN 2 ELSE @]
  <2>1. d \in Config
    BY <1>1, Zeros DEF Config
  <2>2. Take(e, d, b)
    BY <1>6 DEF ReceiveConf, f, c, b
  <2>3. line' = [line EXCEPT ![e] = Tail(@)]
    BY <1>6 DEF ReceiveConf
  <2> HIDE DEF d
  <2> QED
    BY <1>1, <2>1, <2>2, <2>3, TakeType, LineType DEF EngineType
<1>7. CASE ReceiveConfResp(e)
  <2> DEFINE d == [c EXCEPT !.delay = 0]
             g == [d EXCEPT !.link_establishment_state = active, !.sending = NoFrame]
  <2>1. d \in Config
    BY <1>1, Zeros DEF Config
  <2> HIDE DEF d
  <2>2. g \in Config
    BY <2>1, FrameTypes DEF Config
  <2>3. {"SENT"} \in SUBSET Activity
    BY DEF Activity
  <2>4. CASE Take(e, g, {"SENT"})
             /\ \E rest \in Abandoned(e) :
                  line' = [line EXCEPT ![e] = Tail(@), ![Other(e)] = @ \o rest]
    <3> HIDE DEF g
    <3> QED
      BY <1>1, <2>2, <2>3, <2>4, TakeType, LineType DEF EngineType
  <2>5. CASE Take(e, d, b) /\ line' = [line EXCEPT ![e] = Tail(@)]
    BY <1>1, <2>1, <2>5, TakeType, LineType DEF EngineType
  <2> QED
    BY <1>7, <2>4, <2>5 DEF ReceiveConfResp, f, c, b, d
<1>8. CASE ReceiveAck(e)
  <2>1. Take(e, c, b) /\ line' = [line EXCEPT ![e] = Tail(@)]
    BY <1>8 DEF ReceiveAck, f, c, b
  <2> QED
    BY <1>1, <2>1, TakeType, LineType DEF EngineType
<1>9. CASE ReceiveDuplicate(e)
  <2> DEFINE d == [c EXCEPT !.send_ack = TRUE]
  <2>1. d \in Config
    BY <1>1, Zeros DEF Config
  <2>2. Take(e, d, b)
    BY <1>9 DEF ReceiveDuplicate, f, c, b
  <2>3. line' = [line EXCEPT ![e] = Tail(@)]
    BY <1>9 DEF ReceiveDuplicate
  <2> HIDE DEF d
  <2> QED
    BY <1>1, <2>1, <2>2, <2>3, TakeType, LineType DEF EngineType
<1>10. CASE ReceivePacket(e)
  <2> DEFINE d == [c EXCEPT !.receive_packet = FALSE]
             g == [d EXCEPT !.send_ack = TRUE,
                            !.ack_number = (@ + 1) % SeqModulus,
                            !.delay = 0]
             act == b \cup {"RECEIVED"}
  <2>1. d \in Config
    BY <1>1 DEF Config
  <2>2. (d.ack_number + 1) % SeqModulus \in 0 .. SeqModulus - 1
    BY <2>1, SeqModulusAssumption DEF Config
  <2> HIDE DEF d
  <2>3. g \in Config
    BY <2>1, <2>2, Zeros DEF Config
  <2>4. config' = [config EXCEPT ![e] = g] \/ config' = [config EXCEPT ![e] = d]
    BY <1>10 DEF ReceivePacket, f, c, d
  <2>5. config' \in [End -> Config]
    <3> HIDE DEF g
    <3> QED
      BY <2>1, <2>3, <2>4 DEF EngineType
  <2>6. \E x \in SUBSET Activity :
          poll' = [poll EXCEPT ![e].activity = @ \cup x, ![e].packet = f.packet]
    <3>1. act \in SUBSET Activity /\ act \cup {"ACK"} \in SUBSET Activity
      BY <1>1 DEF Activity
    <3>2. CASE poll' = [poll EXCEPT ![e].activity = @ \cup act \cup {"ACK"},
                                    ![e].packet = f.packet]
      <4>1. poll' = [poll EXCEPT ![e].activity = @ \cup (act \cup {"ACK"}),
                                 ![e].packet = f.packet]
        <5>1. poll[e].activity \cup act \cup {"ACK"} = poll[e].activity \cup (act \cup {"ACK"})
          OBVIOUS
        <5> QED
          BY <3>2, <5>1
      <4> QED
        BY <3>1, <4>1
    <3>3. CASE poll' = [poll EXCEPT ![e].activity = @ \cup act, ![e].packet = f.packet]
      BY <3>1, <3>3
    <3> QED
      BY <1>10, <3>2, <3>3 DEF ReceivePacket, f, b
  <2>7. poll' \in [End -> Poll]
    <3>1. poll[e] \in Poll /\ f.packet \in Packet
      BY <1>1 DEF EngineType, Frame
    <3>2. PICK x \in SUBSET Activity :
            poll' = [poll EXCEPT ![e].activity = @ \cup x, ![e].packet = f.packet]
      BY <2>6
    <3> DEFINE p == [poll[e] EXCEPT !.activity = @ \cup x, !.packet = f.packet]
    <3>3. p \in Poll
      BY <3>1 DEF Poll
    <3>4. poll' = [poll EXCEPT ![e] = p]
      BY <3>2
    <3> HIDE DEF p
    <3> QED
      BY <3>3, <3>4 DEF EngineType
  <2>8. line' = [line EXCEPT ![e] = Tail(@)]
    BY <1>10 DEF ReceivePacket
  <2> QED
    BY <1>1, <2>5, <2>7, <2>8, LineType DEF EngineType
<1> QED
  BY <1>2, <1>3, <1>4, <1>5, <1>6, <1>7, <1>8, <1>9, <1>10 DEF ReceiveStep

=============================================================================
