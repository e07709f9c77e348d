---------------------------- MODULE HciPollProof ----------------------------
(***************************************************************************)
(* Theorems about HciPoll, for any number of operations, of slots in the   *)
(* queue, of events and of answers given up.  What the daemon and the chip *)
(* keep is typed and in order whatever the chip answers and whether the    *)
(* poll loop is patient or not.  That the loop keeps to the contract of    *)
(* ubcsp_send_packet, and the commands are reliable, needs OneEventEach.   *)
(***************************************************************************)
EXTENDS HciTurn, UbcspProof

-----------------------------------------------------------------------------
(* What the host sends are operations.                                     *)

\* An engine that has only operations to send.
SendsOps(c) ==
  /\ c.send_packet # NoPacket => c.send_packet.id \in Op
  /\ c.sending.kind = "data" => c.sending.packet.id \in Op

\* A line that carries no packets but operations.
CarriesOps(w) == \A i \in 1 .. Len(w) : w[i].kind = "data" => w[i].packet.id \in Op

HostSendsOps == SendsOps(config["host"]) /\ CarriesOps(line["chip"])

\* An operation in a packet.
LEMMA OpPackets ==
  ASSUME NEW op \in Op
  PROVE  Reliable(op) \in Packet /\ Reliable(op).id \in Op
BY MaxOpsAssumption DEF Reliable, Packet

\* A frame more on a line that carries operations.
LEMMA CarriesMore ==
  ASSUME NEW w \in Seq(Frame), CarriesOps(w), NEW f \in Frame,
         f.kind = "data" => f.packet.id \in Op
  PROVE  CarriesOps(Append(w, f))
<1>1. /\ Len(Append(w, f)) = Len(w) + 1 /\ Len(w) \in Nat
      /\ \A i \in 1 .. Len(w) : Append(w, f)[i] = w[i]
      /\ Append(w, f)[Len(w) + 1] = f
  BY AppendProperties
<1> QED
  BY <1>1 DEF CarriesOps

\* What a dropped transmission leaves is no operation.
LEMMA CarriesAbandoned ==
  ASSUME NEW e \in End, NEW w \in Seq(Frame), CarriesOps(w), NEW rest \in Abandoned(e)
  PROVE  w \o rest \in Seq(Frame) /\ CarriesOps(w \o rest)
<1>1. CASE rest = <<>>
  <2>1. w \o rest = w
    BY <1>1, ConcatEmptySeq
  <2> QED
    BY <2>1
<1>2. CASE rest = <<BadFrame>>
  <2>1. BadFrame \in Frame /\ BadFrame.kind = "bad"
    BY FrameTypes DEF BadFrame, LeFrame
  <2>2. w \o rest = Append(w, BadFrame)
    BY <1>2, <2>1, AppendIsConcat
  <2>3. CarriesOps(Append(w, BadFrame))
    BY <2>1, CarriesMore
  <2>4. Append(w, BadFrame) \in Seq(Frame)
    BY <2>1
  <2> QED
    BY <2>2, <2>3, <2>4
<1> QED
  BY <1>1, <1>2, AbandonedType

\* Nor is one fewer.
LEMMA CarriesFewer ==
  ASSUME NEW w \in Seq(Frame), CarriesOps(w), w # <<>>
  PROVE  CarriesOps(Tail(w))
<1>1. /\ Len(Tail(w)) = Len(w) - 1 /\ Len(w) \in Nat
      /\ \A i \in 1 .. Len(Tail(w)) : Tail(w)[i] = w[i + 1]
  BY HeadTailProperties
<1>2. \A i \in 1 .. Len(Tail(w)) : i + 1 \in 1 .. Len(w)
  BY <1>1
<1> QED
  BY <1>1, <1>2 DEF CarriesOps

\* Nor is one that is damaged.
LEMMA CarriesDamaged ==
  ASSUME NEW w \in Seq(Frame), CarriesOps(w), w # <<>>
  PROVE  CarriesOps(<<BadFrame>> \o Tail(w))
<1>1. Tail(w) \in Seq(Frame) /\ CarriesOps(Tail(w))
  BY CarriesFewer
<1>2. BadFrame.kind # "data" /\ BadFrame \in Frame
  BY FrameTypes DEF BadFrame, LeFrame
<1>3. \A i \in 1 .. Len(<<BadFrame>> \o Tail(w)) :
        (<<BadFrame>> \o Tail(w))[i] = IF i = 1 THEN BadFrame ELSE Tail(w)[i - 1]
  BY <1>1, <1>2
<1>4. \A i \in 1 .. Len(<<BadFrame>> \o Tail(w)) : i # 1 => i - 1 \in 1 .. Len(Tail(w))
  BY <1>1, <1>2
<1> QED
  BY <1>1, <1>2, <1>3, <1>4 DEF CarriesOps

\* The transmit step of the host sends what it was given.
LEMMA HostTransmits ==
  ASSUME EngineType, NEW c \in Config, NEW w \in Seq(Frame), SendsOps(c), CarriesOps(w),
         TransmitStep("host", c, w)
  PROVE  HostSendsOps'
<1>0. /\ config \in [End -> Config] /\ line \in [End -> Seq(Frame)]
      /\ "host" \in End /\ "chip" \in End /\ Other("host") = "chip"
  BY DEF EngineType, End, Other
<1>1. ASSUME NEW d, NEW v, NEW x, NEW a, EnterReceive("host", d, v, x, a),
             SendsOps(d), CarriesOps(v)
      PROVE  HostSendsOps'
  <2>1. config'["host"] = d /\ line'["chip"] = v
    BY <1>0, <1>1 DEF EnterReceive
  <2> QED
    BY <1>1, <2>1 DEF HostSendsOps, SendsOps, CarriesOps
<1>2. CASE SendDelayed("host", c, w) \/ SendOctet("host", c, w) \/ SendNothing("host", c, w)
  BY <1>1, <1>2 DEF SendDelayed, SendOctet, SendNothing
<1>3. CASE SendLast("host", c, w)
  <2> DEFINE d == [c EXCEPT !.sending = NoFrame,
                            !.send_packet = IF SentUnreliable(c) THEN NoPacket ELSE @]
  <2>1. SendsOps(d)
    BY DEF SendsOps, Config, NoFrame, LeFrame
  <2>2. c.sending \in Frame /\ (c.sending.kind = "data" => c.sending.packet.id \in Op)
    BY DEF Config, SendsOps
  <2>3. CarriesOps(Append(w, c.sending))
    BY <2>2, CarriesMore
  <2>4. \E x, a : EnterReceive("host", d, Append(w, c.sending), x, a)
    BY <1>3 DEF SendLast
  <2> HIDE DEF d
  <2> QED
    BY <1>1, <2>1, <2>3, <2>4
<1>4. CASE StartLe("host", c, w)
  <2>1. SendsOps(Established(c))
    <3>1. c.link_establishment_packet \in LeMessage \cup {"none"}
      BY DEF Config
    <3> QED
      BY <3>1, <1>4 DEF SendsOps, Established, Config, LeFrame, LeMessage
  <2> QED
    BY <1>1, <1>4, <2>1 DEF StartLe
<1>5. CASE StartConfResp("host", c, w)
  <2> DEFINE d == [c EXCEPT !.sending = LeFrame("conf_resp"), !.link_establishment_resp = 0]
  <2>1. SendsOps(d)
    BY DEF SendsOps, Config, LeFrame
  <2>2. EnterReceive("host", d, w, 0, {})
    BY <1>5 DEF StartConfResp
  <2> HIDE DEF d
  <2> QED
    BY <1>1, <2>1, <2>2
<1>6. CASE StartData("host", c, w)
  <2> DEFINE d == [c EXCEPT !.sending = DataFrame(c), !.send_ack = FALSE]
  <2>1. SendsOps(d)
    BY <1>6 DEF SendsOps, Config, DataFrame, StartData
  <2>2. EnterReceive("host", d, w, 0, {})
    BY <1>6 DEF StartData
  <2> HIDE DEF d
  <2> QED
    BY <1>1, <2>1, <2>2
<1>7. CASE StartAck("host", c, w)
  <2> DEFINE d == [c EXCEPT !.sending = AckFrame(c), !.send_ack = FALSE]
  <2>1. SendsOps(d)
    BY DEF SendsOps, Config, AckFrame
  <2>2. EnterReceive("host", d, w, 0, {})
    BY <1>7 DEF StartAck
  <2> HIDE DEF d
  <2> QED
    BY <1>1, <2>1, <2>2
<1> QED
  BY <1>2, <1>3, <1>4, <1>5, <1>6, <1>7 DEF TransmitStep

\* The transmit step of the chip leaves the host and its line alone.
LEMMA ChipTransmits ==
  ASSUME EngineType, HostSendsOps, NEW c, NEW w, TransmitStep("chip", c, w)
  PROVE  HostSendsOps'
<1>1. \E d, v, x, a : EnterReceive("chip", d, v, x, a)
  BY DEF TransmitStep, SendDelayed, SendOctet, SendLast, StartLe, StartConfResp, StartData,
         StartAck, SendNothing
<1>2. config'["host"] = config["host"] /\ line'["chip"] = line["chip"]
  BY <1>1 DEF EnterReceive, EngineType, End, Other
<1> QED
  BY <1>2 DEF HostSendsOps, SendsOps, CarriesOps

\* What an acknowledgement leaves to send.
LEMMA AckLeavesOps ==
  ASSUME NEW c \in Config, SendsOps(c), NEW f
  PROVE  SendsOps(AfterAck(c, f))
BY DEF SendsOps, AfterAck, Config


\* What the receive step takes at the host leaves it only operations to send.
LEMMA HostReceives ==
  ASSUME EngineType, HostSendsOps, ReceiveStep("host")
  PROVE  HostSendsOps'
<1> DEFINE f == Head(line["host"])
           b == config["host"]
           c == AfterAck(b, f)
<1>0. /\ config \in [End -> Config] /\ line \in [End -> Seq(Frame)]
      /\ "host" \in End /\ "chip" \in End /\ Other("host") = "chip"
  BY DEF EngineType, End, Other
<1>1. b \in Config /\ SendsOps(b) /\ CarriesOps(line["chip"]) /\ line["chip"] \in Seq(Frame)
  BY <1>0 DEF HostSendsOps
<1>2. c \in Config /\ SendsOps(c)
  <2>1. \E kinds : Receiving("host", kinds)
    BY DEF ReceiveStep, ReceiveBad, ReceiveSync, ReceivePeerReset, ReceiveSyncResp, ReceiveConf,
           ReceiveConfResp, ReceiveAck, ReceiveDuplicate, ReceivePacket
  <2>2. c \in Config
    BY <1>0, <2>1, ReceivingType
  <2> QED
    BY <1>1, <2>2, AckLeavesOps
\* The line to the chip is as it was, or has one bad frame more.
<1>3. CarriesOps(line'["chip"])
  <2>1. \/ line' = [line EXCEPT !["host"] = Tail(@)]
        \/ \E rest \in Abandoned("host") :
             line' = [line EXCEPT !["host"] = Tail(@), !["chip"] = @ \o rest]
    BY <1>0
    DEF ReceiveStep, ReceiveBad, ReceiveSync, ReceivePeerReset, ReceiveSyncResp, ReceiveConf,
        ReceiveConfResp, ReceiveAck, ReceiveDuplicate, ReceivePacket
  <2>2. CASE line' = [line EXCEPT !["host"] = Tail(@)]
    BY <1>0, <1>1, <2>2
  <2>3. ASSUME NEW rest \in Abandoned("host"),
               line' = [line EXCEPT !["host"] = Tail(@), !["chip"] = @ \o rest]
        PROVE  CarriesOps(line'["chip"])
    <3>1. line'["chip"] = line["chip"] \o rest
      BY <1>0, <2>3
    <3> QED
      BY <1>0, <1>1, <3>1, CarriesAbandoned
  <2> QED
    BY <2>1, <2>2, <2>3
<1> HIDE DEF c
<1>4. SendsOps(config'["host"])
  <2>1. ASSUME NEW d, config'["host"] = d, SendsOps(d) PROVE SendsOps(config'["host"])
    BY <2>1
  <2>2. ASSUME NEW d, NEW a, Take("host", d, a), SendsOps(d) PROVE SendsOps(config'["host"])
    BY <1>0, <2>2 DEF Take
  <2>3. CASE ReceiveBad("host")
    <3>1. SendsOps([b EXCEPT !.send_ack = TRUE])
      BY <1>1 DEF SendsOps, Config
    <3> QED
      BY <2>2, <2>3, <3>1 DEF ReceiveBad
  <2>4. CASE ReceiveSync("host")
    <3>1. SendsOps([c EXCEPT !.delay = 0, !.link_establishment_resp = 1])
      BY <1>2 DEF SendsOps, Config
    <3> QED
      BY <2>2, <2>4, <3>1 DEF ReceiveSync, c
  <2>5. CASE ReceivePeerReset("host")
    <3>1. SendsOps(ubcsp_initialize(c))
      BY <1>2 DEF SendsOps, Config, ubcsp_initialize, NoFrame, LeFrame
    <3> QED
      BY <2>2, <2>5, <3>1 DEF ReceivePeerReset, c
  <2>6. CASE ReceiveSyncResp("host")
    <3> DEFINE d == [c EXCEPT !.delay = 0,
                              !.link_establishment_state =
                                IF @ < initialized THEN initialized ELSE @]
    <3>1. SendsOps(d)
      BY <1>2 DEF SendsOps, Config
    <3>2. \E a : Take("host", d, a)
      BY <2>6 DEF ReceiveSyncResp, c
    <3> HIDE DEF d
    <3> QED
      BY <2>2, <3>1, <3>2
  <2>7. CASE ReceiveConf("host")
    <3> DEFINE d == [c EXCEPT !.delay = 0,
                              !.link_establishment_resp =
                                IF c.link_establishment_state >= initialized THEN 2 ELSE @]
    <3>1. SendsOps(d)
      BY <1>2 DEF SendsOps, Config
    <3>2. \E a : Take("host", d, a)
      BY <2>7 DEF ReceiveConf, c
    <3> HIDE DEF d
    <3> QED
      BY <2>2, <3>1, <3>2
  <2>8. CASE ReceiveConfResp("host")
    <3> DEFINE d == [c EXCEPT !.delay = 0]
               g == [d EXCEPT !.link_establishment_state = active, !.sending = NoFrame]
    <3>1. SendsOps(d)
      BY <1>2 DEF SendsOps, Config
    <3>2. SendsOps(g)
      BY <1>2 DEF SendsOps, Config, NoFrame, LeFrame
    <3>3. \E a : Take("host", d, a) \/ Take("host", g, a)
      BY <2>8 DEF ReceiveConfResp, c
    <3> HIDE DEF d, g
    <3> QED
      BY <2>2, <3>1, <3>2, <3>3
  <2>9. CASE ReceiveAck("host")
    BY <1>2, <2>2, <2>9 DEF ReceiveAck, c
  <2>10. CASE ReceiveDuplicate("host")
    <3>1. SendsOps([c EXCEPT !.send_ack = TRUE])
      BY <1>2 DEF SendsOps, Config
    <3> QED
      BY <2>2, <2>10, <3>1 DEF ReceiveDuplicate, c
  <2>11. CASE ReceivePacket("host")
    <3> DEFINE d == [c EXCEPT !.receive_packet = FALSE]
               g == [d EXCEPT !.send_ack = TRUE,
                              !.ack_number = (@ + 1) % SeqModulus,
                              !.delay = 0]
    <3>1. SendsOps(d)
      BY <1>2 DEF SendsOps, Config
    <3>2. SendsOps(g)
      BY <1>2 DEF SendsOps, Config
    <3>3. config' = [config EXCEPT !["host"] = g] \/ config' = [config EXCEPT !["host"] = d]
      BY <2>11 DEF ReceivePacket, c
    <3> HIDE DEF d, g
    <3>4. config'["host"] = g \/ config'["host"] = d
      BY <1>0, <3>3
    <3> QED
      BY <3>1, <3>2, <3>4
  <2> QED
    BY <2>3, <2>4, <2>5, <2>6, <2>7, <2>8, <2>9, <2>10, <2>11 DEF ReceiveStep
<1> QED
  BY <1>3, <1>4 DEF HostSendsOps, SendsOps, CarriesOps

\* What the chip takes from its line leaves what is behind it, and is an operation
\* if it is handed on.
LEMMA ChipReceives ==
  ASSUME EngineType, HostSendsOps, ReceiveStep("chip")
  PROVE  /\ HostSendsOps'
         /\ "RECEIVED" \in poll'["chip"].activity \ poll["chip"].activity
              => poll'["chip"].packet.id \in Op
<1>0. /\ config \in [End -> Config] /\ line \in [End -> Seq(Frame)] /\ poll \in [End -> Poll]
      /\ "host" \in End /\ "chip" \in End /\ Other("chip") = "host"
  BY DEF EngineType, End, Other
<1>1. line["chip"] \in Seq(Frame) /\ line["chip"] # <<>>
  BY <1>0 DEF ReceiveStep, ReceiveBad, ReceiveSync, ReceivePeerReset, ReceiveSyncResp, ReceiveConf,
              ReceiveConfResp, ReceiveAck, ReceiveDuplicate, ReceivePacket, Receiving
<1>2. line'["chip"] = Tail(line["chip"])
  <2>1. \/ line' = [line EXCEPT !["chip"] = Tail(@)]
        \/ \E rest \in Abandoned("chip") :
             line' = [line EXCEPT !["chip"] = Tail(@), !["host"] = @ \o rest]
    BY <1>0
    DEF ReceiveStep, ReceiveBad, ReceiveSync, ReceivePeerReset, ReceiveSyncResp, ReceiveConf,
        ReceiveConfResp, ReceiveAck, ReceiveDuplicate, ReceivePacket
  <2> QED
    BY <1>0, <2>1
<1>3. config'["host"] = config["host"]
  <2>1. \E d : config' = [config EXCEPT !["chip"] = d]
    BY DEF ReceiveStep, ReceiveBad, ReceiveSync, ReceivePeerReset, ReceiveSyncResp, ReceiveConf,
        ReceiveConfResp, ReceiveAck, ReceiveDuplicate, ReceivePacket, Take
  <2> QED
    BY <1>0, <2>1
<1>4. CarriesOps(line'["chip"])
  BY <1>1, <1>2, CarriesFewer DEF HostSendsOps
<1>5. HostSendsOps'
  BY <1>3, <1>4 DEF HostSendsOps, SendsOps, CarriesOps
<1>6. ASSUME "RECEIVED" \in poll'["chip"].activity \ poll["chip"].activity
      PROVE  poll'["chip"].packet.id \in Op
  <2>1. CASE ReceivePacket("chip")
    <3>1. /\ Head(line["chip"]).kind = "data"
          /\ \E x : poll' = [poll EXCEPT !["chip"].activity = x,
                                         !["chip"].packet = Head(line["chip"]).packet]
      BY <2>1 DEF ReceivePacket, Receiving
    <3>2. poll'["chip"].packet = Head(line["chip"]).packet
      BY <1>0, <3>1 DEF Poll
    <3>3. 1 \in 1 .. Len(line["chip"]) /\ Head(line["chip"]) = line["chip"][1]
      BY <1>1
    <3> QED
      BY <3>1, <3>2, <3>3 DEF HostSendsOps, CarriesOps
  <2>2. CASE \E d, a : Take("chip", d, a) /\ "RECEIVED" \notin a
    BY <1>0, <1>6, <2>2 DEF Take, Poll
  <2>3. "RECEIVED" \notin AckActivity(config["chip"], Head(line["chip"]))
    BY DEF AckActivity
  <2>4. CASE ReceiveBad("chip") \/ ReceivePeerReset("chip")
    <3>1. "RECEIVED" \notin {} /\ "RECEIVED" \notin {"PEER_RESET"}
      OBVIOUS
    <3> QED
      BY <2>2, <2>4, <3>1 DEF ReceiveBad, ReceivePeerReset
  <2>5. CASE ReceiveConfResp("chip")
    <3>1. "RECEIVED" \notin {"SENT"}
      OBVIOUS
    <3>2. \E d, a : Take("chip", d, a)
                    /\ (a = {"SENT"} \/ a = AckActivity(config["chip"], Head(line["chip"])))
      BY <2>5 DEF ReceiveConfResp
    <3> QED
      BY <2>2, <2>3, <3>1, <3>2
  <2>6. CASE \/ ReceiveSync("chip") \/ ReceiveSyncResp("chip") \/ ReceiveConf("chip")
             \/ ReceiveAck("chip") \/ ReceiveDuplicate("chip")
    <3>1. \E d : Take("chip", d, AckActivity(config["chip"], Head(line["chip"])))
      BY <2>6 DEF ReceiveSync, ReceiveSyncResp, ReceiveConf, ReceiveAck, ReceiveDuplicate
    <3> QED
      BY <2>2, <2>3, <3>1
  <2> QED
    BY <2>1, <2>4, <2>5, <2>6 DEF ReceiveStep
<1> QED
  BY <1>5, <1>6


-----------------------------------------------------------------------------
(* The types.                                                              *)

\* The first state.
LEMMA InitTyped == Init => TypeOK /\ HostSendsOps
<1> SUFFICES ASSUME Init PROVE TypeOK /\ HostSendsOps
  OBVIOUS
<1>1. FirstConfig \in Config /\ FirstPoll \in Poll
  BY FirstType
<1>2. 1 \in Op
  BY MaxOpsAssumption
<1>3. (CHOOSE op \in Op : TRUE) \in Op
  BY <1>2
<1>4. QueueType
  BY <1>3, QueueSlotsAssumption DEF Init, QueueInit, QueueType
<1>5. /\ <<>> \in Seq(Frame) /\ <<>> \in Seq(Op) /\ <<>> \in Seq(Nat) /\ Len(<<>>) = 0
      /\ 0 \in 0 .. MaxOps /\ 0 \in 0 .. MaxTimeouts /\ 0 \in 0 .. MaxUnsolicited
  BY MaxOpsAssumption, MaxTimeoutsAssumption, MaxUnsolicitedAssumption
<1>6. TypeOK
  <2>1. arrived \in [End -> Seq(Nat)] /\ arrived["chip"] \in Seq(Op) /\ confirmed \in [End -> Nat]
    BY <1>5 DEF Init, End
  <2>2. config \in [End -> Config] /\ poll \in [End -> Poll] /\ line \in [End -> Seq(Frame)]
    BY <1>1, <1>5 DEF Init
  <2> QED
    BY <1>4, <1>5, <2>1, <2>2 DEF Init, TypeOK, Phase
<1>7. /\ "host" \in End /\ "chip" \in End
      /\ FirstConfig.send_packet = NoPacket /\ FirstConfig.sending.kind = "sync"
  BY DEF End, FirstConfig, Established, Boot, LeFrame
<1>8. HostSendsOps
  BY <1>5, <1>7 DEF Init, HostSendsOps, SendsOps, CarriesOps
<1> QED
  BY <1>6, <1>8

\* The caller of the host leaves the engine with operations only.
LEMMA ReturnedSends ==
  ASSUME EngineType, HostSendsOps
  PROVE  Returned("host") \in Config /\ SendsOps(Returned("host"))
<1>1. "host" \in End /\ config["host"] \in Config
  BY DEF EngineType, End
<1>2. Returned("host") \in Config
  BY <1>1, ReturnedType
<1>3. /\ Returned("host").send_packet = config["host"].send_packet
      /\ Returned("host").sending = config["host"].sending
  BY <1>1 DEF Returned, Polled, ubcsp_receive_packet, Config
<1> QED
  BY <1>2, <1>3 DEF HostSendsOps, SendsOps

\* A poll of the host that goes on with what it has.
LEMMA ContinueTyped ==
  ASSUME TypeOK, HostSendsOps, Continue
  PROVE  EngineType' /\ HostSendsOps'
<1>1. EngineType /\ "host" \in End /\ line["chip"] \in Seq(Frame) /\ CarriesOps(line["chip"])
  BY DEF TypeOK, EngineType, End, HostSendsOps
<1>2. Returned("host") \in Config /\ SendsOps(Returned("host"))
  BY <1>1, ReturnedSends
<1> QED
  BY <1>1, <1>2, TransmitType, HostTransmits DEF Continue

\* The operation at the head of the queue.
LEMMA NextOpTyped ==
  ASSUME QueueType, queueHead < queueTail
  PROVE  NextOp \in Op
<1>1. queueHead \in 0 .. QueueSlots - 1
  BY QueueSlotsAssumption DEF QueueType
<1> QED
  BY <1>1 DEF QueueType, NextOp

\* Every step keeps the types, and what the host sends are operations.
LEMMA StepTyped ==
  ASSUME TypeOK, queueHead <= queueTail, HostSendsOps, [Next]_vars
  PROVE  TypeOK' /\ HostSendsOps'
<1>0. EngineType /\ "host" \in End /\ "chip" \in End
  BY DEF TypeOK, EngineType, End
<1>1. ASSUME NEW e \in End, Receive(e) PROVE TypeOK' /\ HostSendsOps'
  <2>1. EngineType'
    BY <1>0, <1>1, ReceiveType DEF Receive
  <2>2. e \in {"host", "chip"}
    BY DEF End
  <2>3. HostSendsOps'
    BY <1>0, <1>1, <2>2, HostReceives, ChipReceives DEF Receive
  <2>4. arrived' \in [End -> Seq(Nat)] /\ arrived'["chip"] \in Seq(Op)
    <3> DEFINE new == poll'[e].activity \ poll[e].activity
               q == IF "RECEIVED" \in new THEN Append(arrived[e], poll'[e].packet.id)
                                          ELSE arrived[e]
    <3>1. /\ arrived \in [End -> Seq(Nat)] /\ arrived["chip"] \in Seq(Op)
          /\ arrived' = [arrived EXCEPT ![e] = q]
      BY <1>1 DEF Receive, TypeOK
    <3>2. poll'[e].packet.id \in Nat
      BY <2>1 DEF EngineType, Poll, Packet
    <3>3. q \in Seq(Nat)
      BY <3>1, <3>2
    <3>4. e = "chip" => q \in Seq(Op)
      <4>1. e = "chip" /\ "RECEIVED" \in new => poll'["chip"].packet.id \in Op
        BY <1>0, <1>1, ChipReceives DEF Receive
      <4> HIDE DEF new
      <4> QED
        BY <3>1, <4>1
    <3> HIDE DEF q
    <3> QED
      BY <1>0, <3>1, <3>3, <3>4
  <2>5. confirmed' \in [End -> Nat]
    <3> DEFINE q == IF "SENT" \in poll'[e].activity \ poll[e].activity
                       /\ confirmed[e] < Len(Given(e))
                    THEN confirmed[e] + 1 ELSE confirmed[e]
    <3>1. confirmed' = [confirmed EXCEPT ![e] = q] /\ confirmed \in [End -> Nat]
      BY <1>1 DEF Receive, TypeOK
    <3>2. q \in Nat
      BY <3>1
    <3> HIDE DEF q
    <3> QED
      BY <3>1, <3>2
  <2>6. UNCHANGED <<dataQueue, queueHead, queueTail, phase, fetchNewCommand, responseExpected,
                    timeouts, sentOps, queued, completed, events, chipQueue, chipMayCall,
                    unsolicited, noise>>
    BY <1>1 DEF Receive, queueVars, hostVars, chipVars
  <2> QED
    BY <2>1, <2>3, <2>4, <2>5, <2>6 DEF TypeOK, EngineType, QueueType
<1>2. CASE OpenPoll
  <2>1. EngineType' /\ HostSendsOps'
    BY <1>2, ContinueTyped DEF OpenPoll
  <2>2. UNCHANGED <<dataQueue, queueHead, queueTail, fetchNewCommand, responseExpected,
                    timeouts, sentOps, queued, completed, arrived, confirmed, events,
                    chipQueue, chipMayCall, unsolicited, noise>>
        /\ phase' \in Phase
    BY <1>2 DEF OpenPoll, Phase, queueVars, chipVars
  <2> QED
    BY <2>1, <2>2 DEF TypeOK, EngineType, QueueType
<1>3. CASE SendOp
  <2>1. PICK rest \in Abandoned("host") :
          TransmitStep("host", ubcsp_send_packet(Returned("host"), Reliable(NextOp)),
                       line["chip"] \o rest)
    BY <1>3 DEF SendOp
  <2>2. NextOp \in Op
    BY <1>3, NextOpTyped DEF SendOp, dequeueIntoSendPacket, TypeOK
  <2> DEFINE c == ubcsp_send_packet(Returned("host"), Reliable(NextOp))
             w == line["chip"] \o rest
  <2>3. c \in Config
    BY <1>0, <2>2, ReturnedSends, OpPackets, SendType
  <2>4. SendsOps(c)
    <3>1. Reliable(NextOp).id \in Op
      BY <2>2, OpPackets
    <3>2. Returned("host") \in Config
      BY <1>0, ReturnedSends
    <3> QED
      BY <3>1, <3>2 DEF ubcsp_send_packet, SendsOps, Config, NoFrame, LeFrame
  <2>5. w \in Seq(Frame) /\ CarriesOps(w)
    BY <1>0, CarriesAbandoned DEF HostSendsOps, EngineType
  <2>6. EngineType' /\ HostSendsOps'
    <3> HIDE DEF c, w
    <3>1. TransmitStep("host", c, w)
      BY <2>1 DEF c, w
    <3> QED
      BY <1>0, <2>3, <2>4, <2>5, <3>1, TransmitType, HostTransmits
  <2>7. sentOps' \in Seq(Op)
    BY <1>3, <2>2 DEF SendOp, TypeOK
  <2>8. QueueType'
    BY <1>3, QueueSlotsAssumption, SMTT(30) DEF SendOp, dequeueIntoSendPacket, TypeOK, QueueType
  <2>9. completed' \subseteq Op
    BY <1>3 DEF SendOp, NoteCompleted, TypeOK
  <2>10. UNCHANGED <<phase, timeouts, queued, arrived, confirmed, events, chipQueue,
                     chipMayCall, unsolicited, noise>>
         /\ responseExpected' \in BOOLEAN /\ fetchNewCommand' \in BOOLEAN
    BY <1>3 DEF SendOp, chipVars
  <2> QED
    BY <2>6, <2>7, <2>8, <2>9, <2>10 DEF TypeOK, EngineType
<1>4. CASE PollOn
  <2>1. EngineType' /\ HostSendsOps'
    BY <1>4, ContinueTyped DEF PollOn
  <2>2. UNCHANGED <<dataQueue, queueHead, queueTail, phase, timeouts, queued, sentOps, arrived,
                    confirmed, events, chipQueue, chipMayCall, unsolicited, noise>>
    BY <1>4 DEF PollOn, queueVars, chipVars
  <2>3. completed' \subseteq Op
    BY <1>4 DEF PollOn, NoteCompleted, TypeOK
  <2>4. Fetch \in BOOLEAN /\ Expect \in BOOLEAN
    BY DEF Fetch, Expect, TypeOK
  <2>5. fetchNewCommand' \in BOOLEAN /\ responseExpected' \in BOOLEAN
    BY <1>4, <2>4 DEF PollOn
  <2> QED
    BY <2>1, <2>2, <2>3, <2>5 DEF TypeOK, EngineType, QueueType
<1>5. CASE Timeout
  <2>1. EngineType' /\ HostSendsOps'
    BY <1>5, ContinueTyped DEF Timeout
  <2>2. UNCHANGED <<dataQueue, queueHead, queueTail, phase, queued, sentOps, arrived,
                    confirmed, completed, events, chipQueue, chipMayCall, unsolicited, noise>>
        /\ fetchNewCommand' = TRUE /\ responseExpected' = TRUE
    BY <1>5 DEF Timeout, queueVars, chipVars
  <2>3. timeouts' \in 0 .. MaxTimeouts
    BY <1>5, MaxTimeoutsAssumption DEF Timeout, TypeOK
  <2> QED
    BY <2>1, <2>2, <2>3 DEF TypeOK, EngineType, QueueType
<1>6. CASE QueueOp
  <2>1. queued + 1 \in Op /\ queued' \in 0 .. MaxOps
    BY <1>6, MaxOpsAssumption DEF QueueOp, TypeOK
  <2>2. QueueType'
    BY <1>6, <2>1, QueueSlotsAssumption DEF QueueOp, queue_hci_op, TypeOK, QueueType
  <2>3. UNCHANGED <<config, poll, line, phase, fetchNewCommand, responseExpected, timeouts,
                    sentOps, arrived, confirmed, completed, events, chipQueue, chipMayCall, unsolicited, noise>>
    BY <1>6 DEF QueueOp, hostVars, chipVars
  <2>4. HostSendsOps'
    BY <2>3 DEF HostSendsOps, SendsOps, CarriesOps
  <2> QED
    BY <2>1, <2>2, <2>3, <2>4 DEF TypeOK
<1>7. CASE ChipPoll
  <2>1. PICK work \in ChipWork, rest \in Abandoned("chip") :
          LET free == chipMayCall \/ Sent("chip")
              submits == free /\ work # <<>>
          IN  /\ IF submits
                 THEN TransmitStep("chip", ubcsp_send_packet(Returned("chip"), Reliable(Len(events) + 1)),
                                   line["host"] \o rest)
                 ELSE rest = <<>> /\ TransmitStep("chip", Returned("chip"), line["host"])
              /\ chipMayCall' = (free /\ ~submits)
              /\ chipQueue' = IF submits THEN Tail(work) ELSE work
              /\ events' = IF submits THEN Append(events, Head(work)) ELSE events
              /\ unsolicited' = IF "RECEIVED" \notin poll["chip"].activity /\ work # chipQueue
                                THEN unsolicited + 1 ELSE unsolicited
              /\ UNCHANGED <<queueVars, hostVars, queued, arrived, confirmed, completed, noise>>
    BY <1>7 DEF ChipPoll
  <2>2. work \in Seq(Nat)
    <3>1. poll["chip"].packet.id \in Nat /\ chipQueue \in Seq(Nat)
      BY <1>0 DEF TypeOK, Poll, Packet
    <3>2. \A k \in Nat : \A a \in Answers : AnswerTo(k, a) \in Seq(Nat)
      BY AnswersAssumption DEF AnswerTo, Answer, Complete, Status
    <3>3. <<Notification>> \in Seq(Nat)
      BY DEF Notification
    <3>4. \A x \in Seq(Nat) : chipQueue \o x \in Seq(Nat)
      BY <3>1, ConcatProperties
    <3> QED
      BY <3>1, <3>2, <3>3, <3>4 DEF ChipWork
  <2>3. EngineType' /\ HostSendsOps'
    <3>1. Returned("chip") \in Config /\ line["host"] \in Seq(Frame)
      BY <1>0, ReturnedType DEF EngineType
    <3>2. CASE (chipMayCall \/ Sent("chip")) /\ work # <<>>
      <4>1. Len(events) + 1 \in Nat
        BY <1>0 DEF TypeOK
      <4>2. Reliable(Len(events) + 1) \in Packet
        BY <4>1 DEF Reliable, Packet
      <4> DEFINE c == ubcsp_send_packet(Returned("chip"), Reliable(Len(events) + 1))
                 w == line["host"] \o rest
      <4>3. c \in Config
        BY <3>1, <4>2, SendType
      <4>4. w \in Seq(Frame)
        BY <1>0, <3>1, AbandonedType, ConcatProperties
      <4>5. TransmitStep("chip", c, w)
        BY <2>1, <3>2
      <4> HIDE DEF c, w
      <4> QED
        BY <1>0, <4>3, <4>4, <4>5, TransmitType, ChipTransmits
    <3>3. CASE ~((chipMayCall \/ Sent("chip")) /\ work # <<>>)
      <4>1. TransmitStep("chip", Returned("chip"), line["host"])
        BY <2>1, <3>3
      <4> QED
        BY <1>0, <3>1, <4>1, TransmitType, ChipTransmits
    <3> QED
      BY <3>2, <3>3
  <2>4. chipQueue' \in Seq(Nat)
    <3>1. work # <<>> => Tail(work) \in Seq(Nat)
      BY <2>2
    <3> QED
      BY <2>1, <2>2, <3>1
  <2>5. chipMayCall' \in BOOLEAN /\ events' \in Seq(Nat)
    <3>1. events \in Seq(Nat)
      BY DEF TypeOK
    <3>2. work # <<>> => Head(work) \in Nat
      BY <2>2
    <3>3. events' = events \/ (work # <<>> /\ events' = Append(events, Head(work)))
      BY <2>1
    <3> QED
      BY <2>1, <3>1, <3>2, <3>3
  <2>6. unsolicited' \in 0 .. MaxUnsolicited
    <3>1. CASE "RECEIVED" \notin poll["chip"].activity /\ work # chipQueue
      <4>1. unsolicited < MaxUnsolicited
        BY <3>1 DEF ChipWork
      <4> QED
        BY <2>1, <3>1, <4>1, MaxUnsolicitedAssumption DEF TypeOK
    <3> QED
      BY <2>1, <3>1 DEF TypeOK
  <2>7. UNCHANGED <<dataQueue, queueHead, queueTail, phase, fetchNewCommand, responseExpected,
                    timeouts, sentOps, queued, arrived, confirmed, completed, noise>>
    BY <2>1 DEF queueVars, hostVars
  <2> QED
    BY <2>3, <2>4, <2>5, <2>6, <2>7 DEF TypeOK, EngineType, QueueType
<1>8. ASSUME NEW e \in End, Noise(e) PROVE TypeOK' /\ HostSendsOps'
  <2>1. /\ line \in [End -> Seq(Frame)] /\ line[e] \in Seq(Frame) /\ line[e] # <<>>
        /\ BadFrame \in Frame /\ noise \in [End -> Nat]
    BY <1>8, FrameTypes DEF Noise, TypeOK
  <2> DEFINE w == line'[e]
  <2>2. /\ w = Tail(line[e]) \/ w = <<BadFrame>> \o Tail(line[e])
        /\ line' = [line EXCEPT ![e] = w]
    BY <1>8, <2>1 DEF Noise
  <2>3. Tail(line[e]) \in Seq(Frame) /\ <<BadFrame>> \o Tail(line[e]) \in Seq(Frame)
    BY <2>1
  <2>4. line["chip"] # <<>> => /\ CarriesOps(Tail(line["chip"]))
                               /\ CarriesOps(<<BadFrame>> \o Tail(line["chip"]))
    BY <1>0, <2>1, CarriesFewer, CarriesDamaged DEF HostSendsOps
  <2> HIDE DEF w
  <2>5. line' \in [End -> Seq(Frame)]
    <3>1. w \in Seq(Frame)
      BY <2>2, <2>3
    <3> QED
      BY <2>1, <2>2, <3>1
  <2>6. UNCHANGED <<config, poll, dataQueue, queueHead, queueTail, phase, fetchNewCommand,
                    responseExpected, timeouts, sentOps, queued, arrived, confirmed, completed,
                    events, chipQueue, chipMayCall, unsolicited>>
    BY <1>8 DEF Noise, queueVars, hostVars, chipVars
  <2>7. CarriesOps(line'["chip"])
    BY <1>0, <2>1, <2>2, <2>4 DEF HostSendsOps
  <2>8. HostSendsOps'
    BY <2>6, <2>7 DEF HostSendsOps, SendsOps, CarriesOps
  <2>9. noise' \in [End -> Nat]
    BY <1>8, <2>1 DEF Noise
  <2> QED
    BY <2>5, <2>6, <2>8, <2>9 DEF TypeOK, QueueType
<1>9. CASE UNCHANGED vars
  <2>1. TypeOK'
    BY <1>9 DEF vars, TypeOK, QueueType
  <2>2. HostSendsOps'
    BY <1>9 DEF vars, HostSendsOps, SendsOps, CarriesOps
  <2> QED
    BY <2>1, <2>2
<1> QED
  BY <1>1, <1>2, <1>3, <1>4, <1>5, <1>6, <1>7, <1>8, <1>9 DEF Next


-----------------------------------------------------------------------------(* The queue.                                                              *)

\* What was given to the engine and what waits in the slots are numbered on from
\* one, up to the last operation queued.
QueueInStep ==
  /\ queueHead <= queueTail
  /\ Len(sentOps) + (queueTail - queueHead) = queued
  /\ \A i \in 1 .. Len(sentOps) : sentOps[i] = i
  /\ \A j \in 1 .. queueTail - queueHead : dataQueue[queueHead + j - 1] = Len(sentOps) + j

\* The operations that wait are operations.
LEMMA PendingIs ==
  ASSUME QueueType, queueHead <= queueTail
  PROVE  /\ Pending \in Seq(Op)
         /\ Len(Pending) = queueTail - queueHead
         /\ \A j \in 1 .. queueTail - queueHead : Pending[j] = dataQueue[queueHead + j - 1]
<1> DEFINE n == queueTail - queueHead
<1>1. n \in Nat /\ queueHead \in Nat /\ queueTail <= QueueSlots /\ queueTail \in Nat
  BY QueueSlotsAssumption DEF QueueType
<1>2. \A j \in 1 .. n : queueHead + j - 1 \in 0 .. QueueSlots - 1
  BY <1>1, QueueSlotsAssumption
<1>3. \A j \in 1 .. n : dataQueue[queueHead + j - 1] \in Op
  BY <1>2 DEF QueueType
<1>4. Pending = [j \in 1 .. n |-> dataQueue[queueHead + j - 1]]
  BY DEF Pending
<1> HIDE DEF n
<1>5. Pending \in [1 .. n -> Op] /\ DOMAIN Pending = 1 .. n
  BY <1>3, <1>4
<1>6. Pending \in Seq(Op)
  BY <1>1, <1>5, SeqDef
<1>7. Len(Pending) = n
  BY <1>1, <1>5, <1>6, LenProperties
<1> QED
  BY <1>4, <1>6, <1>7 DEF n

\* So nothing is lost, repeated or overtaken.
LEMMA InStepKeepsOrder ==
  ASSUME TypeOK, QueueInStep
  PROVE  QueueKeepsOrder
<1> DEFINE n == Len(sentOps)
           p == queueTail - queueHead
           w == [i \in 1 .. queued |-> i]
<1>1. /\ sentOps \in Seq(Op) /\ QueueType /\ queued \in 0 .. MaxOps /\ n \in Nat
      /\ Op = 1 .. MaxOps /\ MaxOps \in Nat
  BY MaxOpsAssumption DEF TypeOK
<1>2. /\ Pending \in Seq(Op) /\ Len(Pending) = p
      /\ \A j \in 1 .. p : Pending[j] = n + j
  BY <1>1, PendingIs DEF QueueInStep
<1>3. p \in Nat /\ n + p = queued /\ \A i \in 1 .. n : sentOps[i] = i
  BY <1>1 DEF QueueInStep, QueueType
<1>4. /\ sentOps \o Pending \in Seq(Op)
      /\ Len(sentOps \o Pending) = n + p
      /\ \A i \in 1 .. n + p : (sentOps \o Pending)[i] =
                                 IF i <= n THEN sentOps[i] ELSE Pending[i - n]
  <2>1. /\ sentOps \o Pending \in Seq(Op)
        /\ Len(sentOps \o Pending) = Len(sentOps) + Len(Pending)
        /\ \A i \in 1 .. Len(sentOps) + Len(Pending) :
             (sentOps \o Pending)[i] =
                IF i <= Len(sentOps) THEN sentOps[i] ELSE Pending[i - Len(sentOps)]
    BY <1>1, <1>2, ConcatProperties
  <2> QED
    BY <1>2, <2>1
<1>5. /\ w \in Seq(Op) /\ Len(w) = queued
      /\ \A i \in 1 .. queued : w[i] = i
  <2>1. w \in [1 .. queued -> Op] /\ DOMAIN w = 1 .. queued
    BY <1>1
  <2>2. queued \in Nat
    BY <1>1
  <2>3. w \in Seq(Op)
    BY <2>1, <2>2, SeqDef
  <2>4. Len(w) = queued
    BY <2>1, <2>2, <2>3, LenProperties
  <2> QED
    BY <2>3, <2>4
<1> HIDE DEF n, p, w
<1>6. \A i \in 1 .. n + p : (sentOps \o Pending)[i] = i
  <2> SUFFICES ASSUME NEW i \in 1 .. n + p PROVE (sentOps \o Pending)[i] = i
    OBVIOUS
  <2>1. CASE i <= n
    BY <1>1, <1>3, <1>4, <2>1
  <2>2. CASE ~(i <= n)
    <3>1. i - n \in 1 .. p /\ n + (i - n) = i
      BY <1>1, <1>3, <2>2
    <3> QED
      BY <1>2, <1>4, <2>2, <3>1
  <2> QED
    BY <2>1, <2>2
<1>7. sentOps \o Pending = w
  <2>1. \A i \in 1 .. Len(sentOps \o Pending) : (sentOps \o Pending)[i] = w[i]
    BY <1>3, <1>4, <1>5, <1>6
  <2>2. Len(sentOps \o Pending) = Len(w)
    BY <1>3, <1>4, <1>5
  <2> QED
    BY <1>4, <1>5, <2>1, <2>2, SeqEqual
<1> QED
  BY <1>7 DEF QueueKeepsOrder, w

\* Both threads keep the queue in step: the session thread fills the slot at the
\* tail, the poll thread empties the one at the head and starts again at slot 0
\* when there is no other.
LEMMA StepKeepsQueue ==
  ASSUME TypeOK, QueueInStep, [Next]_vars
  PROVE  QueueInStep'
<1> DEFINE n == Len(sentOps)
           p == queueTail - queueHead
<1>1. /\ queueHead \in Nat /\ queueTail \in Nat /\ n \in Nat /\ queued \in Nat
      /\ dataQueue \in [0 .. QueueSlots - 1 -> Op] /\ QueueSlots \in Nat
      /\ sentOps \in Seq(Op)
  BY QueueSlotsAssumption DEF TypeOK, QueueType
<1>2. /\ queueHead <= queueTail /\ n + p = queued
      /\ \A i \in 1 .. n : sentOps[i] = i
      /\ \A j \in 1 .. p : dataQueue[queueHead + j - 1] = n + j
  BY DEF QueueInStep
<1>3. CASE UNCHANGED <<dataQueue, queueHead, queueTail, queued, sentOps>>
  BY <1>3 DEF QueueInStep
<1>4. CASE SendOp
  <2>1. queueHead < queueTail /\ queued' = queued /\ dataQueue' = dataQueue
        /\ sentOps' = Append(sentOps, NextOp)
    BY <1>4 DEF SendOp, dequeueIntoSendPacket
  <2>2. NextOp = n + 1
    <3>1. 1 \in 1 .. p /\ queueHead + 1 - 1 = queueHead
      BY <1>1, <2>1
    <3>2. dataQueue[queueHead + 1 - 1] = n + 1
      BY <1>2, <3>1
    <3> QED
      BY <3>1, <3>2 DEF NextOp
  <2>3. NextOp \in Op
    BY <2>1, NextOpTyped DEF TypeOK
  <2>4. /\ Len(sentOps') = n + 1
        /\ \A i \in 1 .. n : sentOps'[i] = sentOps[i]
        /\ sentOps'[n + 1] = NextOp
    BY <1>1, <2>1, <2>3, AppendProperties
  <2>5. \A i \in 1 .. n + 1 : sentOps'[i] = i
    <3> HIDE DEF n
    <3>1. \A i \in 1 .. n + 1 : i \in 1 .. n \/ i = n + 1
      BY <1>1
    <3> QED
      BY <1>2, <2>2, <2>4, <3>1
  <2>6. CASE queueHead + 1 = queueTail
    <3>1. queueHead' = 0 /\ queueTail' = 0
      BY <1>4, <2>6 DEF SendOp, dequeueIntoSendPacket
    <3>2. n + 1 = queued
      BY <1>1, <1>2, <2>6
    <3> QED
      BY <2>1, <2>4, <2>5, <3>1, <3>2 DEF QueueInStep
  <2>7. CASE queueHead + 1 # queueTail
    <3>1. queueHead' = queueHead + 1 /\ queueTail' = queueTail
      BY <1>4, <2>7 DEF SendOp, dequeueIntoSendPacket
    <3>2. n + 1 + (queueTail' - queueHead') = queued' /\ queueHead' <= queueTail'
      <4>1. queueTail' - queueHead' = queueTail - (queueHead + 1)
        BY <3>1
      <4>2. n + 1 + (queueTail - (queueHead + 1)) = n + p
        BY <1>1
      <4>3. queueHead + 1 <= queueTail
        BY <1>1, <2>1
      <4> QED
        BY <1>2, <2>1, <3>1, <4>1, <4>2, <4>3
    <3>3. \A j \in 1 .. queueTail' - queueHead' :
            dataQueue'[queueHead' + j - 1] = n + 1 + j
      <4> SUFFICES ASSUME NEW j \in 1 .. queueTail' - queueHead'
                   PROVE  dataQueue'[queueHead' + j - 1] = n + 1 + j
        OBVIOUS
      <4>1. j + 1 \in 1 .. p /\ queueHead + (j + 1) - 1 = queueHead' + j - 1
            /\ n + (j + 1) = n + 1 + j
        BY <1>1, <3>1
      <4>2. dataQueue[queueHead + (j + 1) - 1] = n + (j + 1)
        BY <1>2, <4>1
      <4> QED
        BY <2>1, <4>1, <4>2
    <3> QED
      BY <2>4, <2>5, <3>2, <3>3 DEF QueueInStep
  <2> QED
    BY <2>6, <2>7
<1>5. CASE QueueOp
  <2>1. /\ queueTail < QueueSlots
        /\ dataQueue' = [dataQueue EXCEPT ![queueTail] = queued + 1]
        /\ queueTail' = queueTail + 1 /\ queued' = queued + 1
        /\ UNCHANGED <<queueHead, sentOps>>
    BY <1>5 DEF QueueOp, queue_hci_op, hostVars
  <2>2. \A j \in 1 .. queueTail' - queueHead' : dataQueue'[queueHead' + j - 1] = n + j
    <3> SUFFICES ASSUME NEW j \in 1 .. queueTail' - queueHead'
                 PROVE  dataQueue'[queueHead' + j - 1] = n + j
      OBVIOUS
    <3>1. CASE j <= p
      <4>1. j \in 1 .. p /\ queueHead + j - 1 \in 0 .. QueueSlots - 1
            /\ queueHead + j - 1 # queueTail
        BY <1>1, <1>2, <2>1, <3>1
      <4> QED
        BY <1>1, <1>2, <2>1, <4>1
    <3>2. CASE ~(j <= p)
      <4>1. j = p + 1 /\ queueHead + j - 1 = queueTail /\ n + j = queued + 1
            /\ queueTail \in 0 .. QueueSlots - 1
        BY <1>1, <1>2, <2>1, <3>2
      <4> QED
        BY <1>1, <2>1, <4>1
    <3> QED
      BY <3>1, <3>2
  <2>3. n + (queueTail' - queueHead') = queued' /\ queueHead' <= queueTail'
    BY <1>1, <1>2, <2>1
  <2> QED
    BY <1>2, <2>1, <2>2, <2>3 DEF QueueInStep
<1> QED
  BY <1>3, <1>4, <1>5
  DEF Next, Receive, Noise, OpenPoll, PollOn, Timeout, ChipPoll, vars, queueVars, hostVars

\* The queue is empty in the first state.
LEMMA InitInStep == Init => QueueInStep
<1>1. Len(<<>>) = 0 /\ 0 + (0 - 0) = 0
  OBVIOUS
<1> QED
  BY <1>1 DEF Init, QueueInit, QueueInStep

\* The inductive invariant of the operation queue.
LEMMA QueueInvariant == Spec => [](TypeOK /\ QueueInStep)
<1> DEFINE Inv == TypeOK /\ HostSendsOps /\ QueueInStep
<1>1. Init => Inv
  BY InitTyped, InitInStep
<1>2. Inv /\ [Next]_vars => Inv'
  BY StepTyped, StepKeepsQueue DEF QueueInStep
<1> QED
  BY <1>1, <1>2, PTL DEF Spec

\* Every reachable state of the poll loop, the two engines and the queue is well
\* typed: no slot beyond the arrays is read, no client's operation is torn, and
\* nothing comes out at the chip that is no operation (hci_do_poll).
THEOREM PollTypeCorrect == Spec => []TypeOK
BY QueueInvariant, PTL

\* The operations the engine is given, and those that wait, are the ones queued,
\* once each and in the order the clients queued them, however the two threads
\* interleave and whenever the indices start again (queue_hci_op,
\* dequeueIntoSendPacket).
THEOREM QueueOrderHolds == Spec => []QueueKeepsOrder
<1>1. TypeOK /\ QueueInStep => QueueKeepsOrder
  BY InStepKeepsOrder
<1> QED
  BY <1>1, QueueInvariant, PTL

-----------------------------------------------------------------------------
(* The link below: BcspLink, with the poll loop and the chip as callers.   *)

\* The caller at the host may submit when SENT was reported and nothing given since.
MayCall == [e \in End |-> IF e = "host" THEN IsActive(e) /\ ~Held(e) /\ ~Sent(e)
                                        ELSE chipMayCall]

Outstanding ==
  [e \in End |-> IF Given(e) = <<>> \/ MayCall[e] THEN NoPacket
                                                  ELSE Reliable(Len(Given(e)))]

Packets == [e \in End |-> Len(Given(e))]
Submitted == [e \in End |-> [i \in 1 .. Len(Given(e)) |-> i]]

\* All packets are reliable; the line is as noisy as that of the poll loop.
Link == INSTANCE BcspWindowProof WITH
  MaxPackets <- [e \in End |-> MaxOps + 1],
  Reliability <- [e \in End |-> {TRUE}],
  MaxNoise <- MaxNoise,
  outstanding <- Outstanding,
  mayCall <- MayCall,
  packets <- Packets,
  submitted <- Submitted,
  delivered <- arrived,
  noise <- noise

\* The assumptions on the constants of the link.
LEMMA LinkConstants ==
  /\ [e \in End |-> MaxOps + 1] \in [Link!End -> Nat]
  /\ [e \in End |-> {TRUE}] \in [Link!End -> SUBSET BOOLEAN]
  /\ MaxNoise \in [Link!End -> Nat]
BY MaxOpsAssumption, NoiseAssumption DEF Link!End, End

\* The engines of the link are those of the poll loop.
LEMMA SameTypes ==
  /\ Link!End = End
  /\ \A e : Link!Other(e) = Other(e)
  /\ Link!Config = Config /\ Link!Poll = Poll /\ Link!Frame = Frame /\ Link!Packet = Packet
  /\ Link!active = active /\ Link!NoPacket = NoPacket
  /\ Link!NoFrame = NoFrame /\ Link!BadFrame = BadFrame
  /\ Link!LeMessage = LeMessage
BY DEF Link!End, End, Link!Other, Other, Link!Config, Config, Link!Poll, Poll, Link!Frame, Frame,
       Link!Packet, Packet, Link!active, active, Link!NoPacket, NoPacket, Link!NoFrame, NoFrame,
       Link!BadFrame, BadFrame, Link!LeFrame, LeFrame, Link!LeMessage, LeMessage,
       Link!uninitialized, uninitialized, Link!initialized, initialized,
       Link!Activity, Activity

LEMMA SameCalls ==
  ASSUME NEW e
  PROVE  /\ Link!Returned(e) = Returned(e)
         /\ Link!Sent(e) <=> Sent(e)
         /\ Link!Abandoned(e) = Abandoned(e)
         /\ \A c, p : Link!ubcsp_send_packet(c, p) = ubcsp_send_packet(c, p)
         /\ Link!EngineType <=> EngineType
BY SameTypes
DEF Link!Returned, Returned, Link!Polled, Polled, Link!ubcsp_receive_packet, ubcsp_receive_packet,
    Link!Sent, Sent, Link!Abandoned, Abandoned, Link!ubcsp_send_packet, ubcsp_send_packet,
    Link!EngineType, EngineType

LEMMA SameTransmit ==
  ASSUME NEW e, NEW c, NEW w, TransmitStep(e, c, w)
  PROVE  Link!TransmitStep(e, c, w)
<1>1. \A k : Link!LeFrame(k) = LeFrame(k)
  BY SameTypes DEF Link!LeFrame, LeFrame
<1>2. Link!AckFrame(c) = AckFrame(c) /\ Link!DataFrame(c) = DataFrame(c)
  BY SameTypes DEF Link!AckFrame, AckFrame, Link!DataFrame, DataFrame
<1>3. Link!Established(c) = Established(c)
  BY <1>1 DEF Link!Established, Established, Link!NextLePacket, NextLePacket,
     Link!next_le_packet, next_le_packet
<1>4. Link!SentUnreliable(c) <=> SentUnreliable(c)
  BY SameTypes DEF Link!SentUnreliable, SentUnreliable
<1>5. \A d, v, x, a : Link!EnterReceive(e, d, v, x, a) <=> EnterReceive(e, d, v, x, a)
  BY SameTypes DEF Link!EnterReceive, EnterReceive
<1>6. Link!Ready(c) <=> Ready(c)
  BY SameTypes DEF Link!Ready, Ready
<1> QED
  BY <1>1, <1>2, <1>3, <1>4, <1>5, <1>6, SameTypes
  DEF Link!TransmitStep, TransmitStep, Link!SendDelayed, SendDelayed, Link!SendOctet, SendOctet,
      Link!SendLast, SendLast, Link!StartLe, StartLe, Link!StartConfResp, StartConfResp,
      Link!StartData, StartData, Link!StartAck, StartAck, Link!SendNothing, SendNothing

LEMMA SameReceive ==
  ASSUME NEW e, ReceiveStep(e)
  PROVE  Link!ReceiveStep(e)
<1> DEFINE f == Head(line[e])
           b == config[e]
<1>1. Link!AfterAck(b, f) = AfterAck(b, f) /\ Link!AckActivity(b, f) = AckActivity(b, f)
  BY SameTypes DEF Link!AfterAck, AfterAck, Link!AckActivity, AckActivity,
     Link!Acknowledged, Acknowledged
<1>2. \A kinds : Link!Receiving(e, kinds) <=> Receiving(e, kinds)
  BY DEF Link!Receiving, Receiving
<1>3. \A c, a : Link!Take(e, c, a) <=> Take(e, c, a)
  BY DEF Link!Take, Take
<1>4. \A c : Link!ubcsp_initialize(c) = ubcsp_initialize(c)
  BY SameTypes DEF Link!ubcsp_initialize, ubcsp_initialize, Link!uninitialized, uninitialized
<1>5. Link!Abandoned(e) = Abandoned(e)
  BY SameCalls
<1>6. /\ ReceiveBad(e) => Link!ReceiveBad(e)
      /\ ReceiveSync(e) => Link!ReceiveSync(e)
      /\ ReceivePeerReset(e) => Link!ReceivePeerReset(e)
  BY <1>1, <1>2, <1>3, <1>4, <1>5, SameTypes
  DEF Link!ReceiveBad, ReceiveBad, Link!ReceiveSync, ReceiveSync,
      Link!ReceivePeerReset, ReceivePeerReset
<1>7. /\ ReceiveSyncResp(e) => Link!ReceiveSyncResp(e)
      /\ ReceiveConf(e) => Link!ReceiveConf(e)
      /\ ReceiveConfResp(e) => Link!ReceiveConfResp(e)
  BY <1>1, <1>2, <1>3, <1>5, SameTypes
  DEF Link!ReceiveSyncResp, ReceiveSyncResp, Link!ReceiveConf, ReceiveConf,
      Link!ReceiveConfResp, ReceiveConfResp, Link!initialized, initialized
<1>8. /\ ReceiveAck(e) => Link!ReceiveAck(e)
      /\ ReceiveDuplicate(e) => Link!ReceiveDuplicate(e)
      /\ ReceivePacket(e) => Link!ReceivePacket(e)
  BY <1>1, <1>2, <1>3, SameTypes
  DEF Link!ReceiveAck, ReceiveAck, Link!ReceiveDuplicate, ReceiveDuplicate,
      Link!ReceivePacket, ReceivePacket
<1> QED
  BY <1>6, <1>7, <1>8 DEF Link!ReceiveStep, ReceiveStep

-----------------------------------------------------------------------------
(* What the invariants of the link say of the poll loop.                   *)

LinkInv == Link!TypeOK /\ Link!Handshake /\ Link!WindowOfOne

\* The numbers from one are a sequence.
LEMMA NumbersAre ==
  ASSUME NEW n \in Nat
  PROVE  /\ [i \in 1 .. n |-> i] \in Seq(Nat)
         /\ Len([i \in 1 .. n |-> i]) = n
         /\ [i \in 1 .. n + 1 |-> i] = Append([i \in 1 .. n |-> i], n + 1)
<1> DEFINE s == [i \in 1 .. n |-> i]
           t == [i \in 1 .. n + 1 |-> i]
<1>1. s \in Seq(Nat) /\ Len(s) = n /\ t \in Seq(Nat) /\ Len(t) = n + 1
  <2>1. s \in [1 .. n -> Nat] /\ t \in [1 .. n + 1 -> Nat] /\ n + 1 \in Nat
    OBVIOUS
  <2> HIDE DEF s, t
  <2>2. s \in Seq(Nat) /\ t \in Seq(Nat)
    BY <2>1, SeqDef
  <2> QED
    BY <2>1, <2>2, LenProperties
<1>2. /\ Append(s, n + 1) \in Seq(Nat) /\ Len(Append(s, n + 1)) = n + 1
      /\ \A i \in 1 .. n : Append(s, n + 1)[i] = s[i]
      /\ Append(s, n + 1)[n + 1] = n + 1
  <2> HIDE DEF s
  <2> QED
    BY <1>1, AppendProperties
<1>3. /\ \A i \in 1 .. n : s[i] = i
      /\ \A i \in 1 .. n + 1 : t[i] = i
      /\ \A i \in 1 .. n + 1 : i \in 1 .. n \/ i = n + 1
  OBVIOUS
<1> HIDE DEF s, t
<1>4. \A i \in 1 .. n + 1 : t[i] = Append(s, n + 1)[i]
  BY <1>2, <1>3
<1>5. t = Append(s, n + 1)
  BY <1>1, <1>2, <1>4, SeqEqual
<1> QED
  BY <1>1, <1>5 DEF s, t

LEMMA LinkTyped ==
  ASSUME TypeOK
  PROVE  /\ Link!TypeOK /\ EngineType
         /\ \A e \in End : Given(e) \in Seq(Nat) /\ Len(Given(e)) \in Nat
<1>1. \A e \in End : Given(e) \in Seq(Nat) /\ Len(Given(e)) \in Nat
  <2>1. Op \subseteq Nat
    BY MaxOpsAssumption
  <2>2. sentOps \in Seq(Op) /\ events \in Seq(Nat)
    BY DEF TypeOK
  <2>3. sentOps \in Seq(Nat)
    <3>1. sentOps \in [1 .. Len(sentOps) -> Op] /\ Len(sentOps) \in Nat
      BY <2>2, LenProperties
    <3>2. sentOps \in [1 .. Len(sentOps) -> Nat]
      BY <2>1, <3>1
    <3> QED
      BY <3>1, <3>2, SeqDef
  <2> QED
    BY <2>2, <2>3 DEF Given
<1>2. Packets \in [End -> Nat]
  BY <1>1 DEF Packets
<1>3. Submitted \in [End -> Seq(Nat)]
  BY <1>1, NumbersAre DEF Submitted
<1>4. MayCall \in [End -> BOOLEAN]
  BY DEF MayCall, IsActive, Held, Sent, TypeOK
<1>5. Outstanding \in [End -> Packet]
  <2>1. \A n \in Nat : Reliable(n) \in Packet
    BY DEF Reliable, Packet
  <2> QED
    BY <1>1, <2>1, FrameTypes DEF Outstanding
<1>6. /\ [e \in End |-> {}] \in [End -> SUBSET Nat] /\ [e \in End |-> 0] \in [End -> Nat]
  OBVIOUS
<1> QED
  BY <1>1, <1>2, <1>3, <1>4, <1>5, <1>6, SameTypes DEF Link!TypeOK, TypeOK, EngineType

\* The link in the first state.
LEMMA LinkStarts == Init => Link!Init
<1> SUFFICES ASSUME Init PROVE Link!Init
  OBVIOUS
<1>1. \A e \in End : Given(e) = <<>> /\ ~IsActive(e)
  <2>1. FirstConfig.link_establishment_state = uninitialized
    BY DEF FirstConfig, Established, Boot
  <2> QED
    BY <2>1 DEF Init, Given, IsActive, uninitialized, active
<1>2. Len(<<>>) = 0 /\ [i \in 1 .. 0 |-> i] = <<>>
  OBVIOUS
<1>3. MayCall = [e \in End |-> FALSE]
  <2>1. chipMayCall = FALSE
    BY DEF Init
  <2>2. \A e \in End : (IsActive(e) /\ ~Held(e) /\ ~Sent(e)) = FALSE
    BY <1>1
  <2>3. \A e \in End : (IF e = "host" THEN IsActive(e) /\ ~Held(e) /\ ~Sent(e)
                                     ELSE chipMayCall) = FALSE
    BY <2>1, <2>2
  <2> QED
    BY <2>3 DEF MayCall
<1>4. /\ Outstanding = [e \in End |-> NoPacket]
      /\ Packets = [e \in End |-> 0]
      /\ Submitted = [e \in End |-> <<>>]
  BY <1>1, <1>2 DEF Outstanding, Packets, Submitted
<1>5. Link!FirstConfig = FirstConfig /\ Link!FirstPoll = FirstPoll
  BY SameTypes
  DEF Link!FirstConfig, FirstConfig, Link!Established, Established, Link!Boot, Boot,
      Link!NextLePacket, NextLePacket, Link!next_le_packet, next_le_packet,
      Link!FirstPoll, FirstPoll, Link!LeFrame, LeFrame, Link!uninitialized, uninitialized
<1> QED
  BY <1>3, <1>4, <1>5, SameTypes DEF Link!Init, Init

\* What was submitted, delivered and reported sent in each direction, and what the
\* engine and its caller know of it.
LEMMA WindowSays ==
  ASSUME TypeOK, Link!WindowOfOne, NEW e \in End
  PROVE  LET n == confirmed[e]
             k == Len(arrived[Other(e)])
             m == Len(Given(e))
             s == config[e].sequence_number
         IN  /\ n \in Nat /\ k \in Nat /\ m \in Nat
             /\ n <= k /\ k <= m /\ m <= n + 1
             /\ s \in 0 .. SeqModulus - 1
             /\ (s + 1) % SeqModulus \in 0 .. SeqModulus - 1 /\ (s + 1) % SeqModulus # s
             /\ config[Other(e)].ack_number = IF k = n THEN s ELSE (s + 1) % SeqModulus
             /\ n = 0 => s = 0
             /\ Held(e) <=> m = n + 1
             /\ Held(e) => config[e].send_packet = Reliable(m)
             /\ MayCall[e] \/ Sent(e) => ~Held(e)
             /\ "RECEIVED" \in poll[e].activity => ~config[e].receive_packet
             /\ ~IsActive(e) => ~Held(e) /\ ~MayCall[e] /\ ~Sent(e) /\ Outstanding[e] = NoPacket
<1>1. /\ EngineType /\ Other(e) \in End /\ Len(Given(e)) \in Nat
      /\ Len(arrived[Other(e)]) \in Nat /\ confirmed[e] \in Nat
  <2>1. EngineType /\ Other(e) \in End /\ Len(Given(e)) \in Nat
    BY LinkTyped, Ends
  <2>2. arrived[Other(e)] \in Seq(Nat) /\ confirmed[e] \in Nat
    BY <2>1 DEF TypeOK
  <2> QED
    BY <2>1, <2>2
<1>2. /\ config[e].sequence_number \in 0 .. SeqModulus - 1
      /\ config[e].send_packet \in Packet
  BY <1>1 DEF EngineType, Config
<1>3. Len(Submitted[e]) = Len(Given(e))
  BY <1>1, NumbersAre DEF Submitted
<1>4. Link!CallerInStep(e) /\ Link!Counted(e)
  BY SameTypes DEF Link!WindowOfOne
<1>5. (Link!Sent(e) <=> Sent(e)) /\ Link!Other(e) = Other(e) /\ Link!NoPacket = NoPacket
      /\ Link!active = active
  BY SameCalls, SameTypes
<1>6. /\ MayCall[e] \/ Sent(e) => ~Held(e)
      /\ Held(e) => Outstanding[e] = config[e].send_packet
      /\ "RECEIVED" \in poll[e].activity => ~config[e].receive_packet
      /\ ~IsActive(e) => ~Held(e) /\ ~MayCall[e] /\ ~Sent(e) /\ Outstanding[e] = NoPacket
  BY <1>4, <1>5 DEF Link!CallerInStep, Held, IsActive
<1>7. Held(e) => config[e].send_packet = Reliable(Len(Given(e)))
  BY <1>6 DEF Outstanding, Held
<1>8. Held(e) <=> config[e].send_packet.reliable
  BY <1>7 DEF Held, Reliable, NoPacket
<1>9. \A s \in 0 .. SeqModulus - 1 :
        (s + 1) % SeqModulus \in 0 .. SeqModulus - 1 /\ (s + 1) % SeqModulus # s
  <2> SUFFICES ASSUME NEW s \in 0 .. SeqModulus - 1
               PROVE  (s + 1) % SeqModulus \in 0 .. SeqModulus - 1 /\ (s + 1) % SeqModulus # s
    OBVIOUS
  <2> QED
    BY SeqModulusAssumption
<1> QED
  BY <1>1, <1>2, <1>3, <1>4, <1>5, <1>6, <1>7, <1>8, <1>9 DEF Link!Counted

\* The frames of l, and x behind them.
Frames(l, x) == {l[i] : i \in 1 .. Len(l)} \cup {x}

LEMMA FramesTrimmed ==
  ASSUME NEW l \in Seq(Frame), NEW x \in Frame, NEW m, NEW y, Link!Trims(l, x, m, y)
  PROVE  Frames(m, y) \subseteq Frames(l, x) \cup {NoFrame, BadFrame}
<1>1. NoFrame \in Frame /\ BadFrame \in Frame /\ Len(l) \in Nat
      /\ Link!NoFrame = NoFrame /\ Link!BadFrame = BadFrame
  BY FrameTypes, SameTypes
<1>2. \A z \in Frame : /\ Len(Append(l, z)) = Len(l) + 1
                       /\ \A i \in 1 .. Len(l) : Append(l, z)[i] = l[i]
                       /\ Append(l, z)[Len(l) + 1] = z
  BY AppendProperties
<1>3. ASSUME NEW z \in {x, BadFrame}, m = Append(l, z), y = NoFrame
      PROVE  Frames(m, y) \subseteq Frames(l, x) \cup {NoFrame, BadFrame}
  <2>1. Len(m) = Len(l) + 1 /\ \A i \in 1 .. Len(m) : m[i] = z \/ (i \in 1 .. Len(l) /\ m[i] = l[i])
    BY <1>1, <1>2, <1>3
  <2> QED
    BY <1>3, <2>1 DEF Frames
<1>4. CASE l # <<>> /\ m = Tail(l) /\ y = x
  <2>1. Len(m) = Len(l) - 1 /\ \A i \in 1 .. Len(m) : m[i] = l[i + 1]
    BY <1>4, HeadTailProperties
  <2>2. \A i \in 1 .. Len(m) : i + 1 \in 1 .. Len(l)
    BY <1>1, <2>1
  <2> QED
    BY <1>4, <2>1, <2>2 DEF Frames
<1>5. CASE l # <<>> /\ m = <<BadFrame>> \o Tail(l) /\ y = x
  <2>1. Len(m) = Len(l) /\ \A i \in 1 .. Len(l) : m[i] = IF i = 1 THEN BadFrame ELSE l[i]
    BY <1>1, <1>5, Link!LineFrames, SameTypes, LinkConstants, SeqModulusAssumption,
       PollDelayAssumption, LineMaxAssumption
  <2> QED
    BY <1>1, <1>5, <2>1 DEF Frames
<1>6. CASE m = l /\ y \in {x, NoFrame}
  BY <1>6 DEF Frames
<1> QED
  BY <1>1, <1>3, <1>4, <1>5, <1>6 DEF Link!Trims

LEMMA ComingIs ==
  ASSUME EngineType, NEW e \in End
  PROVE  /\ Coming(e) = Frames(line[e], config[Other(e)].sending)
         /\ Coming(e) \subseteq Frame
         /\ line[e] \in Seq(Frame) /\ config[Other(e)].sending \in Frame
         /\ \A S : Link!Without(line[e], config[Other(e)].sending, S)
                     <=> \A f \in Coming(e) : f \notin S
<1>1. line[e] \in Seq(Frame) /\ config[Other(e)].sending \in Frame
  BY Ends DEF EngineType, Config
<1> QED
  BY <1>1 DEF Coming, Frames, Link!Without, Link!Has

\* What the frames on their way to e acknowledge, and what is new in them.
LEMMA FramesSay ==
  ASSUME TypeOK, Link!WindowOfOne, NEW e \in End
  PROVE  LET n == confirmed[e]
             k == Len(arrived[Other(e)])
             m == Len(Given(e))
             s == config[e].sequence_number
             a == config[Other(e)].ack_number
         IN  /\ \A f \in Coming(e) : f.kind \notin {"bad", "none"}
                  => f.ack = s \/ (k # n /\ f.ack = a)
             /\ k = m => \A f \in Coming(Other(e)) :
                           f.kind = "data" /\ f.packet.reliable => f.seq # a
             /\ n > 0 => Link!Quiet(config[Other(e)])
<1> DEFINE o == Other(e)
           l == line[e]
           x == config[o].sending
<1>1. EngineType /\ o \in End /\ Other(o) = e /\ Len(Given(e)) \in Nat
  BY LinkTyped, Ends
<1>2. Link!DataInOrder(e) /\ Link!AcksInOrder(e) /\ Link!EstablishmentOver(e)
  BY SameTypes DEF Link!WindowOfOne
<1>3. Link!Other(e) = o /\ Link!Frame = Frame
  BY SameTypes
<1>4. Coming(e) \subseteq Frame /\ Coming(o) \subseteq Frame
  BY <1>1, ComingIs
<1>5. /\ \A S : Link!Without(l, x, S) <=> \A f \in Coming(e) : f \notin S
      /\ \A S : Link!Without(line[o], config[e].sending, S) <=> \A f \in Coming(o) : f \notin S
  BY <1>1, ComingIs
<1>6. Len(Submitted[e]) = Len(Given(e))
  BY <1>1, NumbersAre DEF Submitted
<1>7. \A f \in Coming(e) : f.kind \notin {"bad", "none"}
        => \/ f.ack = config[e].sequence_number
           \/ Len(arrived[o]) # confirmed[e] /\ f.ack = config[o].ack_number
  BY <1>2, <1>3, <1>4, <1>5 DEF Link!AcksInOrder, Link!NotAcking, Link!Headers
<1>8. Len(arrived[o]) = Len(Given(e)) =>
        \A f \in Coming(o) : f.kind = "data" /\ f.packet.reliable => f.seq # config[o].ack_number
  BY <1>2, <1>3, <1>4, <1>5, <1>6
  DEF Link!DataInOrder, Link!Fresh, Link!ReliableFrames, Link!DataFrames
<1>9. confirmed[e] > 0 => Link!Quiet(config[o])
  BY <1>2, <1>3 DEF Link!EstablishmentOver
<1> QED
  BY <1>7, <1>8, <1>9

-----------------------------------------------------------------------------
(* The receive step.                                                       *)

\* What is new in the caller's buffer came in a frame of data.
LEMMA NewReceived ==
  ASSUME EngineType, NEW e \in End, ReceiveStep(e),
         "RECEIVED" \in poll'[e].activity, "RECEIVED" \notin poll[e].activity
  PROVE  Head(line[e]).kind = "data" /\ poll'[e].packet = Head(line[e]).packet
<1>0. poll \in [End -> Poll] /\ config \in [End -> Config]
  BY DEF EngineType
<1>1. ASSUME NEW c, NEW a, Take(e, c, a), "RECEIVED" \notin a PROVE FALSE
  <2>1. poll'[e].activity = poll[e].activity \cup a
    BY <1>0, <1>1 DEF Take, Poll
  <2> QED
    BY <1>1, <2>1
<1>2. \A c, f : "RECEIVED" \notin AckActivity(c, f)
  BY DEF AckActivity
<1>3. ~ReceiveBad(e) /\ ~ReceiveSync(e) /\ ~ReceivePeerReset(e)
  BY <1>1, <1>2 DEF ReceiveBad, ReceiveSync, ReceivePeerReset
<1>4. ~ReceiveSyncResp(e) /\ ~ReceiveConf(e)
  BY <1>1, <1>2 DEF ReceiveSyncResp, ReceiveConf
<1>5. ~ReceiveConfResp(e) /\ ~ReceiveAck(e) /\ ~ReceiveDuplicate(e)
  BY <1>1, <1>2 DEF ReceiveConfResp, ReceiveAck, ReceiveDuplicate
<1>6. ReceivePacket(e)
  BY <1>3, <1>4, <1>5 DEF ReceiveStep
<1> QED
  BY <1>0, <1>6 DEF ReceivePacket, Receiving, Poll

\* The frame taken at e, and what it says to the engine there.
Taken(e) == Head(line[e])
Confirms(e) ==
  Held(e) /\ Taken(e).kind # "bad" /\ Taken(e).ack # config[e].sequence_number
Delivers(e) ==
  IsActive(e) /\ Taken(e).kind = "data" /\ Taken(e).seq = config[e].ack_number
Activates(e) == ~IsActive(e) /\ Taken(e).kind = "conf_resp"

DataReliable == \A e \in End : \A f \in Coming(e) : f.kind = "data" => f.packet.reliable

\* What the receive step does, if all data is reliable.
LEMMA ReceiveTells ==
  ASSUME TypeOK, LinkInv, DataReliable, NEW e \in End, NEW o \in End, o = Other(e), ReceiveStep(e)
  PROVE  /\ line[e] # <<>>
         /\ Taken(e) \in Coming(e) /\ Taken(e).kind # "none"
         /\ config'[o] = config[o] /\ poll'[o] = poll[o]
         /\ Coming(e)' \subseteq Coming(e)
         /\ Coming(o)' \subseteq Coming(o) \cup {NoFrame, BadFrame}
         /\ "RECEIVED" \notin poll[e].activity
         /\ "RECEIVED" \in poll'[e].activity <=> Delivers(e)
         /\ Delivers(e) => poll'[e].packet = Taken(e).packet /\ Taken(e).packet.reliable
         /\ Held(e)' <=> Held(e) /\ ~Confirms(e)
         /\ IsActive(e)' <=> IsActive(e) \/ Activates(e)
         /\ Sent(e)' <=> Sent(e) \/ Confirms(e) \/ Activates(e)
         /\ config'[e].ack_number = IF Delivers(e) THEN (config[e].ack_number + 1) % SeqModulus
                                                  ELSE config[e].ack_number
         /\ Link!ReceiveStep(e)
<1>0. EngineType /\ e = Other(o) /\ line[e] \in Seq(Frame) /\ line[o] \in Seq(Frame)
  BY LinkTyped, Ends, ComingIs
<1>1. /\ Link!EngineType /\ e \in Link!End /\ Link!Other(e) = o /\ Link!active = active
      /\ Link!NoPacket = NoPacket /\ Link!Frame = Frame /\ (Link!Sent(e) <=> Sent(e))
  BY <1>0, SameTypes, SameCalls
<1>2. Link!ReceiveStep(e)
  BY SameReceive
<1>3. ~Link!ReceivePeerReset(e)
  <2>1. config[e].link_establishment_state = Link!active => ~Link!Carries(line[e], "sync")
    BY <1>1 DEF LinkInv, Link!Handshake
  <2> QED
    BY <1>1, <2>1, Link!NoResetAtActive, LinkConstants, SeqModulusAssumption,
       PollDelayAssumption, LineMaxAssumption
<1>4. /\ line[e] # <<>> /\ Taken(e) \in Frame /\ Taken(e).kind # "none"
      /\ line'[e] = Tail(line[e])
      /\ config'[o] = config[o] /\ poll'[o] = poll[o]
      /\ config[e].receive_packet
      /\ Link!Received(e) /\ Link!Buffered(e)
  BY <1>1, <1>2, <1>3, Link!ReceiveEffect, LinkConstants, SeqModulusAssumption,
     PollDelayAssumption, LineMaxAssumption DEF Taken
<1>5. Taken(e) \in Coming(e)
  BY <1>0, <1>4 DEF Taken, Coming
<1>6. "RECEIVED" \notin poll[e].activity
  BY <1>4, WindowSays DEF LinkInv
<1>7. Link!Acks(e) <=> Confirms(e)
  <2>1. Held(e) => config[e].send_packet.reliable
    <3>1. Held(e) => config[e].send_packet = Reliable(Len(Given(e)))
      BY WindowSays DEF LinkInv
    <3> QED
      BY <3>1 DEF Reliable
  <2> QED
    BY <1>1, <2>1 DEF Link!Acks, Confirms, Link!Acknowledged, Held, Taken
<1>8. Link!Delivers(e) <=> Delivers(e)
  BY <1>1, <1>4, <1>5 DEF Link!Delivers, Delivers, Link!Fresh, Link!ReliableFrames,
     Link!DataFrames, IsActive, Taken, DataReliable
<1>9. Link!Activates(e) <=> Activates(e)
  BY <1>1 DEF Link!Activates, Activates, IsActive, Taken
<1>10. /\ config'[e].ack_number = IF Delivers(e) THEN (config[e].ack_number + 1) % SeqModulus
                                                 ELSE config[e].ack_number
       /\ Held(e)' <=> Held(e) /\ ~Confirms(e)
       /\ IsActive(e)' <=> IsActive(e) \/ Activates(e)
       /\ Link!Trims(line[o], config[e].sending, line'[o], config'[e].sending)
       /\ Link!Sent(e)' <=> Sent(e) \/ Confirms(e) \/ Activates(e)
  <2>1. config'[e].send_packet = IF Confirms(e) THEN NoPacket ELSE config[e].send_packet
    BY <1>1, <1>4, <1>7 DEF Link!Received
  <2>2. Held(e)' <=> Held(e) /\ ~Confirms(e)
    BY <2>1 DEF Held
  <2> QED
    BY <1>1, <1>4, <1>7, <1>8, <1>9, <2>2 DEF Link!Received, IsActive
<1>11. Sent(e)' <=> Sent(e) \/ Confirms(e) \/ Activates(e)
  BY <1>10 DEF Link!Sent, Sent
<1>12. Coming(e)' \subseteq Coming(e)
  <2>1. Len(Tail(line[e])) = Len(line[e]) - 1 /\ Len(line[e]) \in Nat
        /\ \A i \in 1 .. Len(Tail(line[e])) : Tail(line[e])[i] = line[e][i + 1]
    BY <1>0, <1>4, HeadTailProperties
  <2>2. \A i \in 1 .. Len(Tail(line[e])) : i + 1 \in 1 .. Len(line[e])
    BY <2>1
  <2> QED
    BY <1>4, <2>1, <2>2 DEF Coming
<1>13. Coming(o)' \subseteq Coming(o) \cup {NoFrame, BadFrame}
  <2>1. config[e].sending \in Frame
    BY <1>0 DEF EngineType, Config
  <2>2. Coming(o) = Frames(line[o], config[e].sending)
        /\ Coming(o)' = Frames(line'[o], config'[e].sending)
    BY <1>0 DEF Coming, Frames
  <2> QED
    BY <1>0, <1>10, <2>1, <2>2, FramesTrimmed
<1>14. "RECEIVED" \in poll'[e].activity => poll'[e].packet = Taken(e).packet /\ poll'[e].packet.reliable
  BY <1>0, <1>5, <1>6, NewReceived DEF Taken, DataReliable
<1>15. /\ "RECEIVED" \in poll'[e].activity <=> Delivers(e)
       /\ Delivers(e) => poll'[e].packet = Taken(e).packet /\ Taken(e).packet.reliable
  BY <1>4, <1>6, <1>8, <1>14 DEF Link!Buffered, Taken
<1> QED
  BY <1>2, <1>4, <1>5, <1>6, <1>10, <1>11, <1>12, <1>13, <1>15

\* The receive step of the poll loop or of the chip is one of the link.
LEMMA ReceiveIsLink ==
  ASSUME TypeOK, LinkInv, DataReliable, NEW e \in End, NEW o \in End, o = Other(e), Receive(e)
  PROVE  /\ Link!Receive(e)
         /\ confirmed'[e] = IF Confirms(e) THEN confirmed[e] + 1 ELSE confirmed[e]
         /\ confirmed'[o] = confirmed[o]
         /\ arrived'[o] = arrived[o]
         /\ arrived'[e] = IF Delivers(e) THEN Append(arrived[e], Taken(e).packet.id)
                                         ELSE arrived[e]
         /\ Len(arrived'[e]) = IF Delivers(e) THEN Len(arrived[e]) + 1 ELSE Len(arrived[e])
<1> DEFINE new == poll'[e].activity \ poll[e].activity
           n == confirmed[e]
           m == Len(Given(e))
<1>0. e # o /\ (\A x \in End : x = e \/ x = o) /\ ReceiveStep(e)
  BY Ends DEF Receive
<1>1. /\ n \in Nat /\ m \in Nat /\ n <= m /\ m <= n + 1
      /\ Held(e) <=> m = n + 1
      /\ Held(e) => ~MayCall[e] /\ ~Sent(e)
      /\ ~IsActive(e) => ~Held(e) /\ Outstanding[e] = NoPacket
  BY WindowSays DEF LinkInv
<1>2. /\ config'[o] = config[o] /\ poll'[o] = poll[o]
      /\ "RECEIVED" \notin poll[e].activity
      /\ "RECEIVED" \in poll'[e].activity <=> Delivers(e)
      /\ Delivers(e) => poll'[e].packet = Taken(e).packet /\ Taken(e).packet.reliable
      /\ Held(e)' <=> Held(e) /\ ~Confirms(e)
      /\ IsActive(e)' <=> IsActive(e) \/ Activates(e)
      /\ Sent(e)' <=> Sent(e) \/ Confirms(e) \/ Activates(e)
      /\ Link!ReceiveStep(e)
  BY <1>0, ReceiveTells
<1>3. "SENT" \in new <=> ~Sent(e) /\ (Confirms(e) \/ Activates(e))
  BY <1>2 DEF Sent
<1>4. "SENT" \in new /\ n < m <=> Confirms(e)
  <2>1. Confirms(e) => Held(e) /\ ~Sent(e) /\ n < m
    BY <1>1 DEF Confirms
  <2>2. ~Confirms(e) /\ "SENT" \in new => ~(n < m)
    BY <1>1, <1>3 DEF Activates
  <2> QED
    BY <1>3, <2>1, <2>2
<1>5. "SENT" \in new /\ Outstanding[e].reliable <=> Confirms(e)
  <2>1. Held(e) => Outstanding[e] = Reliable(m)
    <3>1. Held(e) => Given(e) # <<>>
      BY <1>1
    <3> QED
      BY <1>1, <3>1 DEF Outstanding
  <2>2. Confirms(e) => Held(e) /\ ~Sent(e)
    BY <1>1 DEF Confirms
  <2>3. Activates(e) => ~Outstanding[e].reliable
    BY <1>1 DEF Activates, NoPacket
  <2> HIDE DEF new, m
  <2> QED
    BY <1>3, <2>1, <2>2, <2>3 DEF Reliable
<1>6. "RECEIVED" \in new <=> Delivers(e)
  BY <1>2
<1> HIDE DEF new
<1>7. /\ confirmed \in [End -> Nat] /\ arrived \in [End -> Seq(Nat)]
      /\ confirmed' = [confirmed EXCEPT ![e] =
                         IF "SENT" \in new /\ @ < Len(Given(e)) THEN @ + 1 ELSE @]
      /\ arrived' = [arrived EXCEPT ![e] =
                       IF "RECEIVED" \in new THEN Append(@, poll'[e].packet.id) ELSE @]
      /\ UNCHANGED <<sentOps, events, chipMayCall, noise>>
  BY DEF Receive, TypeOK, new, chipVars, hostVars
<1>8. /\ confirmed' = [confirmed EXCEPT ![e] = IF Confirms(e) THEN @ + 1 ELSE @]
      /\ arrived' = [arrived EXCEPT ![e] =
                       IF Delivers(e) THEN Append(@, Taken(e).packet.id) ELSE @]
  BY <1>2, <1>4, <1>6, <1>7
<1>9. \A x \in End : Given(x)' = Given(x)
  BY <1>7 DEF Given
<1>10. MayCall' = MayCall
  <2>1. \A x \in End : (IsActive(x) /\ ~Held(x) /\ ~Sent(x))' <=> IsActive(x) /\ ~Held(x) /\ ~Sent(x)
    <3>1. (IsActive(e) /\ ~Held(e) /\ ~Sent(e))' <=> IsActive(e) /\ ~Held(e) /\ ~Sent(e)
      BY <1>1, <1>2 DEF Confirms, Activates
    <3>2. (IsActive(o) /\ ~Held(o) /\ ~Sent(o))' <=> IsActive(o) /\ ~Held(o) /\ ~Sent(o)
      BY <1>2 DEF IsActive, Held, Sent
    <3> QED
      BY <1>0, <3>1, <3>2
  <2>2. \A x \in End : MayCall'[x] = MayCall[x]
    BY <1>7, <2>1 DEF MayCall
  <2>3. MayCall \in [End -> BOOLEAN] /\ MayCall' \in [End -> BOOLEAN]
    BY <1>7, <2>1 DEF MayCall, TypeOK, IsActive, Held, Sent
  <2> QED
    BY <2>2, <2>3
<1>11. Outstanding' = Outstanding /\ Packets' = Packets /\ Submitted' = Submitted
  BY <1>9, <1>10 DEF Outstanding, Packets, Submitted
<1>12. Link!Receive(e)
  <2>1. confirmed' = [confirmed EXCEPT ![e] =
                        IF "SENT" \in new /\ Outstanding[e].reliable THEN @ + 1 ELSE @]
    BY <1>5, <1>8
  <2>2. arrived' = [arrived EXCEPT ![e] =
                      IF "RECEIVED" \in new /\ poll'[e].packet.reliable
                      THEN Append(@, poll'[e].packet.id) ELSE @]
    BY <1>2, <1>6, <1>8
  <2> QED
    BY <1>2, <1>7, <1>10, <1>11, <2>1, <2>2 DEF Link!Receive, Link!callerVars, new
<1> QED
  BY <1>0, <1>7, <1>8, <1>12

-----------------------------------------------------------------------------
(* The transmit step.                                                      *)

\* An acknowledgement alone is sent only when there is no packet to send.
LEMMA AckAlone ==
  ASSUME EngineType, NEW e \in End, NEW c \in Config, NEW w, TransmitStep(e, c, w),
         c.sending = NoFrame, config'[e].sending.kind = "ack"
  PROVE  c.send_packet = NoPacket
<1>1. ASSUME NEW d, NEW v, NEW x, NEW a, EnterReceive(e, d, v, x, a) PROVE config'[e] = d
  BY <1>1 DEF EnterReceive, EngineType
<1>2. NoFrame.kind = "none" /\ \A k : LeFrame(k).kind = k
  BY DEF NoFrame, LeFrame
<1>3. ~SendOctet(e, c, w) /\ ~SendLast(e, c, w)
  BY DEF SendOctet, SendLast
<1>4. ~SendDelayed(e, c, w) /\ ~SendNothing(e, c, w)
  BY <1>1, <1>2 DEF SendDelayed, SendNothing
<1>5. ~StartLe(e, c, w)
  <2>1. Established(c).sending.kind = c.link_establishment_packet
    BY <1>2 DEF Established, Config
  <2>2. c.link_establishment_packet # "ack"
    BY DEF Config, LeMessage
  <2> QED
    BY <1>1, <2>1, <2>2 DEF StartLe
<1>6. ~StartConfResp(e, c, w)
  <2>1. [c EXCEPT !.sending = LeFrame("conf_resp"), !.link_establishment_resp = 0].sending.kind
          = "conf_resp"
    BY <1>2 DEF Config
  <2> QED
    BY <1>1, <2>1 DEF StartConfResp
<1>7. ~StartData(e, c, w)
  <2>1. [c EXCEPT !.sending = DataFrame(c), !.send_ack = FALSE].sending = DataFrame(c)
        /\ DataFrame(c).kind = "data"
    BY DEF Config, DataFrame
  <2> QED
    BY <1>1, <2>1 DEF StartData
<1> QED
  BY <1>3, <1>4, <1>5, <1>6, <1>7 DEF TransmitStep, StartAck

\* What the transmit step does, if the packet there is, is reliable: at most one
\* frame is started.
LEMMA TransmitTells ==
  ASSUME EngineType, NEW e \in End, NEW o \in End, o = Other(e),
         NEW c \in Config, NEW w \in Seq(Frame), TransmitStep(e, c, w),
         c.send_packet # NoPacket => c.send_packet.reliable,
         Link!Trims(line[o], config[e].sending, w, c.sending)
  PROVE  /\ config'[o] = config[o] /\ poll'[o] = poll[o]
         /\ config'[e].ack_number = c.ack_number
         /\ config'[e].sequence_number = c.sequence_number
         /\ config'[e].link_establishment_state = c.link_establishment_state
         /\ config'[e].send_packet = c.send_packet
         /\ ~Sent(e)' /\ "RECEIVED" \notin poll'[e].activity
         /\ Coming(e)' = Coming(e)
         /\ \A f \in Coming(o)' :
              \/ f \in Coming(o) \cup {NoFrame, BadFrame}
              \/ f.kind \in LeMessage /\ f.ack = 0 /\ ~Link!Quiet(c)
              \/ f = AckFrame(c) /\ c.send_packet = NoPacket
              \/ f = DataFrame(c) /\ c.send_packet # NoPacket
<1>0. /\ e = Other(o) /\ line[e] \in Seq(Frame) /\ line[o] \in Seq(Frame)
      /\ config[e].sending \in Frame /\ c.sending \in Frame
  BY Ends, ComingIs DEF EngineType, Config
<1>1. /\ Link!EngineType /\ e \in Link!End /\ Link!Other(e) = o
      /\ Link!NoPacket = NoPacket /\ Link!NoFrame = NoFrame /\ Link!Frame = Frame
      /\ Link!Config = Config /\ Link!LeMessage = LeMessage
  BY SameTypes, SameCalls
<1>2. Link!TransmitStep(e, c, w)
  BY SameTransmit
<1>3. /\ config'[e].sequence_number = c.sequence_number
      /\ config'[e].ack_number = c.ack_number
      /\ config'[e].link_establishment_state = c.link_establishment_state
      /\ config'[o] = config[o]
      /\ line'[e] = line[e]
      /\ poll'[o] = poll[o]
      /\ "RECEIVED" \notin poll'[e].activity
      /\ Link!Continues(e, c, w) \/ \E y \in Frame : Link!Starts(e, c, w, y)
  BY <1>1, <1>2, Link!TransmitEffect, LinkConstants, SeqModulusAssumption,
     PollDelayAssumption, LineMaxAssumption
<1>4. Link!Sent(e)' <=> Sent(e)'
  BY DEF Link!Sent, Sent
<1>5. ~Link!SentUnreliable(c)
  BY <1>1 DEF Link!SentUnreliable
<1>6. config'[e].send_packet = c.send_packet /\ ~Sent(e)'
  BY <1>3, <1>4, <1>5 DEF Link!Continues, Link!Starts
<1>7. Coming(e)' = Coming(e)
  BY <1>3 DEF Coming
<1>8. /\ Coming(o) = Frames(line[o], config[e].sending)
      /\ Coming(o)' = Frames(line'[o], config'[e].sending)
  BY <1>0 DEF Coming, Frames
<1>9. Frames(w, c.sending) \subseteq Coming(o) \cup {NoFrame, BadFrame}
  BY <1>0, <1>8, FramesTrimmed
<1>10. CASE Link!Continues(e, c, w)
  <2>1. Frames(line'[o], config'[e].sending) \subseteq Frames(w, c.sending) \cup {NoFrame, BadFrame}
    <3>1. Link!Trims(w, c.sending, line'[o], config'[e].sending)
      BY <1>1, <1>10 DEF Link!Continues
    <3> QED
      BY <1>0, <3>1, FramesTrimmed
  <2> QED
    BY <1>3, <1>6, <1>7, <1>8, <1>9, <2>1
<1>11. ASSUME NEW y \in Frame, Link!Starts(e, c, w, y)
       PROVE  \A f \in Coming(o)' :
                \/ f \in Coming(o) \cup {NoFrame, BadFrame}
                \/ f.kind \in LeMessage /\ f.ack = 0 /\ ~Link!Quiet(c)
                \/ f = AckFrame(c) /\ c.send_packet = NoPacket
                \/ f = DataFrame(c) /\ c.send_packet # NoPacket
  <2>1. line'[o] = w /\ config'[e].sending = y /\ c.sending = NoFrame
    BY <1>1, <1>11 DEF Link!Starts
  <2>2. \A f \in Coming(o)' : f = y \/ f \in Frames(w, c.sending)
    BY <1>8, <2>1 DEF Frames
  <2>3. \/ y.kind \in LeMessage /\ y.ack = 0 /\ ~Link!Quiet(c)
        \/ y = AckFrame(c)
        \/ y = DataFrame(c) /\ c.send_packet # NoPacket
    <3>1. Link!AckFrame(c) = AckFrame(c) /\ Link!DataFrame(c) = DataFrame(c)
      BY <1>1 DEF Link!AckFrame, AckFrame, Link!DataFrame, DataFrame
    <3>2. \A k \in LeMessage : Link!LeFrame(k).kind = k /\ Link!LeFrame(k).ack = 0
      BY DEF Link!LeFrame
    <3> QED
      BY <1>1, <1>11, <3>1, <3>2 DEF Link!Starts
  <2>4. y = AckFrame(c) => c.send_packet = NoPacket
    BY <2>1, AckAlone DEF AckFrame
  <2> QED
    BY <1>9, <2>2, <2>3, <2>4
<1> QED
  BY <1>3, <1>6, <1>7, <1>10, <1>11

\* A frame that the engine at e starts: link establishment, an acknowledgement when
\* there is no packet, or the packet.
Started(e, f) ==
  \/ f.kind \in LeMessage /\ f.ack = 0 /\ confirmed[Other(e)] = 0
  \/ f.kind = "ack" /\ ~Held(e)'
  \/ /\ Held(e)'
     /\ f.kind = "data" /\ f.packet.reliable
     /\ f.seq = config[e].sequence_number
     /\ f.ack = config[e].ack_number

\* What the poll does from c, which the caller left of the engine, and w.
LEMMA PollTells ==
  ASSUME TypeOK, LinkInv, NEW e \in End, NEW o \in End, o = Other(e),
         NEW c \in Config, NEW w \in Seq(Frame), TransmitStep(e, c, w),
         c.send_packet # NoPacket => c.send_packet.reliable,
         Link!Trims(line[o], config[e].sending, w, c.sending),
         c.sequence_number = config[e].sequence_number,
         c.ack_number = config[e].ack_number,
         c.link_establishment_state = config[e].link_establishment_state,
         c.link_establishment_packet = config[e].link_establishment_packet,
         c.link_establishment_resp = config[e].link_establishment_resp
  PROVE  /\ config'[o] = config[o] /\ poll'[o] = poll[o]
         /\ config'[e].ack_number = config[e].ack_number
         /\ config'[e].sequence_number = config[e].sequence_number
         /\ IsActive(e)' <=> IsActive(e)
         /\ config'[e].send_packet = c.send_packet
         /\ ~Sent(e)' /\ "RECEIVED" \notin poll'[e].activity
         /\ Coming(e)' = Coming(e)
         /\ \A f \in Coming(o)' : f \in Coming(o) \cup {NoFrame, BadFrame} \/ Started(e, f)
<1>0. EngineType /\ Other(o) = e /\ confirmed[o] \in Nat
  BY LinkTyped, Ends DEF TypeOK
<1>1. /\ config'[o] = config[o] /\ poll'[o] = poll[o]
      /\ config'[e].ack_number = c.ack_number
      /\ config'[e].sequence_number = c.sequence_number
      /\ config'[e].link_establishment_state = c.link_establishment_state
      /\ config'[e].send_packet = c.send_packet
      /\ ~Sent(e)' /\ "RECEIVED" \notin poll'[e].activity
      /\ Coming(e)' = Coming(e)
      /\ \A f \in Coming(o)' :
           \/ f \in Coming(o) \cup {NoFrame, BadFrame}
           \/ f.kind \in LeMessage /\ f.ack = 0 /\ ~Link!Quiet(c)
           \/ f = AckFrame(c) /\ c.send_packet = NoPacket
           \/ f = DataFrame(c) /\ c.send_packet # NoPacket
  BY <1>0, TransmitTells
<1>2. Held(e)' <=> c.send_packet # NoPacket
  BY <1>1 DEF Held
<1>3. ~Link!Quiet(c) => confirmed[o] = 0
  <2>1. confirmed[o] > 0 => Link!Quiet(config[e])
    BY <1>0, FramesSay DEF LinkInv
  <2>2. Link!Quiet(c) <=> Link!Quiet(config[e])
    BY DEF Link!Quiet
  <2> QED
    BY <1>0, <2>1, <2>2
<1>4. \A f \in Coming(o)' : f \in Coming(o) \cup {NoFrame, BadFrame} \/ Started(e, f)
  <2>1. AckFrame(c).kind = "ack"
    BY DEF AckFrame
  <2>2. /\ DataFrame(c).kind = "data" /\ DataFrame(c).packet = c.send_packet
        /\ DataFrame(c).seq = c.sequence_number /\ DataFrame(c).ack = c.ack_number
    BY DEF DataFrame
  <2> QED
    BY <1>1, <1>2, <1>3, <2>1, <2>2 DEF Started
<1> QED
  BY <1>1, <1>4 DEF IsActive

\* A poll without a packet to submit.
LEMMA PollOnTells ==
  ASSUME TypeOK, LinkInv, NEW e \in End, NEW o \in End, o = Other(e),
         TransmitStep(e, Returned(e), line[o])
  PROVE  /\ config'[o] = config[o] /\ poll'[o] = poll[o]
         /\ config'[e].ack_number = config[e].ack_number
         /\ config'[e].sequence_number = config[e].sequence_number
         /\ IsActive(e)' <=> IsActive(e)
         /\ Held(e)' <=> Held(e)
         /\ ~Sent(e)' /\ "RECEIVED" \notin poll'[e].activity
         /\ Coming(e)' = Coming(e)
         /\ \A f \in Coming(o)' : f \in Coming(o) \cup {NoFrame, BadFrame} \/ Started(e, f)
<1> DEFINE c == Returned(e)
<1>1. EngineType /\ Link!EngineType /\ e \in Link!End /\ line[o] \in Seq(Frame)
      /\ Link!Returned(e) = c /\ Link!Config = Config
  BY LinkTyped, SameTypes, SameCalls DEF EngineType
<1>2. /\ c \in Config
      /\ c.sequence_number = config[e].sequence_number
      /\ c.ack_number = config[e].ack_number
      /\ c.link_establishment_state = config[e].link_establishment_state
      /\ c.link_establishment_packet = config[e].link_establishment_packet
      /\ c.link_establishment_resp = config[e].link_establishment_resp
      /\ c.send_packet = config[e].send_packet
      /\ c.sending = config[e].sending
  BY <1>1, Link!ReturnedIs, LinkConstants, SeqModulusAssumption, PollDelayAssumption,
     LineMaxAssumption
<1> HIDE DEF c
<1>3. Link!Trims(line[o], config[e].sending, line[o], c.sending)
  BY <1>2 DEF Link!Trims
<1>4. c.send_packet # NoPacket => c.send_packet.reliable
  <2>1. Held(e) => config[e].send_packet = Reliable(Len(Given(e)))
    BY WindowSays DEF LinkInv
  <2> QED
    BY <1>2, <2>1 DEF Held, Reliable
<1>5. TransmitStep(e, c, line[o])
  BY DEF c
<1>6. /\ config'[o] = config[o] /\ poll'[o] = poll[o]
      /\ config'[e].ack_number = config[e].ack_number
      /\ config'[e].sequence_number = config[e].sequence_number
      /\ IsActive(e)' <=> IsActive(e)
      /\ config'[e].send_packet = c.send_packet
      /\ ~Sent(e)' /\ "RECEIVED" \notin poll'[e].activity
      /\ Coming(e)' = Coming(e)
      /\ \A f \in Coming(o)' : f \in Coming(o) \cup {NoFrame, BadFrame} \/ Started(e, f)
  BY <1>1, <1>2, <1>3, <1>4, <1>5, PollTells
<1> QED
  BY <1>2, <1>6 DEF Held

\* A poll with the next packet.
LEMMA SubmitTells ==
  ASSUME TypeOK, LinkInv, NEW e \in End, NEW o \in End, o = Other(e),
         NEW n \in Nat \ {0}, NEW rest \in Abandoned(e),
         TransmitStep(e, ubcsp_send_packet(Returned(e), Reliable(n)), line[o] \o rest)
  PROVE  /\ config'[o] = config[o] /\ poll'[o] = poll[o]
         /\ config'[e].ack_number = config[e].ack_number
         /\ config'[e].sequence_number = config[e].sequence_number
         /\ IsActive(e)' <=> IsActive(e)
         /\ Held(e)'
         /\ ~Sent(e)' /\ "RECEIVED" \notin poll'[e].activity
         /\ Coming(e)' = Coming(e)
         /\ \A f \in Coming(o)' : f \in Coming(o) \cup {NoFrame, BadFrame} \/ Started(e, f)
<1> DEFINE b == Returned(e)
           c == ubcsp_send_packet(b, Reliable(n))
           w == line[o] \o rest
<1>1. EngineType /\ Link!EngineType /\ e \in Link!End /\ line[o] \in Seq(Frame)
      /\ Link!Returned(e) = b /\ Link!Config = Config /\ Link!Other(e) = o
      /\ Link!Frame = Frame /\ Link!NoFrame = NoFrame /\ rest \in Link!Abandoned(e)
  BY LinkTyped, SameTypes, SameCalls DEF EngineType
<1>2. /\ b \in Config
      /\ b.sequence_number = config[e].sequence_number
      /\ b.ack_number = config[e].ack_number
      /\ b.link_establishment_state = config[e].link_establishment_state
      /\ b.link_establishment_packet = config[e].link_establishment_packet
      /\ b.link_establishment_resp = config[e].link_establishment_resp
  BY <1>1, Link!ReturnedIs, LinkConstants, SeqModulusAssumption, PollDelayAssumption,
     LineMaxAssumption
<1> HIDE DEF b
<1>3. Reliable(n) \in Packet /\ Reliable(n).reliable /\ Reliable(n) # NoPacket
  BY DEF Reliable, Packet, NoPacket
<1>4. /\ c \in Config
      /\ c.sequence_number = config[e].sequence_number
      /\ c.ack_number = config[e].ack_number
      /\ c.link_establishment_state = config[e].link_establishment_state
      /\ c.link_establishment_packet = config[e].link_establishment_packet
      /\ c.link_establishment_resp = config[e].link_establishment_resp
      /\ c.send_packet = Reliable(n)
      /\ c.sending = NoFrame
  BY <1>2, <1>3, SendType DEF ubcsp_send_packet, Config
<1>5. w \in Seq(Frame) /\ Link!Trims(line[o], config[e].sending, w, NoFrame)
  BY <1>1, Link!AbandonedTrims, LinkConstants, SeqModulusAssumption, PollDelayAssumption,
     LineMaxAssumption
<1>6. TransmitStep(e, c, w)
  BY DEF b
<1> HIDE DEF c, w
<1>7. /\ config'[o] = config[o] /\ poll'[o] = poll[o]
      /\ config'[e].ack_number = config[e].ack_number
      /\ config'[e].sequence_number = config[e].sequence_number
      /\ IsActive(e)' <=> IsActive(e)
      /\ config'[e].send_packet = c.send_packet
      /\ ~Sent(e)' /\ "RECEIVED" \notin poll'[e].activity
      /\ Coming(e)' = Coming(e)
      /\ \A f \in Coming(o)' : f \in Coming(o) \cup {NoFrame, BadFrame} \/ Started(e, f)
  BY <1>3, <1>4, <1>5, <1>6, PollTells
<1> QED
  BY <1>3, <1>4, <1>7 DEF Held

\* A poll that has nothing to submit is one of the link.
LEMMA PollOnIsLink ==
  ASSUME TypeOK, LinkInv, NEW e \in End, NEW o \in End, o = Other(e),
         TransmitStep(e, Returned(e), line[o]),
         UNCHANGED <<sentOps, events, arrived, confirmed, noise>>,
         chipMayCall' = (chipMayCall \/ (e = "chip" /\ Sent(e)))
  PROVE  Link!NextPoll(e)
<1>0. e # o /\ (\A x \in End : x = e \/ x = o) /\ e = Other(o)
      /\ ((e = "host" /\ o = "chip") \/ (e = "chip" /\ o = "host"))
  BY DEF End, Other
<1>1. /\ config'[o] = config[o] /\ poll'[o] = poll[o]
      /\ IsActive(e)' <=> IsActive(e)
      /\ Held(e)' <=> Held(e)
      /\ ~Sent(e)'
  BY PollOnTells
<1>2. /\ MayCall[e] \/ Sent(e) => ~Held(e)
      /\ ~IsActive(e) => ~Sent(e)
  BY WindowSays DEF LinkInv
<1>3. \A x \in End : Given(x)' = Given(x)
  BY DEF Given
<1>4. MayCall' = [MayCall EXCEPT ![e] = @ \/ Sent(e)]
  <2>1. IsActive(o)' = IsActive(o) /\ Held(o)' = Held(o) /\ Sent(o)' = Sent(o)
    BY <1>1 DEF IsActive, Held, Sent
  <2>2. MayCall'[o] <=> MayCall[o]
    BY <1>0, <2>1 DEF MayCall
  <2>3. MayCall'[e] <=> MayCall[e] \/ Sent(e)
    BY <1>0, <1>1, <1>2 DEF MayCall
  <2>4. MayCall \in [End -> BOOLEAN] /\ MayCall' \in [End -> BOOLEAN]
    <3>1. chipMayCall \in BOOLEAN /\ chipMayCall' \in BOOLEAN
      BY DEF TypeOK, Sent
    <3> QED
      BY <3>1 DEF MayCall, IsActive, Held, Sent
  <2> QED
    BY <1>0, <2>2, <2>3, <2>4
<1>5. Outstanding' = [Outstanding EXCEPT ![e] = IF Sent(e) THEN NoPacket ELSE @]
  <2>1. MayCall'[e] = (MayCall[e] \/ Sent(e)) /\ MayCall'[o] = MayCall[o]
    BY <1>0, <1>4 DEF MayCall
  <2>2. Outstanding'[o] = Outstanding[o]
    BY <1>3, <2>1 DEF Outstanding
  <2>3. Outstanding'[e] = IF Sent(e) THEN NoPacket ELSE Outstanding[e]
    BY <1>3, <2>1 DEF Outstanding
  <2> QED
    BY <1>0, <2>2, <2>3 DEF Outstanding
<1>6. Packets' = Packets /\ Submitted' = Submitted
  BY <1>3 DEF Packets, Submitted
<1>7. Link!TransmitStep(e, Link!Returned(e), line[Link!Other(e)]) /\ (Link!Sent(e) <=> Sent(e))
      /\ Link!NoPacket = NoPacket
  BY SameTransmit, SameCalls, SameTypes
<1> QED
  BY <1>4, <1>5, <1>6, <1>7 DEF Link!NextPoll

\* A poll that submits the next packet is one of the link, if the engine is free.
LEMMA SubmitIsLink ==
  ASSUME TypeOK, LinkInv, NEW e \in End, NEW o \in End, o = Other(e),
         NEW n, n = Len(Given(e)) + 1, n <= MaxOps + 1, MayCall[e] \/ Sent(e),
         NEW rest \in Abandoned(e),
         TransmitStep(e, ubcsp_send_packet(Returned(e), Reliable(n)), line[o] \o rest),
         Len(Given(e)') = n, Given(o)' = Given(o),
         UNCHANGED <<arrived, confirmed, noise>>,
         chipMayCall' = (chipMayCall /\ e # "chip")
  PROVE  Link!Submit(e)
<1>0. e # o /\ (\A x \in End : x = e \/ x = o)
      /\ ((e = "host" /\ o = "chip") \/ (e = "chip" /\ o = "host"))
  BY DEF End, Other
<1>1. n \in Nat \ {0} /\ Len(Given(e)) \in Nat
  BY LinkTyped
<1>2. /\ config'[o] = config[o] /\ poll'[o] = poll[o]
      /\ Held(e)' /\ ~Sent(e)'
  BY <1>1, SubmitTells
<1>3. MayCall' = [MayCall EXCEPT ![e] = FALSE]
  <2>1. IsActive(o)' = IsActive(o) /\ Held(o)' = Held(o) /\ Sent(o)' = Sent(o)
    BY <1>2 DEF IsActive, Held, Sent
  <2>2. MayCall'[o] <=> MayCall[o]
    BY <1>0, <2>1 DEF MayCall
  <2>3. ~MayCall'[e]
    BY <1>0, <1>2 DEF MayCall
  <2>4. MayCall \in [End -> BOOLEAN] /\ MayCall' \in [End -> BOOLEAN]
    <3>1. chipMayCall \in BOOLEAN /\ chipMayCall' \in BOOLEAN
      BY DEF TypeOK
    <3> QED
      BY <3>1 DEF MayCall, IsActive, Held, Sent
  <2> QED
    BY <1>0, <2>2, <2>3, <2>4
<1>4. Outstanding' = [Outstanding EXCEPT ![e] = Reliable(n)]
  <2>1. MayCall'[e] = FALSE /\ MayCall'[o] = MayCall[o]
    BY <1>0, <1>3 DEF MayCall
  <2>2. Outstanding'[o] = Outstanding[o]
    BY <2>1 DEF Outstanding
  <2>3. Given(e)' # <<>>
    BY <1>1
  <2>4. Outstanding'[e] = Reliable(n)
    BY <2>1, <2>3 DEF Outstanding
  <2> QED
    BY <1>0, <2>2, <2>4 DEF Outstanding
<1>5. Packets' = [Packets EXCEPT ![e] = @ + 1]
  BY <1>0, <1>1 DEF Packets
<1>6. Submitted' = [Submitted EXCEPT ![e] = Append(@, n)]
  <2>1. [i \in 1 .. n |-> i] = Append([i \in 1 .. Len(Given(e)) |-> i], n)
    BY <1>1, NumbersAre
  <2>2. Submitted'[e] = Append(Submitted[e], n) /\ Submitted'[o] = Submitted[o]
    BY <2>1 DEF Submitted
  <2> QED
    BY <1>0, <2>2 DEF Submitted
<1>7. Packets[e] + 1 = n /\ Packets[e] < MaxOps + 1
  BY <1>1, MaxOpsAssumption DEF Packets
<1>8. Link!TransmitStep(e, Link!ubcsp_send_packet(Link!Returned(e), Reliable(n)),
                        line[Link!Other(e)] \o rest)
      /\ rest \in Link!Abandoned(e) /\ (Link!Sent(e) <=> Sent(e))
  BY SameTransmit, SameCalls, SameTypes
<1> QED
  BY <1>3, <1>4, <1>5, <1>6, <1>7, <1>8 DEF Link!Submit, Reliable

-----------------------------------------------------------------------------
(* The turns.                                                              *)

\* The counts of both directions.
LEMMA Counts ==
  ASSUME TypeOK, LinkInv
  PROVE  LET C == confirmed["host"]
             A == Len(arrived["chip"])
             S == Len(sentOps)
             D == confirmed["chip"]
             B == Len(arrived["host"])
             E == Len(events)
             s == config["host"].sequence_number
             t == config["chip"].sequence_number
         IN  /\ C \in Nat /\ A \in Nat /\ S \in Nat /\ C <= A /\ A <= S /\ S <= C + 1
             /\ D \in Nat /\ B \in Nat /\ E \in Nat /\ D <= B /\ B <= E /\ E <= D + 1
             /\ Held("host") <=> S = C + 1
             /\ Held("chip") <=> E = D + 1
             /\ config["chip"].ack_number = IF A = C THEN s ELSE (s + 1) % SeqModulus
             /\ config["host"].ack_number = IF B = D THEN t ELSE (t + 1) % SeqModulus
             /\ (s + 1) % SeqModulus # s /\ (t + 1) % SeqModulus # t
             /\ sentOps = <<>> <=> S = 0
             /\ events = <<>> <=> E = 0
             /\ arrived["host"] = <<>> <=> B = 0
             /\ arrived["chip"] = <<>> <=> A = 0
<1>1. /\ "host" \in End /\ "chip" \in End /\ Other("host") = "chip" /\ Other("chip") = "host"
      /\ Given("host") = sentOps /\ Given("chip") = events
  BY DEF End, Other, Given
<1>2. /\ sentOps \in Seq(Op) /\ events \in Seq(Nat)
      /\ arrived["host"] \in Seq(Nat) /\ arrived["chip"] \in Seq(Nat)
  BY <1>1 DEF TypeOK
<1>3. /\ confirmed["host"] \in Nat /\ Len(arrived["chip"]) \in Nat /\ Len(sentOps) \in Nat
      /\ confirmed["host"] <= Len(arrived["chip"]) /\ Len(arrived["chip"]) <= Len(sentOps)
      /\ Len(sentOps) <= confirmed["host"] + 1
      /\ Held("host") <=> Len(sentOps) = confirmed["host"] + 1
      /\ config["chip"].ack_number = IF Len(arrived["chip"]) = confirmed["host"]
                                     THEN config["host"].sequence_number
                                     ELSE (config["host"].sequence_number + 1) % SeqModulus
      /\ (config["host"].sequence_number + 1) % SeqModulus # config["host"].sequence_number
  BY <1>1, WindowSays DEF LinkInv
<1>4. /\ confirmed["chip"] \in Nat /\ Len(arrived["host"]) \in Nat /\ Len(events) \in Nat
      /\ confirmed["chip"] <= Len(arrived["host"]) /\ Len(arrived["host"]) <= Len(events)
      /\ Len(events) <= confirmed["chip"] + 1
      /\ Held("chip") <=> Len(events) = confirmed["chip"] + 1
      /\ config["host"].ack_number = IF Len(arrived["host"]) = confirmed["chip"]
                                     THEN config["chip"].sequence_number
                                     ELSE (config["chip"].sequence_number + 1) % SeqModulus
      /\ (config["chip"].sequence_number + 1) % SeqModulus # config["chip"].sequence_number
  BY <1>1, WindowSays DEF LinkInv
<1>5. /\ sentOps = <<>> <=> Len(sentOps) = 0
      /\ events = <<>> <=> Len(events) = 0
      /\ arrived["host"] = <<>> <=> Len(arrived["host"]) = 0
      /\ arrived["chip"] = <<>> <=> Len(arrived["chip"]) = 0
  BY <1>2
<1> QED
  BY <1>3, <1>4, <1>5

\* What has all arrived is new in no frame.
NothingNew(e) ==
  Len(arrived[Other(e)]) = Len(Given(e)) =>
    \A f \in Coming(Other(e)) :
      f.kind = "data" /\ f.packet.reliable => f.seq # config[Other(e)].ack_number

LEMMA AllArrived ==
  /\ TypeOK /\ LinkInv => \A e \in End : NothingNew(e)
  /\ TypeOK' /\ LinkInv' => (\A e \in End : NothingNew(e))'
<1>1. TypeOK /\ LinkInv => \A e \in End : NothingNew(e)
  BY FramesSay DEF NothingNew, LinkInv
<1> QED
  BY <1>1, PTL

\* Data stays in turn when e receives, if nothing that was new to the other end is
\* left when e takes a packet.
LEMMA ReceiveKeepsData ==
  ASSUME TypeOK, TypeOK', LinkInv, LinkInv', DataInTurn,
         NEW e \in End, NEW o \in End, o = Other(e),
         config'[o] = config[o],
         Coming(e)' \subseteq Coming(e),
         Coming(o)' \subseteq Coming(o) \cup {NoFrame, BadFrame},
         config'[e].ack_number # config[e].ack_number
           => /\ Len(arrived[o]) = Len(Given(e))
              /\ Len(arrived'[e]) = Len(Given(o)')
  PROVE  DataInTurn'
<1>0. e = Other(o) /\ \A x \in End : x = e \/ x = o
  BY Ends
<1>1. NoFrame.kind = "none" /\ BadFrame.kind = "bad"
  BY DEF NoFrame, BadFrame, LeFrame
<1>2. ASSUME NEW f \in Coming(e)', f.kind = "data"
      PROVE  f.packet.reliable /\ (f.seq = config'[e].ack_number => f.ack = config'[o].ack_number)
  <2>1. f \in Coming(e) /\ f.packet.reliable
        /\ (f.seq = config[e].ack_number => f.ack = config[o].ack_number)
    BY <1>2 DEF DataInTurn
  <2>2. config'[e].ack_number # config[e].ack_number => f.seq # config'[e].ack_number
    <3>1. NothingNew(o)'
      BY AllArrived
    <3> QED
      BY <1>0, <1>2, <2>1, <3>1 DEF NothingNew
  <2> QED
    BY <2>1, <2>2
<1>3. ASSUME NEW f \in Coming(o)', f.kind = "data"
      PROVE  f.packet.reliable /\ (f.seq = config'[o].ack_number => f.ack = config'[e].ack_number)
  <2>1. f \in Coming(o)
    BY <1>1, <1>3
  <2>2. f.packet.reliable /\ (f.seq = config[o].ack_number => f.ack = config[e].ack_number)
    BY <1>0, <1>3, <2>1 DEF DataInTurn
  <2>3. config'[e].ack_number # config[e].ack_number => f.seq # config[o].ack_number
    BY <1>3, <2>1, <2>2, AllArrived DEF NothingNew
  <2> QED
    BY <2>2, <2>3
<1> QED
  BY <1>0, <1>2, <1>3 DEF DataInTurn

\* The host takes a frame.
LEMMA HostReceivesInTurn ==
  ASSUME TypeOK, TypeOK', LinkInv, LinkInv', InTurn, Receive("host")
  PROVE  InTurn'
<1> DEFINE C == confirmed["host"]
           A == Len(arrived["chip"])
           S == Len(sentOps)
           B == Len(arrived["host"])
           E == Len(events)
           f == Taken("host")
<1>0. /\ "host" \in End /\ "chip" \in End /\ Other("host") = "chip" /\ Other("chip") = "host"
      /\ Given("host") = sentOps /\ Given("chip") = events
      /\ ReceiveStep("host") /\ DataReliable
      /\ HostInTurn /\ ChipInTurn /\ DataInTurn /\ AnswerInTurn
  BY DEF End, Other, Given, Receive, DataReliable, InTurn, DataInTurn
<1>1. UNCHANGED <<phase, fetchNewCommand, sentOps, events, chipQueue, chipMayCall, unsolicited>>
  BY DEF Receive, hostVars, chipVars
<1>2. /\ f \in Coming("host") /\ f.kind # "none"
      /\ config'["chip"] = config["chip"] /\ poll'["chip"] = poll["chip"]
      /\ Coming("host")' \subseteq Coming("host")
      /\ Coming("chip")' \subseteq Coming("chip") \cup {NoFrame, BadFrame}
      /\ Received' <=> Delivers("host")
      /\ IsActive("host") => IsActive("host")'
      /\ config'["host"].ack_number =
           IF Delivers("host") THEN (config["host"].ack_number + 1) % SeqModulus
                               ELSE config["host"].ack_number
  BY <1>0, ReceiveTells DEF Received
<1>3. /\ confirmed'["host"] = IF Confirms("host") THEN C + 1 ELSE C
      /\ arrived'["chip"] = arrived["chip"]
      /\ arrived'["host"] = IF Delivers("host") THEN Append(arrived["host"], f.packet.id)
                                                ELSE arrived["host"]
      /\ Len(arrived'["host"]) = IF Delivers("host") THEN B + 1 ELSE B
  BY <1>0, ReceiveIsLink
<1>4. /\ C \in Nat /\ A \in Nat /\ S \in Nat /\ C <= A /\ A <= S /\ S <= C + 1
      /\ B \in Nat /\ E \in Nat /\ B <= E /\ (Held("chip") => E # confirmed["chip"])
      /\ E <= confirmed["chip"] + 1 /\ confirmed["chip"] \in Nat /\ confirmed["chip"] <= B
      /\ Held("host") <=> S = C + 1
      /\ Held("chip") <=> E = confirmed["chip"] + 1
      /\ A # C => config["chip"].ack_number # config["host"].sequence_number
      /\ (sentOps = <<>> <=> S = 0) /\ (events = <<>> <=> E = 0) /\ (arrived["host"] = <<>> <=> B = 0)
  BY Counts
\* An event that is new has not been taken, and is the last one there is.
<1>5. Delivers("host") => B < E
  <2>1. NothingNew("chip")
    BY <1>0, AllArrived
  <2>2. Delivers("host") => f.kind = "data" /\ f.packet.reliable /\ f.seq = config["host"].ack_number
    BY <1>0, <1>2 DEF Delivers, DataReliable
  <2> QED
    BY <1>0, <1>2, <1>4, <2>1, <2>2 DEF NothingNew
<1>6. Delivers("host") => B + 1 = E /\ ~Owed'
  <2> SUFFICES ASSUME Delivers("host") PROVE B + 1 = E /\ ~Owed'
    OBVIOUS
  <2>1. B + 1 = E
    BY <1>4, <1>5
  <2>2. ~ChipReceived /\ chipQueue = <<>>
    BY <1>0, <1>4, <1>5 DEF ChipInTurn
  <2> QED
    BY <1>1, <1>2, <1>3, <2>1, <2>2 DEF Owed, ChipReceived
\* It brings the acknowledgement, and nothing else that is still to come does.
<1>7. Delivers("host") /\ phase = "polling" => A = S /\ C < S /\ Confirms("host")
  <2> SUFFICES ASSUME Delivers("host"), phase = "polling" PROVE A = S /\ C < S /\ Confirms("host")
    OBVIOUS
  <2>1. Owed
    BY <1>5 DEF Owed
  <2>2. A = S /\ C < S
    BY <1>0, <2>1 DEF HostInTurn
  <2>3. f.ack = config["chip"].ack_number
    BY <1>0, <1>2 DEF Delivers, DataInTurn
  <2> QED
    BY <1>4, <2>2, <2>3 DEF Confirms, Delivers
<1>8. Confirms("host") /\ phase = "polling" /\ Owed => Delivers("host")
  <2> SUFFICES ASSUME Confirms("host"), phase = "polling", Owed PROVE Delivers("host")
    OBVIOUS
  <2>1. f.kind \notin {"bad", "none"} /\ f.ack # config["host"].sequence_number
    BY <1>2 DEF Confirms
  <2>2. f.ack = config["chip"].ack_number
    BY <1>0, <1>2, <2>1, FramesSay DEF LinkInv
  <2>3. f.kind = "data" /\ f.seq = config["host"].ack_number
    BY <1>0, <1>2, <2>1, <2>2 DEF AnswerInTurn
  <2>4. IsActive("host")
    BY <1>0 DEF HostInTurn
  <2> QED
    BY <2>3, <2>4 DEF Delivers
<1>9. Owed' => Owed /\ ~Delivers("host")
  BY <1>1, <1>2, <1>3, <1>6 DEF Owed, ChipReceived
<1>10. HostInTurn'
  <2>1. (phase = "opening" => sentOps = <<>>)'
    BY <1>0, <1>1 DEF HostInTurn
  <2>2. /\ (phase = "polling" \/ Received => arrived["host"] # <<>>)'
        /\ (arrived["host"] # <<>> => IsActive("host"))'
    <3>1. CASE Delivers("host")
      <4>1. arrived'["host"] \in Seq(Nat)
        BY <1>0 DEF TypeOK
      <4>2. Len(arrived'["host"]) = B + 1
        BY <1>3, <3>1
      <4>3. arrived'["host"] # <<>>
        BY <1>4, <4>1, <4>2
      <4> QED
        BY <1>2, <3>1, <4>3 DEF Delivers
    <3>2. CASE ~Delivers("host")
      BY <1>0, <1>1, <1>2, <1>3, <3>2 DEF HostInTurn
    <3> QED
      BY <3>1, <3>2
  <2>3. ASSUME phase = "polling"
        PROVE  (fetchNewCommand \/ Received => confirmed["host"] = Len(sentOps))'
    <3>1. CASE Delivers("host")
      BY <1>1, <1>3, <1>4, <1>7, <2>3, <3>1
    <3>2. CASE fetchNewCommand /\ ~Delivers("host")
      <4>1. C = S
        BY <1>0, <2>3, <3>2 DEF HostInTurn
      <4>2. ~Confirms("host")
        BY <1>4, <4>1 DEF Confirms
      <4> QED
        BY <1>1, <1>3, <4>1, <4>2
    <3> QED
      BY <1>1, <1>2, <3>1, <3>2
  <2>4. ASSUME phase = "polling", Owed'
        PROVE  Len(arrived'["chip"]) = Len(sentOps') /\ confirmed'["host"] < Len(sentOps')
    <3>1. A = S /\ C < S /\ ~Confirms("host")
      BY <1>0, <1>8, <1>9, <2>4 DEF HostInTurn
    <3> QED
      BY <1>1, <1>3, <3>1
  <2> QED
    BY <1>1, <2>1, <2>2, <2>3, <2>4 DEF HostInTurn
<1>11. ChipInTurn'
  BY <1>0, <1>1, <1>2, <1>3 DEF ChipInTurn, ChipReceived, IsActive, Held, Sent
<1>12. DataInTurn'
  <2>1. config'["host"].ack_number # config["host"].ack_number
          => A = S /\ Len(arrived'["host"]) = Len(events')
    <3>1. phase = "opening" => A = S
      BY <1>0, <1>4 DEF HostInTurn
    <3>2. phase \in {"opening", "polling"}
      BY DEF TypeOK, Phase
    <3> QED
      BY <1>1, <1>2, <1>3, <1>6, <1>7, <3>1, <3>2
  <2>2. Given("chip")' = events'
    BY DEF Given
  <2> QED
    BY <1>0, <1>2, <2>1, <2>2, ReceiveKeepsData
<1>13. AnswerInTurn'
  BY <1>0, <1>1, <1>2, <1>9 DEF AnswerInTurn
<1> QED
  BY <1>10, <1>11, <1>12, <1>13 DEF InTurn

\* The chip takes a frame.
LEMMA ChipReceivesInTurn ==
  ASSUME TypeOK, TypeOK', LinkInv, LinkInv', InTurn, Receive("chip")
  PROVE  InTurn'
<1> DEFINE C == confirmed["host"]
           A == Len(arrived["chip"])
           S == Len(sentOps)
           B == Len(arrived["host"])
           E == Len(events)
           f == Taken("chip")
<1>0. /\ "host" \in End /\ "chip" \in End /\ Other("host") = "chip" /\ Other("chip") = "host"
      /\ Given("host") = sentOps /\ Given("chip") = events
      /\ ReceiveStep("chip") /\ DataReliable
      /\ HostInTurn /\ ChipInTurn /\ DataInTurn /\ AnswerInTurn
  BY DEF End, Other, Given, Receive, DataReliable, InTurn, DataInTurn
<1>1. UNCHANGED <<phase, fetchNewCommand, sentOps, events, chipQueue, chipMayCall, unsolicited>>
  BY DEF Receive, hostVars, chipVars
<1>2. /\ f \in Coming("chip") /\ f.kind # "none"
      /\ config'["host"] = config["host"] /\ poll'["host"] = poll["host"]
      /\ Coming("chip")' \subseteq Coming("chip")
      /\ Coming("host")' \subseteq Coming("host") \cup {NoFrame, BadFrame}
      /\ ~ChipReceived
      /\ ChipReceived' <=> Delivers("chip")
      /\ Held("chip")' <=> Held("chip") /\ ~Confirms("chip")
      /\ IsActive("chip")' <=> IsActive("chip") \/ Activates("chip")
      /\ Sent("chip")' <=> Sent("chip") \/ Confirms("chip") \/ Activates("chip")
      /\ config'["chip"].ack_number =
           IF Delivers("chip") THEN (config["chip"].ack_number + 1) % SeqModulus
                               ELSE config["chip"].ack_number
  BY <1>0, ReceiveTells DEF ChipReceived
<1>3. /\ confirmed'["host"] = C
      /\ arrived'["host"] = arrived["host"]
      /\ arrived'["chip"] = IF Delivers("chip") THEN Append(arrived["chip"], f.packet.id)
                                                ELSE arrived["chip"]
      /\ Len(arrived'["chip"]) = IF Delivers("chip") THEN A + 1 ELSE A
  BY <1>0, ReceiveIsLink
<1>4. /\ C \in Nat /\ A \in Nat /\ S \in Nat /\ C <= A /\ A <= S /\ S <= C + 1
      /\ B \in Nat /\ E \in Nat /\ B <= E
      /\ Held("chip") <=> E = confirmed["chip"] + 1
      /\ config["chip"].ack_number =
           IF A = C THEN config["host"].sequence_number
                    ELSE (config["host"].sequence_number + 1) % SeqModulus
      /\ (config["host"].sequence_number + 1) % SeqModulus # config["host"].sequence_number
      /\ confirmed["chip"] \in Nat
      /\ B # confirmed["chip"] => config["host"].ack_number # config["chip"].sequence_number
      /\ (sentOps = <<>> <=> S = 0) /\ (events = <<>> <=> E = 0)
  BY Counts
\* A command that is new is the last one, and all events have come.
<1>5. Delivers("chip") => A < S
  <2>1. NothingNew("host")
    BY <1>0, AllArrived
  <2>2. Delivers("chip") => f.kind = "data" /\ f.packet.reliable /\ f.seq = config["chip"].ack_number
    BY <1>0, <1>2 DEF Delivers, DataReliable
  <2> QED
    BY <1>0, <1>2, <1>4, <2>1, <2>2 DEF NothingNew
<1>6. Delivers("chip") => ~Owed /\ B = E /\ chipQueue = <<>> /\ A = C /\ S = A + 1
  <2> SUFFICES ASSUME Delivers("chip")
               PROVE  ~Owed /\ B = E /\ chipQueue = <<>> /\ A = C /\ S = A + 1
    OBVIOUS
  <2>1. A = C /\ S = A + 1 /\ S # 0
    BY <1>4, <1>5
  <2>2. phase = "polling"
    BY <1>0, <1>4, <2>1 DEF HostInTurn, TypeOK, Phase
  <2>3. ~Owed
    BY <1>0, <1>4, <1>5, <2>2 DEF HostInTurn
  <2> QED
    BY <1>4, <2>1, <2>3 DEF Owed
\* So the engine is free when it has come.
<1>7. Delivers("chip") => ~Held("chip")'
  <2> SUFFICES ASSUME Delivers("chip"), Held("chip") PROVE Confirms("chip")
    BY <1>2
  <2>1. f.ack = config["host"].ack_number
    BY <1>0, <1>2 DEF Delivers, DataInTurn
  <2>2. B # confirmed["chip"]
    BY <1>4, <1>6
  <2> QED
    BY <1>4, <2>1, <2>2 DEF Confirms, Delivers
<1>8. HostInTurn'
  <2>1. /\ (phase = "opening" => sentOps = <<>>)'
        /\ (phase = "polling" \/ Received => arrived["host"] # <<>>)'
        /\ (arrived["host"] # <<>> => IsActive("host"))'
        /\ (phase = "polling" /\ (fetchNewCommand \/ Received)
              => confirmed["host"] = Len(sentOps))'
    BY <1>0, <1>1, <1>2, <1>3 DEF HostInTurn, Received, IsActive
  <2>2. ASSUME phase = "polling", Owed'
        PROVE  Len(arrived'["chip"]) = Len(sentOps') /\ confirmed'["host"] < Len(sentOps')
    <3>1. CASE Delivers("chip")
      BY <1>1, <1>3, <1>4, <1>5, <1>6, <3>1
    <3>2. CASE ~Delivers("chip")
      <4>1. Owed
        BY <1>1, <1>2, <1>3, <2>2, <3>2 DEF Owed
      <4> QED
        BY <1>0, <1>1, <1>3, <2>2, <3>2, <4>1 DEF HostInTurn
    <3> QED
      BY <3>1, <3>2
  <2> QED
    BY <1>1, <2>1, <2>2 DEF HostInTurn
<1>9. ChipInTurn'
  <2>1. (ChipReceived => arrived["chip"] # <<>> /\ IsActive("chip") /\ ~Held("chip"))'
    <3> SUFFICES ASSUME Delivers("chip") PROVE arrived'["chip"] # <<>> /\ IsActive("chip")'
      BY <1>2, <1>7
    <3>1. arrived'["chip"] \in Seq(Nat)
      BY <1>0 DEF TypeOK
    <3>2. Len(arrived'["chip"]) = A + 1
      BY <1>3
    <3> QED
      BY <1>2, <1>4, <3>1, <3>2 DEF Delivers
  <2>2. (IsActive("chip") /\ ~Held("chip") => chipMayCall \/ Sent("chip"))'
    BY <1>0, <1>1, <1>2 DEF ChipInTurn
  <2>3. (Len(events) + Len(chipQueue) + (IF ChipReceived THEN 1 ELSE 0)
           <= unsolicited + Len(arrived["chip"]))'
    <3>1. E + Len(chipQueue) + 0 <= unsolicited + A
      BY <1>0, <1>2 DEF ChipInTurn
    <3>2. Len(chipQueue) \in Nat /\ unsolicited \in Nat
      BY DEF TypeOK
    <3>3. Len(events') + Len(chipQueue') + (IF ChipReceived' THEN 1 ELSE 0)
            <= unsolicited' + Len(arrived'["chip"])
      BY <1>1, <1>2, <1>3, <1>4, <3>1, <3>2
    <3> QED
      BY <3>3
  <2> QED
    BY <1>0, <1>1, <2>1, <2>2, <2>3 DEF ChipInTurn
<1>10. DataInTurn'
  <2>1. config'["chip"].ack_number # config["chip"].ack_number
          => B = E /\ Len(arrived'["chip"]) = Len(sentOps')
    BY <1>1, <1>2, <1>3, <1>4, <1>6
  <2>2. Given("host")' = sentOps'
    BY DEF Given
  <2> QED
    BY <1>0, <1>2, <2>1, <2>2, ReceiveKeepsData
<1>11. AnswerInTurn'
  <2>1. NoFrame.kind = "none" /\ BadFrame.kind = "bad"
    BY DEF NoFrame, BadFrame, LeFrame
  <2>2. CASE Delivers("chip")
    <3>1. \A g \in Coming("host") : g.kind \notin {"bad", "none"}
            => g.ack = config["host"].sequence_number
      BY <1>0, <1>6, <2>2, FramesSay DEF LinkInv
    <3>2. config'["chip"].ack_number # config["host"].sequence_number
      BY <1>2, <1>4, <1>6, <2>2
    <3> QED
      BY <1>2, <2>1, <3>1, <3>2 DEF AnswerInTurn
  <2>3. CASE ~Delivers("chip")
    <3>1. Owed' => Owed
      BY <1>1, <1>2, <1>3, <2>3 DEF Owed
    <3> QED
      BY <1>0, <1>1, <1>2, <2>1, <2>3, <3>1 DEF AnswerInTurn
  <2> QED
    BY <2>2, <2>3
<1> QED
  BY <1>8, <1>9, <1>10, <1>11 DEF InTurn

\* Data stays in turn when e polls: the packet it starts acknowledges all it has taken.
LEMMA PollKeepsData ==
  ASSUME DataInTurn, NEW e \in End, NEW o \in End, o = Other(e),
         config'[o] = config[o], config'[e].ack_number = config[e].ack_number,
         Coming(e)' = Coming(e),
         \A f \in Coming(o)' : f \in Coming(o) \cup {NoFrame, BadFrame} \/ Started(e, f)
  PROVE  DataInTurn'
<1>0. e = Other(o) /\ \A x \in End : x = e \/ x = o
  BY Ends
<1>1. NoFrame.kind = "none" /\ BadFrame.kind = "bad"
  BY DEF NoFrame, BadFrame, LeFrame
<1>2. ASSUME NEW f \in Coming(o)', f.kind = "data"
      PROVE  f.packet.reliable /\ (f.seq = config'[o].ack_number => f.ack = config'[e].ack_number)
  <2>1. CASE f \in Coming(o)
    BY <1>0, <1>2, <2>1 DEF DataInTurn
  <2>2. CASE Started(e, f)
    BY <1>2, <2>2 DEF Started, LeMessage
  <2> QED
    BY <1>1, <1>2, <2>1, <2>2
<1>3. \A f \in Coming(e)' :
        f.kind = "data" =>
          f.packet.reliable /\ (f.seq = config'[e].ack_number => f.ack = config'[o].ack_number)
  BY DEF DataInTurn
<1> QED
  BY <1>0, <1>2, <1>3 DEF DataInTurn

\* Whatever the host does when it polls, the chip stays in turn, and an event that
\* is to come stays so.
LEMMA HostPollsInTurn ==
  ASSUME InTurn,
         config'["chip"] = config["chip"], poll'["chip"] = poll["chip"],
         config'["host"].ack_number = config["host"].ack_number,
         Coming("host")' = Coming("host"),
         \A f \in Coming("chip")' :
           f \in Coming("chip") \cup {NoFrame, BadFrame} \/ Started("host", f),
         UNCHANGED <<arrived, confirmed, chipVars>>
  PROVE  /\ ChipInTurn'
         /\ DataInTurn'
         /\ Owed' <=> Owed
         /\ (phase' = "polling" /\ Owed => phase = "polling") => AnswerInTurn'
<1>0. "host" \in End /\ "chip" \in End /\ Other("host") = "chip"
  BY DEF End, Other
<1>1. UNCHANGED <<arrived, confirmed, events, chipQueue, chipMayCall, unsolicited>>
  BY DEF chipVars
<1>2. Owed' <=> Owed
  BY <1>1 DEF Owed, ChipReceived
<1>3. ChipInTurn'
  BY <1>1 DEF InTurn, ChipInTurn, ChipReceived, IsActive, Held, Sent
<1>4. DataInTurn'
  BY <1>0, PollKeepsData DEF InTurn
<1>5. (phase' = "polling" /\ Owed => phase = "polling") => AnswerInTurn'
  BY <1>2 DEF InTurn, AnswerInTurn
<1> QED
  BY <1>2, <1>3, <1>4, <1>5

\* The host polls and has nothing to send: it goes on as it was, starts to poll for
\* commands when the first packet has come, or decides to fetch when it may.
LEMMA HostPollsOn ==
  ASSUME MaxUnsolicited <= 1, TypeOK, LinkInv, InTurn, Continue,
         UNCHANGED <<sentOps, arrived, confirmed, chipVars>>,
         phase' = phase \/ (phase = "opening" /\ phase' = "polling" /\ Received),
         phase = "polling" /\ fetchNewCommand' => fetchNewCommand \/ Received \/ ~Held("host")
  PROVE  InTurn'
<1> DEFINE C == confirmed["host"]
           A == Len(arrived["chip"])
           S == Len(sentOps)
           B == Len(arrived["host"])
           E == Len(events)
<1>0. /\ "host" \in End /\ "chip" \in End /\ Other("host") = "chip" /\ Other("chip") = "host"
      /\ HostInTurn /\ ChipInTurn
  BY DEF End, Other, InTurn
<1>1. /\ config'["chip"] = config["chip"] /\ poll'["chip"] = poll["chip"]
      /\ config'["host"].ack_number = config["host"].ack_number
      /\ IsActive("host")' <=> IsActive("host")
      /\ ~Received'
      /\ Coming("host")' = Coming("host")
      /\ \A f \in Coming("chip")' :
           f \in Coming("chip") \cup {NoFrame, BadFrame} \/ Started("host", f)
  BY <1>0, PollOnTells DEF Continue, Received
<1>2. /\ ChipInTurn' /\ DataInTurn' /\ (Owed' <=> Owed)
      /\ (phase' = "polling" /\ Owed => phase = "polling") => AnswerInTurn'
  BY <1>1, HostPollsInTurn
<1>3. /\ C \in Nat /\ A \in Nat /\ S \in Nat /\ C <= A /\ A <= S /\ S <= C + 1
      /\ B \in Nat /\ E \in Nat /\ B <= E
      /\ Held("host") <=> S = C + 1
      /\ (sentOps = <<>> <=> S = 0) /\ (arrived["host"] = <<>> <=> B = 0)
      /\ phase \in {"opening", "polling"}
  BY Counts DEF TypeOK, Phase
\* The packet that opens the device is the only one there is.
<1>4. phase' # phase => S = 0 /\ C = 0 /\ ~Owed
  <2> SUFFICES ASSUME phase = "opening", Received PROVE S = 0 /\ C = 0 /\ ~Owed
    OBVIOUS
  <2>1. S = 0 /\ C = 0 /\ A = 0
    BY <1>0, <1>3 DEF HostInTurn
  <2>2. B # 0 /\ E # 0
    BY <1>0, <1>3 DEF HostInTurn
  <2>3. ~ChipReceived /\ chipQueue = <<>>
    <3>1. arrived["chip"] = <<>> /\ events # <<>>
      BY <2>1, <2>2, Counts
    <3> QED
      BY <1>0, <3>1 DEF ChipInTurn
  <2>4. E + 0 + 0 <= unsolicited + 0 /\ unsolicited <= MaxUnsolicited /\ unsolicited \in Nat
    BY <1>0, <2>1, <2>3, MaxUnsolicitedAssumption DEF ChipInTurn, TypeOK
  <2>5. B = E
    BY <1>3, <2>2, <2>4, MaxUnsolicitedAssumption
  <2> QED
    BY <1>3, <2>1, <2>3, <2>5 DEF Owed
<1>5. phase' = "polling" /\ Owed => phase = "polling"
  BY <1>4
<1>6. HostInTurn'
  <2>1. /\ (phase = "opening" => sentOps = <<>>)'
        /\ (phase = "polling" \/ Received => arrived["host"] # <<>>)'
        /\ (arrived["host"] # <<>> => IsActive("host"))'
    BY <1>0, <1>1 DEF HostInTurn
  <2>2. (phase = "polling" /\ (fetchNewCommand \/ Received) => confirmed["host"] = Len(sentOps))'
    <3>1. CASE phase = "polling"
      <4>1. fetchNewCommand' => C = S
        BY <1>0, <1>3, <3>1 DEF HostInTurn
      <4> QED
        BY <1>1, <4>1
    <3>2. CASE phase # "polling"
      BY <1>4, <3>2
    <3> QED
      BY <3>1, <3>2
  <2>3. (phase = "polling" /\ Owed =>
           Len(arrived["chip"]) = Len(sentOps) /\ confirmed["host"] < Len(sentOps))'
    BY <1>0, <1>2, <1>5 DEF HostInTurn
  <2> QED
    BY <2>1, <2>2, <2>3 DEF HostInTurn
<1> QED
  BY <1>2, <1>5, <1>6 DEF InTurn

\* The host is given an operation.
LEMMA SendOpInTurn ==
  ASSUME TypeOK, LinkInv, QueueInStep, InTurn, SendOp
  PROVE  /\ InTurn'
         /\ MayCall["host"] \/ Sent("host")
         /\ NextOp = Len(sentOps) + 1 /\ NextOp <= MaxOps
         /\ Len(sentOps') = NextOp
<1> DEFINE C == confirmed["host"]
           S == Len(sentOps)
<1>0. /\ "host" \in End /\ "chip" \in End /\ Other("host") = "chip" /\ Other("chip") = "host"
      /\ HostInTurn /\ ChipInTurn
  BY DEF End, Other, InTurn
<1>1. /\ phase = "polling" /\ Fetch /\ ~isQueueEmpty
      /\ sentOps' = Append(sentOps, NextOp)
      /\ phase' = phase /\ ~fetchNewCommand'
      /\ UNCHANGED <<arrived, confirmed, chipVars>>
  BY DEF SendOp
<1>2. C \in Nat /\ S \in Nat /\ C <= S /\ S <= C + 1 /\ (Held("host") <=> S = C + 1)
  BY Counts
<1>3. NextOp = S + 1 /\ NextOp \in Op /\ NextOp <= MaxOps
  <2>1. queueHead < queueTail /\ queueHead \in Nat /\ queueTail \in Nat
    BY <1>1, QueueSlotsAssumption DEF isQueueEmpty, QueueInStep, TypeOK, QueueType
  <2>2. 1 \in 1 .. queueTail - queueHead /\ queueHead + 1 - 1 = queueHead
    BY <2>1
  <2>3. dataQueue[queueHead + 1 - 1] = S + 1
    BY <2>2 DEF QueueInStep
  <2>4. NextOp \in Op
    BY <2>1, NextOpTyped DEF TypeOK
  <2> QED
    BY <2>2, <2>3, <2>4, MaxOpsAssumption DEF NextOp
<1>4. sentOps' \in Seq(Op) /\ Len(sentOps') = S + 1
  BY <1>1, <1>3 DEF TypeOK
\* The engine is free: the last operation was acknowledged.
<1>5. C = S /\ ~Held("host")
  <2>1. fetchNewCommand \/ Received => C = S
    BY <1>0, <1>1 DEF HostInTurn
  <2>2. Sent("host") => ~Held("host")
    BY <1>0, WindowSays DEF LinkInv
  <2> QED
    BY <1>1, <1>2, <2>1, <2>2 DEF Fetch
<1>6. ~Owed
  BY <1>0, <1>1, <1>2, <1>5 DEF HostInTurn
<1>7. MayCall["host"] \/ Sent("host")
  BY <1>0, <1>1, <1>5 DEF MayCall, HostInTurn
<1>8. /\ config'["chip"] = config["chip"] /\ poll'["chip"] = poll["chip"]
      /\ config'["host"].ack_number = config["host"].ack_number
      /\ IsActive("host")' <=> IsActive("host")
      /\ ~Received'
      /\ Coming("host")' = Coming("host")
      /\ \A f \in Coming("chip")' :
           f \in Coming("chip") \cup {NoFrame, BadFrame} \/ Started("host", f)
  <2>1. PICK rest \in Abandoned("host") :
          TransmitStep("host", ubcsp_send_packet(Returned("host"), Reliable(NextOp)),
                       line["chip"] \o rest)
    BY DEF SendOp
  <2>2. NextOp \in Nat \ {0}
    BY <1>2, <1>3
  <2> QED
    BY <1>0, <2>1, <2>2, SubmitTells DEF Received
<1>9. /\ ChipInTurn' /\ DataInTurn' /\ (Owed' <=> Owed)
      /\ (phase' = "polling" /\ Owed => phase = "polling") => AnswerInTurn'
  BY <1>1, <1>8, HostPollsInTurn
<1>10. HostInTurn'
  BY <1>0, <1>1, <1>6, <1>8, <1>9 DEF HostInTurn
<1> QED
  BY <1>1, <1>3, <1>4, <1>7, <1>9, <1>10 DEF InTurn

\* What the chip has to send, if it answers with one event at most and has one of
\* its own at most: one event, and none of its own once there was a command.
LEMMA ChipWorkIs ==
  ASSUME MaxUnsolicited <= 1, Answers \subseteq {"complete", "nothing"},
         TypeOK, LinkInv, InTurn, NEW work \in ChipWork,
         NEW u, u = IF ~ChipReceived /\ work # chipQueue THEN unsolicited + 1 ELSE unsolicited
  PROVE  /\ work \in Seq(Nat) /\ Len(work) <= 1
         /\ Len(events) + Len(work) <= u + Len(arrived["chip"])
         /\ work # <<>> \/ events # <<>> => u = MaxUnsolicited
         /\ work # <<>> => chipMayCall \/ Sent("chip") \/ events = <<>>
         /\ work # <<>> /\ phase = "polling" => Owed
         /\ u <= 1
<1> DEFINE A == Len(arrived["chip"])
           E == Len(events)
           q == Len(chipQueue)
<1>0. HostInTurn /\ ChipInTurn
  BY DEF InTurn
<1>1. /\ A \in Nat /\ E \in Nat /\ A <= Len(sentOps) /\ Len(arrived["host"]) <= E
      /\ Len(arrived["host"]) \in Nat
      /\ (sentOps = <<>> <=> Len(sentOps) = 0) /\ (events = <<>> <=> E = 0)
      /\ (arrived["host"] = <<>> <=> Len(arrived["host"]) = 0)
      /\ (arrived["chip"] = <<>> <=> A = 0)
      /\ Len(sentOps) \in Nat
  BY Counts
<1>2. /\ chipQueue \in Seq(Nat) /\ q \in Nat /\ unsolicited \in Nat /\ unsolicited <= MaxUnsolicited
      /\ MaxUnsolicited \in Nat /\ phase \in {"opening", "polling"}
      /\ poll["chip"].packet.id \in Nat
  BY MaxUnsolicitedAssumption DEF TypeOK, Phase, End, Poll, Packet
<1> HIDE DEF q
<1>3. <<>> \in Seq(Nat) /\ Len(<<>>) = 0 /\ (chipQueue = <<>> => q = 0)
      /\ \A x \in Nat : <<x>> \in Seq(Nat) /\ Len(<<x>>) = 1
  BY DEF q
<1>4. /\ E + q + (IF ChipReceived THEN 1 ELSE 0) <= unsolicited + A
      /\ chipQueue # <<>> => events = <<>> /\ q = 1
      /\ chipQueue # <<>> \/ events # <<>> => unsolicited = MaxUnsolicited
  BY <1>0 DEF ChipInTurn, q
<1>5. events # <<>> \/ phase = "opening"
  BY <1>0, <1>1, <1>2 DEF HostInTurn
<1>6. CASE ChipReceived
  <2>1. events # <<>> /\ (chipMayCall \/ Sent("chip"))
    BY <1>0, <1>1, <1>2, <1>6 DEF ChipInTurn, HostInTurn
  <2>2. chipQueue = <<>> /\ q = 0
    BY <1>3, <1>4, <2>1
  <2>3. PICK a \in Answers : work = chipQueue \o AnswerTo(poll["chip"].packet.id, a)
    BY <1>6 DEF ChipWork, ChipReceived
  <2>4. AnswerTo(poll["chip"].packet.id, a) \in {<<>>, <<Complete(poll["chip"].packet.id)>>}
    BY DEF AnswerTo
  <2>5. Complete(poll["chip"].packet.id) \in Nat
    BY <1>2 DEF Complete
  <2>6. work = AnswerTo(poll["chip"].packet.id, a)
    <3>1. AnswerTo(poll["chip"].packet.id, a) \in Seq(Nat)
      BY <1>3, <2>4, <2>5
    <3> QED
      BY <2>2, <2>3, <3>1, ConcatEmptySeq
  <2>7. work \in Seq(Nat) /\ Len(work) <= 1 /\ Len(work) \in Nat
    <3>1. CASE work = <<>>
      BY <1>3, <3>1
    <3>2. CASE work = <<Complete(poll["chip"].packet.id)>>
      BY <1>3, <2>5, <3>2
    <3> QED
      BY <2>4, <2>6, <3>1, <3>2
  <2>8. E + Len(work) <= unsolicited + A
    BY <1>1, <1>2, <1>4, <1>6, <2>2, <2>7
  <2> QED
    BY <1>2, <1>4, <1>6, <2>1, <2>7, <2>8 DEF Owed
<1>7. CASE ~ChipReceived /\ work = chipQueue
  <2>1. q <= 1
    BY <1>4, <1>3
  <2>2. E + q <= unsolicited + A
    BY <1>1, <1>2, <1>4, <1>7
  <2> QED
    BY <1>2, <1>4, <1>7, <2>1, <2>2 DEF Owed, q
<1>8. CASE ~ChipReceived /\ work # chipQueue
  <2>1. unsolicited < MaxUnsolicited /\ work = chipQueue \o <<Notification>>
    BY <1>8 DEF ChipWork, ChipReceived
  <2>2. unsolicited = 0 /\ MaxUnsolicited = 1 /\ u = 1
    BY <1>2, <1>8, <2>1
  <2>3. chipQueue = <<>> /\ events = <<>>
    BY <1>4, <2>2
  <2>4. work = <<Notification>> /\ work \in Seq(Nat) /\ Len(work) = 1
    BY <2>1, <2>3, ConcatEmptySeq DEF Notification
  <2>5. E + 1 <= 1 + A
    BY <1>1, <2>3
  <2> QED
    BY <1>5, <2>2, <2>3, <2>4, <2>5
<1> QED
  BY <1>6, <1>7, <1>8

\* The chip polls, and sends what it has to.
LEMMA ChipPollInTurn ==
  ASSUME MaxUnsolicited <= 1, Answers \subseteq {"complete", "nothing"},
         TypeOK, LinkInv, QueueInStep, InTurn, ChipPoll
  PROVE  InTurn' /\ (Link!NextPoll("chip") \/ Link!Submit("chip"))
<1> DEFINE C == confirmed["host"]
           A == Len(arrived["chip"])
           B == Len(arrived["host"])
           E == Len(events)
           t == config["chip"].sequence_number
           free == chipMayCall \/ Sent("chip")
<1>0. /\ "host" \in End /\ "chip" \in End /\ Other("host") = "chip" /\ Other("chip") = "host"
      /\ Given("chip") = events /\ HostInTurn /\ ChipInTurn /\ DataInTurn /\ AnswerInTurn
      /\ DataReliable
  BY DEF End, Other, Given, InTurn, DataInTurn, DataReliable
<1>1. PICK work \in ChipWork, rest \in Abandoned("chip") :
        LET submits == free /\ work # <<>>
        IN  /\ IF submits
               THEN TransmitStep("chip", ubcsp_send_packet(Returned("chip"), Reliable(E + 1)),
                                 line["host"] \o rest)
               ELSE rest = <<>> /\ TransmitStep("chip", Returned("chip"), line["host"])
            /\ chipMayCall' = (free /\ ~submits)
            /\ chipQueue' = IF submits THEN Tail(work) ELSE work
            /\ events' = IF submits THEN Append(events, Head(work)) ELSE events
            /\ unsolicited' = IF ~ChipReceived /\ work # chipQueue
                              THEN unsolicited + 1 ELSE unsolicited
            /\ UNCHANGED <<queueVars, hostVars, queued, arrived, confirmed, completed, noise>>
  BY DEF ChipPoll, ChipReceived
<1> DEFINE submits == free /\ work # <<>>
<1>2. /\ work \in Seq(Nat) /\ Len(work) <= 1
      /\ E + Len(work) <= unsolicited' + A
      /\ work # <<>> \/ events # <<>> => unsolicited' = MaxUnsolicited
      /\ work # <<>> => free \/ events = <<>>
      /\ work # <<>> /\ phase = "polling" => Owed
      /\ unsolicited' <= 1
  BY <1>1, ChipWorkIs
<1>3. /\ A \in Nat /\ A <= Len(sentOps) /\ Len(sentOps) \in Nat /\ C \in Nat /\ C <= A
      /\ B \in Nat /\ E \in Nat /\ B <= E
      /\ confirmed["chip"] \in Nat /\ confirmed["chip"] <= B /\ E <= confirmed["chip"] + 1
      /\ Held("chip") <=> E = confirmed["chip"] + 1
      /\ B = confirmed["chip"] => config["host"].ack_number = t
      /\ A # C => config["chip"].ack_number # config["host"].sequence_number
      /\ (events = <<>> <=> E = 0) /\ (arrived["host"] = <<>> <=> B = 0)
  BY Counts
<1>4. UNCHANGED <<phase, fetchNewCommand, sentOps, arrived, confirmed, noise>>
  BY <1>1 DEF hostVars
<1>5. work # <<>> => Len(work) = 1 /\ Head(work) \in Nat /\ Tail(work) = <<>>
  <2> SUFFICES ASSUME work # <<>>
               PROVE  Len(work) = 1 /\ Head(work) \in Nat /\ Tail(work) = <<>>
    OBVIOUS
  <2>1. Len(work) \in Nat \ {0} /\ Head(work) \in Nat
    BY <1>2
  <2>2. Tail(work) \in Seq(Nat) /\ Len(Tail(work)) = Len(work) - 1
    BY <1>2
  <2>3. Len(work) = 1 /\ Len(Tail(work)) = 0
    BY <1>2, <2>1, <2>2
  <2>4. Tail(work) = <<>>
    BY <2>2, <2>3, EmptySeq
  <2> QED
    BY <2>1, <2>3, <2>4
<1>6. /\ events' = IF submits THEN Append(events, Head(work)) ELSE events
      /\ chipQueue' = IF submits THEN <<>> ELSE work
      /\ Len(events') = IF submits THEN E + 1 ELSE E
      /\ chipMayCall' = (free /\ ~submits)
  <2>1. events' = (IF submits THEN Append(events, Head(work)) ELSE events)
        /\ chipQueue' = (IF submits THEN Tail(work) ELSE work)
        /\ chipMayCall' = (free /\ ~submits)
    BY <1>1
  <2>2. submits => Len(Append(events, Head(work))) = E + 1
    <3>1. events \in Seq(Nat)
      BY DEF TypeOK
    <3> QED
      BY <1>5, <3>1
  <2> QED
    BY <1>5, <2>1, <2>2
<1>7. free => ~Held("chip")
  <2>1. MayCall["chip"] <=> chipMayCall
    BY <1>0 DEF MayCall
  <2> QED
    BY <1>0, <2>1, WindowSays DEF LinkInv
<1>8. /\ config'["host"] = config["host"] /\ poll'["host"] = poll["host"]
      /\ config'["chip"].ack_number = config["chip"].ack_number
      /\ IsActive("chip")' <=> IsActive("chip")
      /\ Held("chip")' <=> Held("chip") \/ submits
      /\ ~ChipReceived'
      /\ Coming("chip")' = Coming("chip")
      /\ \A f \in Coming("host")' :
           f \in Coming("host") \cup {NoFrame, BadFrame} \/ Started("chip", f)
  <2>1. CASE submits
    <3>1. TransmitStep("chip", ubcsp_send_packet(Returned("chip"), Reliable(E + 1)),
                       line["host"] \o rest)
      BY <1>1, <2>1
    <3>2. E + 1 \in Nat \ {0}
      BY <1>3
    <3> QED
      BY <1>0, <2>1, <3>1, <3>2, SubmitTells DEF ChipReceived
  <2>2. CASE ~submits
    <3>1. TransmitStep("chip", Returned("chip"), line["host"])
      BY <1>1, <2>2
    <3> QED
      BY <1>0, <2>2, <3>1, PollOnTells DEF ChipReceived
  <2> QED
    BY <2>1, <2>2
<1> HIDE DEF free, submits
<1>9. submits => free /\ work # <<>>
  BY DEF submits
<1>10. free /\ work # <<>> => submits
  BY DEF submits
\* An event that is to come was to come before, and is in the engine now.
<1>11. phase = "polling" /\ Owed' =>
         /\ Owed
         /\ Held("chip")'
         /\ config["host"].ack_number = t
  <2> SUFFICES ASSUME phase = "polling", Owed'
               PROVE  Owed /\ Held("chip")' /\ config["host"].ack_number = t
    OBVIOUS
  <2>1. E # 0
    BY <1>0, <1>3 DEF HostInTurn
  <2>2. chipQueue' = <<>>
    BY <1>2, <1>3, <1>6, <1>9, <1>10, <2>1
  <2>3. B < Len(events')
    BY <1>4, <1>8, <2>2 DEF Owed
  <2>4. CASE submits
    <3>1. E = confirmed["chip"] /\ B = confirmed["chip"]
      BY <1>3, <1>7, <1>9, <2>4
    <3> QED
      BY <1>2, <1>3, <1>8, <1>9, <2>4, <3>1
  <2>5. CASE ~submits
    <3>1. B < E /\ B = confirmed["chip"] /\ E = confirmed["chip"] + 1
      BY <1>3, <1>6, <2>3, <2>5
    <3> QED
      BY <1>3, <1>8, <3>1 DEF Owed
  <2> QED
    BY <2>4, <2>5
<1>12. HostInTurn'
  BY <1>0, <1>4, <1>8, <1>11 DEF HostInTurn, Received, IsActive
<1>13. ChipInTurn'
  <2>1. (IsActive("chip") /\ ~Held("chip") => chipMayCall \/ Sent("chip"))'
    BY <1>0, <1>6, <1>8 DEF ChipInTurn, free
  <2>2. (chipQueue # <<>> => events = <<>> /\ Len(chipQueue) = 1)'
    BY <1>2, <1>5, <1>6, <1>9, <1>10
  <2>3. (chipQueue # <<>> \/ events # <<>> => unsolicited = MaxUnsolicited)'
    BY <1>2, <1>6, <1>9
  <2>4. Len(events') + Len(chipQueue') + 0 <= unsolicited' + A
    <3>1. Len(work) \in Nat /\ Len(<<>>) = 0
      BY <1>2
    <3>2. CASE submits
      BY <1>2, <1>3, <1>5, <1>6, <1>9, <3>1, <3>2
    <3>3. CASE ~submits
      BY <1>2, <1>3, <1>6, <3>1, <3>3
    <3> QED
      BY <3>2, <3>3
  <2>5. (Len(events) + Len(chipQueue) + (IF ChipReceived THEN 1 ELSE 0)
           <= unsolicited + Len(arrived["chip"]))'
    BY <1>4, <1>8, <2>4
  <2> QED
    BY <1>8, <2>1, <2>2, <2>3, <2>5 DEF ChipInTurn
<1>14. DataInTurn'
  BY <1>0, <1>8, PollKeepsData
<1>15. AnswerInTurn'
  <2> SUFFICES ASSUME phase = "polling", Owed', NEW f \in Coming("host")',
                      f.kind \notin {"bad", "none"}, f.ack = config["chip"].ack_number
               PROVE  f.kind = "data" /\ f.seq = config["host"].ack_number
    BY <1>4, <1>8 DEF AnswerInTurn
  <2>1. Owed /\ Held("chip")' /\ config["host"].ack_number = t
    BY <1>11
  <2>2. CASE f \in Coming("host")
    BY <1>0, <2>1, <2>2 DEF AnswerInTurn
  <2>3. CASE Started("chip", f)
    <3>1. A # C
      BY <1>0, <1>3, <2>1 DEF HostInTurn
    <3>2. C = 0 => config["host"].sequence_number = 0
      BY <1>0, WindowSays DEF LinkInv
    <3>3. ~(f.ack = 0 /\ C = 0)
      BY <1>3, <3>1, <3>2
    <3> QED
      BY <1>0, <2>1, <2>3, <3>3 DEF Started
  <2>4. NoFrame.kind = "none" /\ BadFrame.kind = "bad"
    BY DEF NoFrame, BadFrame, LeFrame
  <2> QED
    BY <1>8, <2>2, <2>3, <2>4
<1>16. Link!NextPoll("chip") \/ Link!Submit("chip")
  <2>1. CASE submits
    <3>1. TransmitStep("chip", ubcsp_send_packet(Returned("chip"), Reliable(E + 1)),
                       line["host"] \o rest)
      BY <1>1, <1>9, <2>1
    <3>2. MayCall["chip"] \/ Sent("chip")
      BY <1>0, <1>9, <2>1 DEF MayCall, free
    <3>3. E + 1 <= MaxOps + 1
      <4>1. Len(sentOps) <= MaxOps
        <5>1. queueHead \in Nat /\ queueTail \in Nat /\ queued \in 0 .. MaxOps
          BY QueueSlotsAssumption DEF TypeOK, QueueType
        <5>2. queueHead <= queueTail /\ Len(sentOps) + (queueTail - queueHead) = queued
          BY DEF QueueInStep
        <5> QED
          BY <1>3, <5>1, <5>2, MaxOpsAssumption
      <4>2. unsolicited' \in Nat
        BY <1>1 DEF TypeOK
      <4>3. E + 1 <= unsolicited' + A
        BY <1>2, <1>5, <1>9, <2>1
      <4> QED
        BY <1>2, <1>3, <4>1, <4>2, <4>3, MaxOpsAssumption
    <3>4. Len(Given("chip")') = E + 1 /\ Given("host")' = Given("host")
      BY <1>4, <1>6, <2>1 DEF Given
    <3>5. chipMayCall' = (chipMayCall /\ "chip" # "chip")
      BY <1>6, <2>1
    <3> QED
      BY <1>0, <1>4, <3>1, <3>2, <3>3, <3>4, <3>5, SubmitIsLink
  <2>2. CASE ~submits
    <3>1. TransmitStep("chip", Returned("chip"), line["host"])
      BY <1>1, <1>10, <2>2
    <3>2. chipMayCall' = (chipMayCall \/ ("chip" = "chip" /\ Sent("chip")))
      BY <1>6, <2>2 DEF free
    <3> QED
      BY <1>0, <1>4, <1>6, <2>2, <3>1, <3>2, PollOnIsLink
  <2> QED
    BY <2>1, <2>2
<1> QED
  BY <1>12, <1>13, <1>14, <1>15, <1>16 DEF InTurn

-----------------------------------------------------------------------------
(* The noise.                                                              *)

\* A frame damaged or lost on its way to an end leaves the others coming to it.
LEMMA NoiseKeepsComing ==
  ASSUME TypeOK, NEW e \in End, Noise(e), NEW x \in End
  PROVE  Coming(x)' \subseteq Coming(x) \cup {BadFrame}
<1>1. /\ line \in [End -> Seq(Frame)] /\ line[e] \in Seq(Frame) /\ line[e] # <<>>
      /\ BadFrame \in Frame
  BY FrameTypes DEF Noise, TypeOK
<1> DEFINE l == line[e]
           w == line'[e]
<1>2. /\ w = Tail(l) \/ w = <<BadFrame>> \o Tail(l)
      /\ line' = [line EXCEPT ![e] = w]
      /\ config' = config
  BY <1>1 DEF Noise
<1>3. /\ Tail(l) \in Seq(Frame) /\ Len(Tail(l)) = Len(l) - 1 /\ Len(l) \in Nat
      /\ \A i \in 1 .. Len(Tail(l)) : Tail(l)[i] = l[i + 1]
  BY <1>1, HeadTailProperties
<1>4. \A i \in 1 .. Len(Tail(l)) : \E j \in 1 .. Len(l) : Tail(l)[i] = l[j]
  <2> TAKE i \in 1 .. Len(Tail(l))
  <2>1. i + 1 \in 1 .. Len(l)
    BY <1>3
  <2> QED
    BY <1>3, <2>1
<1>5. \A i \in 1 .. Len(<<BadFrame>> \o Tail(l)) :
        \/ (<<BadFrame>> \o Tail(l))[i] = BadFrame
        \/ \E j \in 1 .. Len(l) : (<<BadFrame>> \o Tail(l))[i] = l[j]
  <2> TAKE i \in 1 .. Len(<<BadFrame>> \o Tail(l))
  <2>1. (<<BadFrame>> \o Tail(l))[i] = IF i = 1 THEN BadFrame ELSE Tail(l)[i - 1]
    BY <1>1, <1>3
  <2>2. i # 1 => i - 1 \in 1 .. Len(Tail(l))
    BY <1>1, <1>3
  <2> QED
    BY <1>4, <2>1, <2>2
<1>6. \A i \in 1 .. Len(w) : w[i] = BadFrame \/ \E j \in 1 .. Len(l) : w[i] = l[j]
  <2> HIDE DEF l, w
  <2> QED
    BY <1>2, <1>4, <1>5
<1> HIDE DEF w
<1>7. line'[x] = IF x = e THEN w ELSE line[x]
  BY <1>1, <1>2
<1> QED
  BY <1>2, <1>6, <1>7 DEF Coming

\* A frame that is damaged or lost leaves the host and the chip in turn: nobody
\* does anything, and what still comes came before.
LEMMA NoiseInTurn ==
  ASSUME TypeOK, InTurn, NEW e \in End, Noise(e)
  PROVE  InTurn' /\ Link!Noise(e)
<1>0. "host" \in End /\ BadFrame.kind = "bad"
  BY DEF End, BadFrame, LeFrame
<1>1. UNCHANGED <<config, poll, phase, fetchNewCommand, sentOps, arrived, confirmed, events,
                  chipQueue, chipMayCall, unsolicited>>
  BY DEF Noise, hostVars, chipVars
<1>2. \A x \in End : Coming(x)' \subseteq Coming(x) \cup {BadFrame}
  BY NoiseKeepsComing
<1>3. HostInTurn' /\ ChipInTurn' /\ (Owed' <=> Owed)
  BY <1>1
  DEF InTurn, HostInTurn, ChipInTurn, Received, ChipReceived, Owed, IsActive, Held, Sent
<1>4. DataInTurn'
  BY <1>0, <1>1, <1>2 DEF InTurn, DataInTurn
<1>5. AnswerInTurn'
  BY <1>0, <1>1, <1>2, <1>3 DEF InTurn, AnswerInTurn
<1>6. MayCall' = MayCall /\ Packets' = Packets /\ Submitted' = Submitted /\ Outstanding' = Outstanding
  BY <1>1 DEF MayCall, Packets, Submitted, Outstanding, Given, IsActive, Held, Sent
<1>7. Link!Noise(e)
  BY <1>1, <1>6, SameTypes DEF Noise, Link!Noise, Link!callerVars
<1> QED
  BY <1>3, <1>4, <1>5, <1>7 DEF InTurn

-----------------------------------------------------------------------------
(* Every step.                                                             *)

\* The poll loop gives up on an answer only when the command is acknowledged, and
\* the chip sends one event per command at most and one of its own at most.  Without
\* it SendOnlyWhenFree is false: hci_do_poll does not look whether SENT was reported.
OneEventEach ==
  Patient /\ MaxUnsolicited <= 1 /\ Answers \subseteq {"complete", "nothing"}

\* What makes the poll loop a caller that keeps to the contract of the engine.
TurnInv == TypeOK /\ HostSendsOps /\ QueueInStep /\ LinkInv /\ InTurn

\* The first state.
LEMMA TurnStarts == Init => TurnInv
<1> SUFFICES ASSUME Init PROVE TurnInv
  OBVIOUS
<1>0. "host" \in End /\ "chip" \in End /\ Len(<<>>) = 0
  BY DEF End
<1>1. TypeOK /\ HostSendsOps /\ QueueInStep
  BY InitTyped, InitInStep
<1>2. LinkInv
  <2>1. Link!Init /\ Link!TypeOK
    BY <1>1, LinkStarts, LinkTyped
  <2> QED
    BY <2>1, Link!HandshakeInductive, Link!WindowInductive, LinkConstants,
       SeqModulusAssumption, PollDelayAssumption, LineMaxAssumption DEF LinkInv
<1>3. /\ ~Received /\ ~ChipReceived
      /\ \A e \in End : config[e] = FirstConfig /\ line[e] = <<>>
      /\ arrived["host"] = <<>> /\ arrived["chip"] = <<>> /\ sentOps = <<>> /\ events = <<>>
      /\ chipQueue = <<>> /\ phase = "opening" /\ unsolicited = 0
  BY <1>0 DEF Init, Received, ChipReceived, FirstPoll
<1>4. FirstConfig.link_establishment_state = uninitialized /\ FirstConfig.sending.kind = "sync"
  BY DEF FirstConfig, Established, Boot, LeFrame
<1>5. HostInTurn
  BY <1>3 DEF HostInTurn
<1>6. ChipInTurn
  BY <1>0, <1>3, <1>4 DEF ChipInTurn, IsActive, uninitialized, active
<1>7. DataInTurn
  <2>1. \A e \in End : Coming(e) = {FirstConfig.sending}
    BY <1>0, <1>3, Ends DEF Coming
  <2> QED
    BY <1>4, <2>1 DEF DataInTurn
<1>8. AnswerInTurn
  BY <1>3 DEF AnswerInTurn
<1> QED
  BY <1>1, <1>2, <1>5, <1>6, <1>7, <1>8 DEF TurnInv, InTurn

\* A step of the link keeps what holds of the link.
LEMMA LinkKeeps ==
  ASSUME LinkInv, [Link!Next]_(Link!vars)
  PROVE  LinkInv'
BY Link!LinkStepTyped, Link!HandshakeInductive, Link!WindowInductive, LinkConstants,
   SeqModulusAssumption, PollDelayAssumption, LineMaxAssumption DEF LinkInv

\* Each step is in turn, and is a step of the link or does not touch it.
LEMMA StepInTurn ==
  ASSUME OneEventEach, TurnInv, [Next]_vars
  PROVE  TurnInv' /\ [Link!Next]_(Link!vars)
<1>0. /\ TypeOK /\ HostSendsOps /\ QueueInStep /\ LinkInv /\ InTurn /\ DataReliable
      /\ "host" \in End /\ "chip" \in End /\ Other("host") = "chip"
      /\ MaxUnsolicited <= 1 /\ Answers \subseteq {"complete", "nothing"} /\ Patient
  BY DEF TurnInv, OneEventEach, DataReliable, InTurn, DataInTurn, End, Other
<1>1. TypeOK' /\ HostSendsOps' /\ QueueInStep'
  BY <1>0, StepTyped, StepKeepsQueue DEF QueueInStep
<1>2. ASSUME NEW e \in End, Link!Receive(e) \/ Link!NextPoll(e) \/ Link!Submit(e)
      PROVE  Link!Next
  BY <1>2, SameTypes DEF Link!Next, Link!Step
<1>3. ASSUME NEW e \in End, Receive(e) PROVE InTurn' /\ [Link!Next]_(Link!vars)
  <2>1. Link!Receive(e)
    BY <1>0, <1>3, ReceiveIsLink, Ends
  <2>2. Link!Next
    BY <1>2, <2>1
  <2>3. LinkInv'
    BY <1>0, <2>2, LinkKeeps
  <2>4. e = "host" \/ e = "chip"
    BY DEF End
  <2> QED
    BY <1>0, <1>1, <1>3, <2>2, <2>3, <2>4, HostReceivesInTurn, ChipReceivesInTurn
<1>4. ASSUME OpenPoll \/ PollOn \/ Timeout PROVE InTurn' /\ [Link!Next]_(Link!vars)
  <2>1. /\ Continue
        /\ UNCHANGED <<sentOps, arrived, confirmed, chipVars, noise>>
        /\ phase' = phase \/ (phase = "opening" /\ phase' = "polling" /\ Received)
    BY <1>4 DEF OpenPoll, PollOn, Timeout
  <2>2. phase = "polling" /\ fetchNewCommand' => fetchNewCommand \/ Received \/ ~Held("host")
    <3>1. Sent("host") => ~Held("host")
      BY <1>0, WindowSays DEF LinkInv
    <3> QED
      BY <1>0, <1>4, <3>1 DEF OpenPoll, PollOn, Timeout, Fetch, Held
  <2>3. InTurn'
    BY <1>0, <2>1, <2>2, HostPollsOn
  <2>4. Link!NextPoll("host")
    <3>1. chipMayCall' = (chipMayCall \/ ("host" = "chip" /\ Sent("host")))
      BY <1>0, <2>1 DEF chipVars, TypeOK
    <3> QED
      BY <1>0, <2>1, <3>1, PollOnIsLink DEF Continue, chipVars
  <2> QED
    BY <1>0, <1>2, <2>3, <2>4
<1>5. ASSUME SendOp PROVE InTurn' /\ [Link!Next]_(Link!vars)
  <2>1. /\ InTurn'
        /\ MayCall["host"] \/ Sent("host")
        /\ NextOp = Len(sentOps) + 1 /\ NextOp <= MaxOps
        /\ Len(sentOps') = NextOp
    BY <1>0, <1>5, SendOpInTurn
  <2>2. PICK rest \in Abandoned("host") :
          TransmitStep("host", ubcsp_send_packet(Returned("host"), Reliable(NextOp)),
                       line["chip"] \o rest)
    BY <1>5 DEF SendOp
  <2>3. UNCHANGED <<arrived, confirmed, events, chipMayCall, noise>>
    BY <1>5 DEF SendOp, chipVars
  <2>4. Given("host") = sentOps /\ Given("host")' = sentOps' /\ Given("chip")' = Given("chip")
    BY <2>3 DEF Given
  <2>5. chipMayCall' = (chipMayCall /\ "host" # "chip")
    BY <1>0, <2>3 DEF TypeOK
  <2>6. NextOp <= MaxOps + 1
    BY <1>0, <2>1, MaxOpsAssumption DEF TypeOK
  <2>7. Link!Submit("host")
    BY <1>0, <2>1, <2>2, <2>3, <2>4, <2>5, <2>6, SubmitIsLink
  <2> QED
    BY <1>0, <1>2, <2>1, <2>7
<1>6. ASSUME ChipPoll PROVE InTurn' /\ [Link!Next]_(Link!vars)
  BY <1>0, <1>2, <1>6, ChipPollInTurn
<1>7. ASSUME QueueOp \/ UNCHANGED vars PROVE InTurn' /\ [Link!Next]_(Link!vars)
  <2>1. UNCHANGED <<config, poll, line, phase, fetchNewCommand, sentOps, arrived, confirmed,
                    events, chipQueue, chipMayCall, unsolicited, noise>>
    BY <1>7 DEF QueueOp, vars, hostVars, chipVars
  <2>2. \A e \in End : Coming(e)' = Coming(e) /\ Given(e)' = Given(e)
    BY <2>1 DEF Coming, Given
  <2>3. InTurn'
    BY <1>0, <2>1, <2>2
    DEF InTurn, HostInTurn, ChipInTurn, DataInTurn, AnswerInTurn, Received, ChipReceived, Owed,
        IsActive, Held, Sent
  <2>4. MayCall' = MayCall /\ Packets' = Packets /\ Submitted' = Submitted
    BY <2>1, <2>2 DEF MayCall, Packets, Submitted, IsActive, Held, Sent
  <2>5. Outstanding' = Outstanding
    BY <2>2, <2>4 DEF Outstanding
  <2>6. UNCHANGED Link!vars
    BY <2>1, <2>4, <2>5 DEF Link!vars
  <2> QED
    BY <2>3, <2>6
<1>8. ASSUME NEW e \in End, Noise(e) PROVE InTurn' /\ [Link!Next]_(Link!vars)
  BY <1>0, <1>8, NoiseInTurn, SameTypes DEF Link!Next
<1>9. InTurn' /\ [Link!Next]_(Link!vars)
  BY <1>3, <1>4, <1>5, <1>6, <1>7, <1>8 DEF Next
<1> QED
  BY <1>0, <1>1, <1>9, LinkKeeps DEF TurnInv

\* What makes the poll loop keep to the contract holds in every reachable state.
LEMMA TurnInvariant ==
  ASSUME OneEventEach
  PROVE  Spec => []TurnInv
<1>1. Init => TurnInv
  BY TurnStarts
<1>2. TurnInv /\ [Next]_vars => TurnInv'
  BY StepInTurn
<1> QED
  BY <1>1, <1>2, PTL DEF Spec

\* While an event is to come from the chip hci_do_poll fetches nothing, and when it
\* has come the operation before it is acknowledged and the engine is free: if the
\* loop gives up on an answer only then, and the chip sends one event per command
\* at most and one of its own.
THEOREM InTurnHolds ==
  ASSUME OneEventEach
  PROVE  Spec => []InTurn
<1>1. TurnInv => InTurn
  BY DEF TurnInv
<1> QED
  BY <1>1, TurnInvariant, PTL

\* Under the same premises the poll loop and the chip use the engine as its contract
\* has it: every behaviour of hci_do_poll is one of the link (BcspLink), whose
\* callers give a packet to ubcsp_send_packet only when none is held.
THEOREM PollKeepsContract ==
  ASSUME OneEventEach
  PROVE  Spec => Link!Spec
<1>1. Init => Link!Init
  BY LinkStarts
<1>2. TurnInv /\ [Next]_vars => [Link!Next]_(Link!vars)
  BY StepInTurn
<1> QED
  BY <1>1, <1>2, TurnInvariant, PTL DEF Spec, Link!Spec

\* A step of the poll loop is, for the operations, a step of the reliable channel.
LEMMA CommandStep ==
  ASSUME TurnInv, TurnInv', [Link!Next]_(Link!vars)
  PROVE  [Commands!Next]_(Commands!vars)
<1>0. "host" \in End /\ Other("host") = "chip" /\ [e \in End |-> MaxOps + 1]["host"] = MaxOps + 1
  BY DEF End, Other
<1>1. Submitted["host"] = sentOps /\ Submitted["host"]' = sentOps'
  <2>1. /\ sentOps \in Seq(Op) /\ \A i \in 1 .. Len(sentOps) : sentOps[i] = i
        /\ sentOps' \in Seq(Op) /\ \A i \in 1 .. Len(sentOps') : sentOps'[i] = i
    BY DEF TurnInv, TypeOK, QueueInStep
  <2>2. Given("host") = sentOps /\ Given("host")' = sentOps'
    BY DEF Given
  <2>3. /\ sentOps = [i \in 1 .. Len(sentOps) |-> i]
        /\ sentOps' = [i \in 1 .. Len(sentOps') |-> i]
    BY <2>1
  <2> QED
    BY <1>0, <2>2, <2>3 DEF Submitted
<1>2. ASSUME NEW m, sentOps' = Append(sentOps, m) PROVE m \in Op
  <2>1. sentOps \in Seq(Op) /\ sentOps' \in Seq(Op)
    BY DEF TurnInv, TypeOK
  <2>2. Len(sentOps') = Len(sentOps) + 1 /\ sentOps'[Len(sentOps) + 1] = m
    BY <1>2, <2>1
  <2> QED
    BY <2>1, <2>2
<1> DEFINE s == sentOps
           d == arrived["chip"]
           n == confirmed["host"]
<1>3. \/ s' = s /\ d' = d /\ n' = n
      \/ n = Len(s) /\ (\E m \in 1 .. MaxOps + 1 : s' = Append(s, m)) /\ d' = d /\ n' = n
      \/ Len(d) < Len(s) /\ d' = Append(d, s[Len(d) + 1]) /\ s' = s /\ n' = n
      \/ n < Len(d) /\ n' = n + 1 /\ s' = s /\ d' = d
  <2>1. Link!TypeOK /\ Link!Handshake /\ Link!WindowOfOne /\ "host" \in Link!End
        /\ Link!Other("host") = "chip"
    BY <1>0, SameTypes DEF TurnInv, LinkInv, Link!Other, Other
  <2> QED
    BY <1>0, <1>1, <2>1, Link!ChannelStep, LinkConstants, SeqModulusAssumption,
       PollDelayAssumption, LineMaxAssumption
<1> QED
  BY <1>2, <1>3
  DEF Commands!Next, Commands!vars, Commands!Submit, Commands!Deliver, Commands!Confirm

\* Under the same premises the operations the clients queue reach the chip once each
\* and in order, and the next is handed to the engine only when the last was
\* reported SENT: hci_do_poll, the queue and the two engines, whatever the delays.
THEOREM CommandsHold ==
  ASSUME OneEventEach
  PROVE  Spec => CommandsReliable
<1>1. Init => Commands!Init
  BY DEF Init, Commands!Init, End
<1>2. TurnInv /\ [Next]_vars => [Commands!Next]_(Commands!vars)
  BY StepInTurn, CommandStep
<1> QED
  BY <1>1, <1>2, TurnInvariant, PTL DEF Spec, CommandsReliable, Commands!Spec

=============================================================================
