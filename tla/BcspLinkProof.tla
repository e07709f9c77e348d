--------------------------- MODULE BcspLinkProof ---------------------------
(***************************************************************************)
(* Theorems about BcspLink, for every sequence modulus, delay, bound on    *)
(* the line, and number of packets and of noise.                           *)
(***************************************************************************)
EXTENDS BcspLink, UbcspProof

\* The first state is well typed, and every step leaves it so.
LEMMA LinkInitTyped == Init => TypeOK
<1> SUFFICES ASSUME Init PROVE TypeOK
  OBVIOUS
<1>1. FirstConfig \in Config /\ FirstPoll \in Poll
  BY FirstType
<1>2. <<>> \in Seq(Frame) /\ <<>> \in Seq(Nat) /\ NoPacket \in Packet
  BY FrameTypes
<1> QED
  BY <1>1, <1>2 DEF Init, TypeOK

LEMMA LinkStepTyped == TypeOK /\ [Next]_vars => TypeOK'
<1> SUFFICES ASSUME TypeOK, [Next]_vars PROVE TypeOK'
  OBVIOUS
<1>0. EngineType
  BY DEF TypeOK, EngineType
<1>1. ASSUME NEW e \in End, Receive(e) PROVE TypeOK'
  <2>1. EngineType'
    BY <1>0, <1>1, ReceiveType DEF Receive
  <2>2. poll'[e].packet.id \in Nat
    BY <2>1 DEF EngineType, Poll, Packet
  <2>3. confirmed' \in [End -> Nat]
    BY <1>1 DEF Receive, TypeOK
  <2>4. delivered' \in [End -> Seq(Nat)]
    BY <1>1, <2>2 DEF Receive, TypeOK
  <2> QED
    BY <1>1, <2>1, <2>3, <2>4 DEF Receive, callerVars, TypeOK, EngineType
<1>2. ASSUME NEW e \in End, NextPoll(e) PROVE TypeOK'
  <2>1. Returned(e) \in Config /\ line[Other(e)] \in Seq(Frame)
    BY <1>0, ReturnedType, Ends DEF EngineType
  <2>2. EngineType'
    BY <1>0, <1>2, <2>1, TransmitType DEF NextPoll
  <2>3. mayCall' \in [End -> BOOLEAN]
    BY <1>2 DEF NextPoll, TypeOK, Sent
  <2>4. outstanding' \in [End -> Packet]
    BY <1>2, FrameTypes DEF NextPoll, TypeOK
  <2> QED
    BY <1>2, <2>2, <2>3, <2>4 DEF NextPoll, TypeOK, EngineType
<1>3. ASSUME NEW e \in End, Submit(e) PROVE TypeOK'
  <2>1. PICK r \in Reliability[e], rest \in Abandoned(e) :
          LET p == [id |-> packets[e] + 1, reliable |-> r]
          IN  /\ TransmitStep(e, ubcsp_send_packet(Returned(e), p), line[Other(e)] \o rest)
              /\ outstanding' = [outstanding EXCEPT ![e] = p]
              /\ submitted' = [submitted EXCEPT ![e] = IF r THEN Append(@, p.id) ELSE @]
    BY <1>3 DEF Submit
  <2> DEFINE p == [id |-> packets[e] + 1, reliable |-> r]
  <2>2. p \in Packet /\ p.id \in Nat
    BY ReliabilityAssumption DEF TypeOK, Packet
  <2>3. ubcsp_send_packet(Returned(e), p) \in Config
    BY <1>0, <2>2, ReturnedType, SendType
  <2>4. line[Other(e)] \o rest \in Seq(Frame)
    BY <1>0, AbandonedType, Ends DEF EngineType
  <2>5. TransmitStep(e, ubcsp_send_packet(Returned(e), p), line[Other(e)] \o rest)
    BY <2>1
  <2>6. EngineType'
    <3> HIDE DEF p
    <3> QED
      BY <1>0, <2>3, <2>4, <2>5, TransmitType
  <2>7. outstanding' \in [End -> Packet]
    BY <2>1, <2>2 DEF TypeOK
  <2>8. submitted' \in [End -> Seq(Nat)]
    BY <2>1, <2>2 DEF TypeOK
  <2>9. mayCall' \in [End -> BOOLEAN] /\ packets' \in [End -> Nat]
    <3>1. /\ mayCall' = [mayCall EXCEPT ![e] = FALSE]
          /\ packets' = [packets EXCEPT ![e] = @ + 1]
      BY <1>3, Zenon DEF Submit
    <3>2. mayCall \in [End -> BOOLEAN] /\ packets \in [End -> Nat]
      BY DEF TypeOK
    <3>3. mayCall' \in [End -> BOOLEAN]
      BY <3>1, <3>2, Zenon
    <3>4. packets' \in [End -> Nat]
      BY <3>1, <3>2
    <3> QED
      BY <3>3, <3>4
  <2>10. /\ delivered' = delivered
         /\ confirmed' = confirmed
         /\ noise' = noise
    BY <1>3 DEF Submit
  <2> QED
    BY <2>6, <2>7, <2>8, <2>9, <2>10 DEF TypeOK, EngineType
<1>4. ASSUME NEW e \in End, Noise(e) PROVE TypeOK'
  <2>1. line[e] \in Seq(Frame) /\ line[e] # <<>> /\ BadFrame \in Frame
    BY <1>4, FrameTypes DEF Noise, TypeOK
  <2>2. Tail(line[e]) \in Seq(Frame) /\ <<BadFrame>> \o Tail(line[e]) \in Seq(Frame)
    BY <2>1
  <2>3. line' \in [End -> Seq(Frame)]
    BY <1>4, <2>2 DEF Noise, TypeOK
  <2>4. noise' \in [End -> Nat]
    BY <1>4 DEF Noise, TypeOK
  <2>5. UNCHANGED <<config, poll, outstanding, mayCall, packets, submitted,
                    delivered, confirmed>>
    BY <1>4 DEF Noise, callerVars
  <2> QED
    BY <2>3, <2>4, <2>5 DEF TypeOK
<1>5. CASE UNCHANGED vars
  BY <1>5 DEF vars, TypeOK
<1> QED
  BY <1>1, <1>2, <1>3, <1>4, <1>5 DEF Next, Step

\* Every reachable state is well typed.
THEOREM TypeCorrect == Spec => []TypeOK
BY LinkInitTyped, LinkStepTyped, PTL DEF Spec

-----------------------------------------------------------------------------
(* Link establishment: Handshake is inductive.                             *)

\* The transmit step from configuration c: nothing it decides contradicts the
\* state, and what it puts on the line is the frame that was being sent.
LEMMA TransmitAdvance ==
  ASSUME EngineType, NEW e \in End,
         NEW c \in Config, NEW w \in Seq(Frame),
         TransmitStep(e, c, w), LeSuitsState(c)
  PROVE  /\ config'[e].link_establishment_state = c.link_establishment_state
         /\ LeSuitsState(config'[e])
         /\ PastSync(c) => PastSync(config'[e])
         /\ config'[Other(e)] = config[Other(e)]
         /\ line'[e] = line[e]
         /\ line'[Other(e)] = w \/ line'[Other(e)] = Append(w, c.sending)
<1>1. \A d, t, x, a : EnterReceive(e, d, t, x, a)
        => /\ config'[e] = d
           /\ config'[Other(e)] = config[Other(e)]
           /\ line'[e] = line[e]
           /\ line'[Other(e)] = t
  BY Ends DEF EnterReceive, EngineType
<1>2. CASE SendDelayed(e, c, w)
  BY <1>1, <1>2 DEF SendDelayed
<1>3. CASE SendOctet(e, c, w)
  BY <1>1, <1>3 DEF SendOctet
<1>4. CASE SendLast(e, c, w)
  <2> DEFINE q == IF SentUnreliable(c) THEN NoPacket ELSE c.send_packet
             d == [c EXCEPT !.sending = NoFrame, !.send_packet = q]
  <2>1. /\ config'[e] = d
        /\ config'[Other(e)] = config[Other(e)]
        /\ line'[e] = line[e]
        /\ line'[Other(e)] = Append(w, c.sending)
    BY <1>1, <1>4 DEF SendLast
  <2>2. /\ d.link_establishment_state = c.link_establishment_state
        /\ d.link_establishment_resp = c.link_establishment_resp
        /\ d.link_establishment_packet = c.link_establishment_packet
        /\ d.sending.kind = "none"
    BY DEF Config, NoFrame, LeFrame
  <2> HIDE DEF d
  <2> QED
    BY <2>1, <2>2 DEF LeSuitsState, PastSync
<1>5. CASE StartLe(e, c, w)
  <2>1. /\ config'[e] = Established(c)
        /\ config'[Other(e)] = config[Other(e)]
        /\ line'[e] = line[e]
        /\ line'[Other(e)] = w
        /\ c.link_establishment_packet # "none"
    BY <1>1, <1>5 DEF StartLe
  <2>2. /\ config'[e].link_establishment_state = c.link_establishment_state
        /\ config'[e].link_establishment_resp = 0
        /\ config'[e].link_establishment_packet = NextLePacket(c)
        /\ config'[e].sending.kind = c.link_establishment_packet
    BY <2>1 DEF Established, Config, LeFrame
  <2>3. c.link_establishment_state \in {0, 1, 2}
    BY DEF Config, uninitialized, initialized, active
  <2>4. PastSync(c) => PastSync(config'[e])
    BY <2>2, <2>3, NextLeType DEF PastSync, uninitialized, initialized
  <2>5. LeSuitsState(config'[e])
    BY <2>2, <2>3, NextLeType
    DEF LeSuitsState, PastSync, uninitialized, initialized, active
  <2> QED
    BY <2>1, <2>2, <2>4, <2>5
<1>6. CASE StartConfResp(e, c, w)
  <2> DEFINE d == [c EXCEPT !.sending = LeFrame("conf_resp"), !.link_establishment_resp = 0]
  <2>1. /\ config'[e] = d
        /\ config'[Other(e)] = config[Other(e)]
        /\ line'[e] = line[e]
        /\ line'[Other(e)] = w
    BY <1>1, <1>6 DEF StartConfResp
  <2>2. /\ d.link_establishment_state = c.link_establishment_state
        /\ d.link_establishment_resp = 0
        /\ d.link_establishment_packet = c.link_establishment_packet
        /\ d.sending.kind = "conf_resp"
    BY DEF Config, LeFrame
  <2>3. c.link_establishment_packet = "none" /\ c.link_establishment_resp = 2
    BY <1>6 DEF StartConfResp, Ready
  <2> HIDE DEF d
  <2> QED
    BY <2>1, <2>2, <2>3 DEF LeSuitsState, PastSync
<1>7. CASE StartData(e, c, w)
  <2> DEFINE d == [c EXCEPT !.sending = DataFrame(c), !.send_ack = FALSE]
  <2>1. /\ config'[e] = d
        /\ config'[Other(e)] = config[Other(e)]
        /\ line'[e] = line[e]
        /\ line'[Other(e)] = w
    BY <1>1, <1>7 DEF StartData
  <2>2. /\ d.link_establishment_state = c.link_establishment_state
        /\ d.link_establishment_resp = c.link_establishment_resp
        /\ d.link_establishment_packet = c.link_establishment_packet
        /\ d.sending.kind = "data"
    BY DEF Config, DataFrame
  <2> HIDE DEF d
  <2> QED
    BY <2>1, <2>2 DEF LeSuitsState, PastSync
<1>8. CASE StartAck(e, c, w)
  <2> DEFINE d == [c EXCEPT !.sending = AckFrame(c), !.send_ack = FALSE]
  <2>1. /\ config'[e] = d
        /\ config'[Other(e)] = config[Other(e)]
        /\ line'[e] = line[e]
        /\ line'[Other(e)] = w
    BY <1>1, <1>8 DEF StartAck
  <2>2. /\ d.link_establishment_state = c.link_establishment_state
        /\ d.link_establishment_resp = c.link_establishment_resp
        /\ d.link_establishment_packet = c.link_establishment_packet
        /\ d.sending.kind = "ack"
    BY DEF Config, AckFrame
  <2> HIDE DEF d
  <2> QED
    BY <2>1, <2>2 DEF LeSuitsState, PastSync
<1>9. CASE SendNothing(e, c, w)
  BY <1>1, <1>9 DEF SendNothing
<1> QED
  BY <1>2, <1>3, <1>4, <1>5, <1>6, <1>7, <1>8, <1>9 DEF TransmitStep

\* Taking a frame, when no SYNC can meet an active end: nothing the engine
\* then decides contradicts its state, it does not fall back, and only a CONF
\* RESP makes it active.
LEMMA ReceiveAdvance ==
  ASSUME EngineType, NEW e \in End, ReceiveStep(e), LeSuitsState(config[e]),
         config[e].link_establishment_state = active => ~Carries(line[e], "sync")
  PROVE  /\ line[e] # <<>>
         /\ LeSuitsState(config'[e])
         /\ PastSync(config[e]) => PastSync(config'[e])
         /\ config'[e].link_establishment_state = active
              => \/ config[e].link_establishment_state = active
                 \/ Head(line[e]).kind = "conf_resp"
         /\ config'[Other(e)] = config[Other(e)]
         /\ line'[e] = Tail(line[e])
         /\ \/ line'[Other(e)] = line[Other(e)]
            \/ line'[Other(e)] = line[Other(e)] \o <<BadFrame>>
<1> DEFINE f == Head(line[e])
           c == AfterAck(config[e], f)
<1>0. \E kinds : Receiving(e, kinds)
  BY DEF ReceiveStep, ReceiveBad, ReceiveSync, ReceivePeerReset, ReceiveSyncResp,
         ReceiveConf, ReceiveConfResp, ReceiveAck, ReceiveDuplicate, ReceivePacket
<1>1. /\ config[e] \in Config
      /\ c \in Config
      /\ f = line[e][1]
      /\ line[e] # <<>>
      /\ 1 \in 1 .. Len(line[e])
  BY <1>0, ReceivingType DEF EngineType, Receiving
<1>2. /\ config[e] \in Config
      /\ c \in Config
      /\ line[e] # <<>>
      /\ config[e].link_establishment_state \in {0, 1, 2}
      /\ c.link_establishment_state = config[e].link_establishment_state
      /\ c.link_establishment_resp = config[e].link_establishment_resp
      /\ c.link_establishment_packet = config[e].link_establishment_packet
      /\ c.sending = config[e].sending
  BY <1>1 DEF AfterAck, Config, uninitialized, initialized, active
<1> HIDE DEF f, c
<1>3. CASE ReceiveBad(e)
  <2> DEFINE d == [config[e] EXCEPT !.send_ack = TRUE]
  <2>1. config' = [config EXCEPT ![e] = d] /\ line' = [line EXCEPT ![e] = Tail(@)]
    BY <1>3 DEF ReceiveBad, Take, f, c
  <2>2. /\ d.link_establishment_state = config[e].link_establishment_state
        /\ d.link_establishment_resp = config[e].link_establishment_resp
        /\ d.link_establishment_packet = config[e].link_establishment_packet
        /\ d.sending = config[e].sending
    BY <1>2 DEF Config
  <2> HIDE DEF d
  <2>3. /\ config'[e] = d
        /\ config'[Other(e)] = config[Other(e)]
        /\ line'[e] = Tail(line[e])
        /\ line'[Other(e)] = line[Other(e)]
    BY <2>1, Ends DEF EngineType
  <2> QED
    BY <1>2, <2>2, <2>3 DEF LeSuitsState, PastSync, uninitialized, initialized, active
<1>4. CASE ReceiveSync(e)
  <2> DEFINE d == [c EXCEPT !.delay = 0, !.link_establishment_resp = 1]
  <2>1. config' = [config EXCEPT ![e] = d] /\ line' = [line EXCEPT ![e] = Tail(@)]
    BY <1>4 DEF ReceiveSync, Take, f, c
  <2>2. /\ d.link_establishment_state = config[e].link_establishment_state
        /\ d.link_establishment_resp = 1
        /\ d.link_establishment_packet = config[e].link_establishment_packet
        /\ d.sending = config[e].sending
    BY <1>2 DEF Config
  <2> HIDE DEF d
  <2>3. /\ config'[e] = d
        /\ config'[Other(e)] = config[Other(e)]
        /\ line'[e] = Tail(line[e])
        /\ line'[Other(e)] = line[Other(e)]
    BY <2>1, Ends DEF EngineType
  <2> QED
    BY <1>2, <2>2, <2>3 DEF LeSuitsState, PastSync, uninitialized, initialized, active
<1>5. CASE ReceivePeerReset(e)
  <2>1. f.kind = "sync" /\ config[e].link_establishment_state = active
    BY <1>5 DEF ReceivePeerReset, Receiving, f
  <2> QED
    BY <1>1, <2>1 DEF Carries
<1>6. CASE ReceiveSyncResp(e)
  <2> DEFINE d == [c EXCEPT !.delay = 0,
                            !.link_establishment_state =
                              IF @ < initialized THEN initialized ELSE @]
  <2>1. config' = [config EXCEPT ![e] = d] /\ line' = [line EXCEPT ![e] = Tail(@)]
    BY <1>6 DEF ReceiveSyncResp, Take, f, c
  <2>2. /\ d.link_establishment_state = IF config[e].link_establishment_state < initialized
                                         THEN initialized ELSE config[e].link_establishment_state
        /\ d.link_establishment_resp = config[e].link_establishment_resp
        /\ d.link_establishment_packet = config[e].link_establishment_packet
        /\ d.sending = config[e].sending
    BY <1>2 DEF Config
  <2> HIDE DEF d
  <2>3. /\ config'[e] = d
        /\ config'[Other(e)] = config[Other(e)]
        /\ line'[e] = Tail(line[e])
        /\ line'[Other(e)] = line[Other(e)]
    BY <2>1, Ends DEF EngineType
  <2> QED
    BY <1>2, <2>2, <2>3 DEF LeSuitsState, PastSync, uninitialized, initialized, active
<1>7. CASE ReceiveConf(e)
  <2> DEFINE d == [c EXCEPT !.delay = 0,
                            !.link_establishment_resp =
                              IF c.link_establishment_state >= initialized THEN 2 ELSE @]
  <2>1. config' = [config EXCEPT ![e] = d] /\ line' = [line EXCEPT ![e] = Tail(@)]
    BY <1>7 DEF ReceiveConf, Take, f, c
  <2>2. /\ d.link_establishment_state = config[e].link_establishment_state
        /\ d.link_establishment_resp = IF config[e].link_establishment_state >= initialized
                                        THEN 2 ELSE config[e].link_establishment_resp
        /\ d.link_establishment_packet = config[e].link_establishment_packet
        /\ d.sending = config[e].sending
    BY <1>2 DEF Config
  <2> HIDE DEF d
  <2>3. /\ config'[e] = d
        /\ config'[Other(e)] = config[Other(e)]
        /\ line'[e] = Tail(line[e])
        /\ line'[Other(e)] = line[Other(e)]
    BY <2>1, Ends DEF EngineType
  <2> QED
    BY <1>2, <2>2, <2>3 DEF LeSuitsState, PastSync, uninitialized, initialized, active
<1>8. CASE ReceiveConfResp(e)
  <2> DEFINE d == [c EXCEPT !.delay = 0]
             g == [d EXCEPT !.link_establishment_state = active, !.sending = NoFrame]
  <2>1. f.kind = "conf_resp"
    BY <1>8 DEF ReceiveConfResp, Receiving, f
  <2>2. /\ d.link_establishment_state = config[e].link_establishment_state
        /\ d.link_establishment_resp = config[e].link_establishment_resp
        /\ d.link_establishment_packet = config[e].link_establishment_packet
        /\ d.sending = config[e].sending
        /\ g.link_establishment_state = active
        /\ g.link_establishment_resp = config[e].link_establishment_resp
        /\ g.link_establishment_packet = config[e].link_establishment_packet
        /\ g.sending.kind = "none"
    BY <1>2 DEF Config, NoFrame, LeFrame
  <2>3. \/ /\ config' = [config EXCEPT ![e] = g]
           /\ \E rest \in Abandoned(e) :
                line' = [line EXCEPT ![e] = Tail(@), ![Other(e)] = @ \o rest]
        \/ config' = [config EXCEPT ![e] = d] /\ line' = [line EXCEPT ![e] = Tail(@)]
    BY <1>8 DEF ReceiveConfResp, Take, f, c
  <2> HIDE DEF d, g
  <2>4. /\ config'[e] = g \/ config'[e] = d
        /\ config'[Other(e)] = config[Other(e)]
    BY <2>3, Ends DEF EngineType
  <2>5. /\ line'[e] = Tail(line[e])
        /\ \/ line'[Other(e)] = line[Other(e)]
           \/ line'[Other(e)] = line[Other(e)] \o <<BadFrame>>
    <3>1. CASE \E rest \in Abandoned(e) :
                 line' = [line EXCEPT ![e] = Tail(@), ![Other(e)] = @ \o rest]
      <4>1. PICK rest \in Abandoned(e) :
                 line' = [line EXCEPT ![e] = Tail(@), ![Other(e)] = @ \o rest]
        BY <3>1
      <4>2. rest = <<>> \/ rest = <<BadFrame>>
        BY AbandonedType
      <4>3. /\ line'[e] = Tail(line[e])
            /\ line'[Other(e)] = line[Other(e)] \o rest
        BY <4>1, Ends DEF EngineType
      <4>4. line[Other(e)] \o <<>> = line[Other(e)]
        BY Ends DEF EngineType
      <4> QED
        BY <4>2, <4>3, <4>4
    <3>2. CASE line' = [line EXCEPT ![e] = Tail(@)]
      BY <3>2, Ends DEF EngineType
    <3> QED
      BY <2>3, <3>1, <3>2
  <2>6. LeSuitsState(config'[e]) /\ (PastSync(config[e]) => PastSync(config'[e]))
    BY <1>2, <2>2, <2>4 DEF LeSuitsState, PastSync, uninitialized, initialized, active
  <2> QED
    BY <1>2, <2>1, <2>4, <2>5, <2>6 DEF f
<1>9. CASE ReceiveAck(e)
  <2> DEFINE d == c
  <2>1. config' = [config EXCEPT ![e] = d] /\ line' = [line EXCEPT ![e] = Tail(@)]
    BY <1>9 DEF ReceiveAck, Take, f, c
  <2>2. /\ d.link_establishment_state = config[e].link_establishment_state
        /\ d.link_establishment_resp = config[e].link_establishment_resp
        /\ d.link_establishment_packet = config[e].link_establishment_packet
        /\ d.sending = config[e].sending
    BY <1>2 DEF Config
  <2> HIDE DEF d
  <2>3. /\ config'[e] = d
        /\ config'[Other(e)] = config[Other(e)]
        /\ line'[e] = Tail(line[e])
        /\ line'[Other(e)] = line[Other(e)]
    BY <2>1, Ends DEF EngineType
  <2> QED
    BY <1>2, <2>2, <2>3 DEF LeSuitsState, PastSync, uninitialized, initialized, active
<1>10. CASE ReceiveDuplicate(e)
  <2> DEFINE d == [c EXCEPT !.send_ack = TRUE]
  <2>1. config' = [config EXCEPT ![e] = d] /\ line' = [line EXCEPT ![e] = Tail(@)]
    BY <1>10 DEF ReceiveDuplicate, Take, f, c
  <2>2. /\ d.link_establishment_state = config[e].link_establishment_state
        /\ d.link_establishment_resp = config[e].link_establishment_resp
        /\ d.link_establishment_packet = config[e].link_establishment_packet
        /\ d.sending = config[e].sending
    BY <1>2 DEF Config
  <2> HIDE DEF d
  <2>3. /\ config'[e] = d
        /\ config'[Other(e)] = config[Other(e)]
        /\ line'[e] = Tail(line[e])
        /\ line'[Other(e)] = line[Other(e)]
    BY <2>1, Ends DEF EngineType
  <2> QED
    BY <1>2, <2>2, <2>3 DEF LeSuitsState, PastSync, uninitialized, initialized, active
<1>11. CASE ReceivePacket(e)
  <2> DEFINE d == [c EXCEPT !.receive_packet = FALSE]
             g == [d EXCEPT !.send_ack = TRUE,
                            !.ack_number = (@ + 1) % SeqModulus,
                            !.delay = 0]
  <2>1. /\ config' = [config EXCEPT ![e] = g] \/ config' = [config EXCEPT ![e] = d]
        /\ line' = [line EXCEPT ![e] = Tail(@)]
    BY <1>11 DEF ReceivePacket, f, c
  <2>2. \A x \in {d, g} :
          /\ x.link_establishment_state = config[e].link_establishment_state
          /\ x.link_establishment_resp = config[e].link_establishment_resp
          /\ x.link_establishment_packet = config[e].link_establishment_packet
          /\ x.sending = config[e].sending
    BY <1>2 DEF Config
  <2> HIDE DEF d, g
  <2>3. /\ config'[e] \in {d, g}
        /\ config'[Other(e)] = config[Other(e)]
        /\ line'[e] = Tail(line[e])
        /\ line'[Other(e)] = line[Other(e)]
    BY <2>1, Ends DEF EngineType
  <2> QED
    BY <1>2, <2>2, <2>3 DEF LeSuitsState, PastSync
<1> QED
  BY <1>3, <1>4, <1>5, <1>6, <1>7, <1>8, <1>9, <1>10, <1>11 DEF ReceiveStep

\* Taking the head of a line adds no frame and puts no SYNC behind a CONF RESP.
LEMMA TailKeeps ==
  ASSUME NEW l \in Seq(Frame), l # <<>>
  PROVE  /\ \A k : Carries(Tail(l), k) => Carries(l, k)
         /\ SyncsFirst(l) => SyncsFirst(Tail(l))
<1>1. /\ Len(l) \in Nat \ {0}
      /\ Len(Tail(l)) = Len(l) - 1
      /\ \A i \in 1 .. Len(l) - 1 : Tail(l)[i] = l[i + 1] /\ i + 1 \in 1 .. Len(l)
  OBVIOUS
<1>2. ASSUME NEW k, Carries(Tail(l), k) PROVE Carries(l, k)
  <2>1. PICK i \in 1 .. Len(l) - 1 : Tail(l)[i].kind = k
    BY <1>1, <1>2 DEF Carries
  <2>2. i + 1 \in 1 .. Len(l) /\ l[i + 1].kind = k
    BY <1>1, <2>1
  <2> QED
    BY <2>2 DEF Carries
<1>3. ASSUME SyncsFirst(l) PROVE SyncsFirst(Tail(l))
  <2> SUFFICES ASSUME NEW i \in 1 .. Len(l) - 1, NEW j \in 1 .. Len(l) - 1,
                      Tail(l)[i].kind = "conf_resp", i < j
               PROVE  Tail(l)[j].kind # "sync"
    BY <1>1 DEF SyncsFirst
  <2>1. /\ i + 1 \in 1 .. Len(l) /\ j + 1 \in 1 .. Len(l) /\ i + 1 < j + 1
        /\ l[i + 1].kind = "conf_resp"
        /\ Tail(l)[j] = l[j + 1]
    BY <1>1
  <2> QED
    BY <1>3, <2>1 DEF SyncsFirst
<1> QED
  BY <1>2, <1>3

\* A step of e that does not fall back keeps Handshake, when what it adds to
\* the line is a SYNC only before its CONF RESPs.
LEMMA HandshakeStep ==
  ASSUME EngineType, EngineType', Handshake, NEW e \in End,
         LeSuitsState(config'[e]),
         PastSync(config[e]) => PastSync(config'[e]),
         config'[Other(e)] = config[Other(e)],
         line'[e] = line[e] \/ (line[e] # <<>> /\ line'[e] = Tail(line[e])),
         config'[e].link_establishment_state = active
           => \/ config[e].link_establishment_state = active
              \/ /\ line[e] # <<>>
                 /\ line'[e] = Tail(line[e])
                 /\ Head(line[e]).kind = "conf_resp",
         NEW s \in Seq(Frame), line'[Other(e)] = line[Other(e)] \o s,
         SyncsFirst(s),
         Carries(s, "conf_resp") => PastSync(config[e]),
         Carries(s, "sync") => ~PastSync(config[e])
  PROVE  Handshake'
<1> DEFINE o == Other(e)
           l == line[e]
           m == line[o]
<1>0. /\ o \in End /\ o # e /\ Other(o) = e
      /\ \A x \in End : x = e \/ x = o
      /\ l \in Seq(Frame) /\ m \in Seq(Frame)
  BY Ends DEF EngineType
<1>1. /\ LeSuitsState(config[e]) /\ LeSuitsState(config[o])
      /\ SyncsFirst(l) /\ SyncsFirst(m)
      /\ Carries(l, "conf_resp") => PastSync(config[o])
      /\ Carries(m, "conf_resp") => PastSync(config[e])
      /\ config[e].link_establishment_state = active
           => PastSync(config[o]) /\ ~Carries(l, "sync")
      /\ config[o].link_establishment_state = active
           => PastSync(config[e]) /\ ~Carries(m, "sync")
  BY <1>0 DEF Handshake
<1>2. \/ line'[e] = l
      \/ l # <<>> /\ line'[e] = Tail(l)
  OBVIOUS
<1> HIDE DEF o, l, m
<1>3. l # <<>> => /\ Len(l) \in Nat \ {0}
                  /\ Len(Tail(l)) = Len(l) - 1
                  /\ \A i \in 1 .. Len(Tail(l)) : Tail(l)[i] = l[i + 1]
                  /\ Head(l) = l[1]
  BY <1>0
<1>4. SyncsFirst(line'[e])
  BY <1>0, <1>1, <1>2, TailKeeps
<1>5. \A k : Carries(line'[e], k) => Carries(l, k)
  BY <1>0, <1>2, TailKeeps
<1>6. config'[e].link_establishment_state = active
        => PastSync(config'[o]) /\ ~Carries(line'[e], "sync")
  <2>1. CASE config[e].link_establishment_state = active
    BY <1>1, <1>5, <2>1 DEF o
  <2>2. CASE l # <<>> /\ line'[e] = Tail(l) /\ Head(l).kind = "conf_resp"
    <3>1. Carries(l, "conf_resp")
      BY <1>3, <2>2 DEF Carries
    <3>2. ~Carries(Tail(l), "sync")
      BY <1>1, <1>3, <2>2 DEF Carries, SyncsFirst
    <3> QED
      BY <1>1, <2>2, <3>1, <3>2 DEF o
  <2> QED
    BY <2>1, <2>2 DEF l
<1>7. Carries(line'[e], "conf_resp") => PastSync(config'[o])
  BY <1>1, <1>5 DEF o
<1>8. /\ line'[o] = m \o s
      /\ Len(m \o s) = Len(m) + Len(s)
      /\ Len(m) \in Nat /\ Len(s) \in Nat
      /\ \A i \in 1 .. Len(m) + Len(s) :
           (m \o s)[i] = IF i <= Len(m) THEN m[i] ELSE s[i - Len(m)]
  BY <1>0 DEF o, m
<1>9. \A k : Carries(m \o s, k) => Carries(m, k) \/ Carries(s, k)
  <2> SUFFICES ASSUME NEW k, Carries(m \o s, k)
               PROVE  Carries(m, k) \/ Carries(s, k)
    OBVIOUS
  <2>1. PICK i \in 1 .. Len(m) + Len(s) : (m \o s)[i].kind = k
    BY <1>8 DEF Carries
  <2>2. CASE i <= Len(m)
    BY <1>8, <2>1, <2>2 DEF Carries
  <2>3. CASE i > Len(m)
    <3>1. i - Len(m) \in 1 .. Len(s) /\ s[i - Len(m)].kind = k
      BY <1>8, <2>1, <2>3
    <3> QED
      BY <3>1 DEF Carries
  <2> QED
    BY <1>8, <2>2, <2>3
<1>10. SyncsFirst(m \o s)
  <2> SUFFICES ASSUME NEW i \in 1 .. Len(m) + Len(s), NEW j \in 1 .. Len(m) + Len(s),
                      (m \o s)[i].kind = "conf_resp", i < j, (m \o s)[j].kind = "sync"
               PROVE  FALSE
    BY <1>8 DEF SyncsFirst
  <2>1. CASE j <= Len(m)
    BY <1>1, <1>8, <2>1 DEF SyncsFirst
  <2>2. CASE j > Len(m)
    <3>1. j - Len(m) \in 1 .. Len(s) /\ s[j - Len(m)].kind = "sync"
      BY <1>8, <2>2
    <3>2. Carries(s, "sync")
      BY <3>1 DEF Carries
    <3>3. CASE i <= Len(m)
      <4>1. Carries(m, "conf_resp")
        BY <1>8, <3>3 DEF Carries
      <4> QED
        BY <1>1, <3>2, <4>1
    <3>4. CASE i > Len(m)
      <4> DEFINE a == i - Len(m)
                 b == j - Len(m)
      <4>1. a \in 1 .. Len(s) /\ s[a].kind = "conf_resp" /\ a < b
        BY <1>8, <2>2, <3>4
      <4>2. b \in 1 .. Len(s) /\ s[b].kind = "sync"
        BY <3>1
      <4>3. SyncsFirst(s)
        BY <1>8
      <4> HIDE DEF a, b
      <4> QED
        BY <4>1, <4>2, <4>3 DEF SyncsFirst
    <3> QED
      BY <1>8, <3>3, <3>4
  <2> QED
    BY <1>8, <2>1, <2>2
<1>11. Carries(line'[o], "conf_resp") => PastSync(config'[e])
  BY <1>1, <1>8, <1>9
<1>12. config'[o].link_establishment_state = active
         => PastSync(config'[e]) /\ ~Carries(line'[o], "sync")
  BY <1>1, <1>8, <1>9 DEF o
<1>13. LeSuitsState(config'[o]) /\ SyncsFirst(line'[o])
  BY <1>1, <1>8, <1>10 DEF o
<1> QED
  BY <1>0, <1>4, <1>6, <1>7, <1>11, <1>12, <1>13 DEF Handshake, o

\* Losing or damaging a frame keeps Handshake: it only takes messages away.
LEMMA NoiseKeepsHandshake ==
  ASSUME TypeOK, Handshake, NEW e \in End, Noise(e)
  PROVE  Handshake'
<1> DEFINE l == line[e]
<1>1. /\ config' = config
      /\ l \in Seq(Frame) /\ l # <<>>
      /\ \A x \in End \ {e} : line'[x] = line[x]
      /\ line'[e] = Tail(l) \/ line'[e] = <<BadFrame>> \o Tail(l)
  BY DEF Noise, TypeOK
<1>2. /\ Len(l) \in Nat \ {0}
      /\ Len(Tail(l)) = Len(l) - 1
      /\ \A i \in 1 .. Len(l) - 1 : Tail(l)[i] = l[i + 1]
  BY <1>1
<1>3. /\ Len(<<BadFrame>> \o Tail(l)) = Len(l)
      /\ (<<BadFrame>> \o Tail(l))[1] = BadFrame
      /\ \A i \in 2 .. Len(l) : (<<BadFrame>> \o Tail(l))[i] = l[i]
      /\ BadFrame.kind = "bad"
  <2>1. Tail(l) \in Seq(Frame) /\ <<BadFrame>> \in Seq(Frame)
    BY <1>1, FrameTypes
  <2>2. Len(<<BadFrame>>) = 1 /\ <<BadFrame>>[1] = BadFrame
    OBVIOUS
  <2>3. \A i \in 1 .. 1 + Len(Tail(l)) :
          (<<BadFrame>> \o Tail(l))[i] = IF i <= 1 THEN BadFrame ELSE Tail(l)[i - 1]
    BY <2>1, <2>2
  <2>4. Len(<<BadFrame>> \o Tail(l)) = 1 + Len(Tail(l))
    BY <2>1, <2>2
  <2>5. BadFrame.kind = "bad"
    BY DEF BadFrame, LeFrame
  <2> HIDE DEF l
  <2> QED
    BY <1>2, <2>3, <2>4, <2>5
<1> HIDE DEF l
<1>4. \A k \in {"sync", "conf_resp"} : Carries(line'[e], k) => Carries(l, k)
  <2>1. CASE line'[e] = Tail(l)
    BY <1>1, <2>1, TailKeeps
  <2>2. CASE line'[e] = <<BadFrame>> \o Tail(l)
    <3>1. Len(line'[e]) = Len(l)
      BY <1>3, <2>2
    <3>2. \A i \in 1 .. Len(l) : line'[e][i].kind \in {"sync", "conf_resp"}
                                   => line'[e][i] = l[i]
      BY <1>2, <1>3, <2>2
    <3> QED
      BY <3>1, <3>2 DEF Carries
  <2> QED
    BY <1>1, <2>1, <2>2
<1>5. SyncsFirst(l) => SyncsFirst(line'[e])
  <2>1. CASE line'[e] = Tail(l)
    BY <1>1, <2>1, TailKeeps
  <2>2. CASE line'[e] = <<BadFrame>> \o Tail(l)
    <3>1. \A i \in 1 .. Len(l) : line'[e][i].kind \in {"sync", "conf_resp"}
                                   => line'[e][i] = l[i]
      BY <1>2, <1>3, <2>2
    <3>2. Len(line'[e]) = Len(l)
      BY <1>3, <2>2
    <3> QED
      BY <3>1, <3>2 DEF SyncsFirst
  <2> QED
    BY <1>1, <2>1, <2>2
<1> QED
  BY <1>1, <1>4, <1>5 DEF Handshake, l

\* A frame appended behind a concatenation, regrouped.
LEMMA AppendToConcat ==
  ASSUME NEW m \in Seq(Frame), NEW r \in Seq(Frame), NEW x \in Frame
  PROVE  Append(r, x) \in Seq(Frame) /\ Append(m \o r, x) = m \o Append(r, x)
<1>1. m \o r \in Seq(Frame) /\ <<x>> \in Seq(Frame) /\ Append(r, x) \in Seq(Frame)
  OBVIOUS
<1>2. Append(r, x) = r \o <<x>> /\ Append(m \o r, x) = (m \o r) \o <<x>>
  BY <1>1, AppendIsConcat
<1>3. (m \o r) \o <<x>> = m \o (r \o <<x>>)
  BY <1>1, ConcatAssociative
<1> QED
  BY <1>1, <1>2, <1>3

\* A transmit step keeps Handshake, from the configuration c and the rest r of
\* a dropped frame that the caller leaves.
LEMMA TransmitKeepsHandshake ==
  ASSUME EngineType, Handshake, NEW e \in End,
         NEW c \in Config,
         c.link_establishment_state = config[e].link_establishment_state,
         c.link_establishment_resp = config[e].link_establishment_resp,
         c.link_establishment_packet = config[e].link_establishment_packet,
         c.sending = config[e].sending \/ c.sending.kind = "none",
         NEW r \in {<<>>, <<BadFrame>>},
         TransmitStep(e, c, line[Other(e)] \o r)
  PROVE  Handshake'
<1> DEFINE m == line[Other(e)]
<1>1. /\ m \in Seq(Frame) /\ r \in Seq(Frame) /\ m \o r \in Seq(Frame)
      /\ c.sending \in Frame /\ config[e] \in Config
      /\ r = <<>> \/ r = <<BadFrame>>
  <2>1. <<>> \in Seq(Frame) /\ <<BadFrame>> \in Seq(Frame)
    BY FrameTypes
  <2>2. m \in Seq(Frame) /\ config[e] \in Config
    BY Ends DEF EngineType
  <2>3. c.sending \in Frame
    BY DEF Config
  <2>4. r \in Seq(Frame) /\ (r = <<>> \/ r = <<BadFrame>>)
    BY <2>1
  <2> HIDE DEF m
  <2>5. m \o r \in Seq(Frame)
    BY <2>2, <2>4
  <2> QED
    BY <2>2, <2>3, <2>4, <2>5
<1>2. LeSuitsState(config[e]) /\ LeSuitsState(c) /\ (PastSync(config[e]) => PastSync(c))
  BY <1>1 DEF Handshake, LeSuitsState, PastSync
<1>3. EngineType'
  BY <1>1, TransmitType
<1>4. /\ config'[e].link_establishment_state = c.link_establishment_state
      /\ LeSuitsState(config'[e])
      /\ PastSync(c) => PastSync(config'[e])
      /\ config'[Other(e)] = config[Other(e)]
      /\ line'[e] = line[e]
      /\ line'[Other(e)] = m \o r \/ line'[Other(e)] = Append(m \o r, c.sending)
  BY <1>1, <1>2, TransmitAdvance
<1>5. c.sending.kind = "conf_resp" => PastSync(config[e])
  BY <1>2 DEF LeSuitsState
<1>6. c.sending.kind = "sync" => ~PastSync(config[e])
  BY DEF PastSync
<1>7. BadFrame.kind = "bad"
  BY DEF BadFrame, LeFrame
<1>8. CASE line'[Other(e)] = m \o r
  <2>1. /\ SyncsFirst(r) /\ ~Carries(r, "conf_resp") /\ ~Carries(r, "sync")
    BY <1>1, <1>7 DEF SyncsFirst, Carries
  <2> QED
    BY <1>1, <1>2, <1>3, <1>4, <1>8, <2>1, HandshakeStep
<1>9. CASE line'[Other(e)] = Append(m \o r, c.sending)
  <2> DEFINE s == Append(r, c.sending)
  <2>1. s \in Seq(Frame) /\ Append(m \o r, c.sending) = m \o s
    BY <1>1, AppendToConcat
  <2>2. \/ /\ Len(s) = 1
           /\ s[1] = c.sending
        \/ /\ Len(s) = 2
           /\ s[1].kind = "bad"
           /\ s[2] = c.sending
    <3>1. CASE r = <<>>
      BY <3>1
    <3>2. CASE r = <<BadFrame>>
      BY <1>7, <3>2
    <3> QED
      BY <1>1, <3>1, <3>2
  <2> HIDE DEF s
  <2>3. SyncsFirst(s)
    BY <2>2 DEF SyncsFirst
  <2>4. \A k \in {"sync", "conf_resp"} : Carries(s, k) => c.sending.kind = k
    <3>1. CASE Len(s) = 1 /\ s[1] = c.sending
      BY <3>1 DEF Carries
    <3>2. CASE Len(s) = 2 /\ s[1].kind = "bad" /\ s[2] = c.sending
      <4>1. \A i \in 1 .. Len(s) : i = 1 \/ i = 2
        BY <3>2
      <4> QED
        BY <3>2, <4>1 DEF Carries
    <3> QED
      BY <2>2, <3>1, <3>2
  <2> QED
    BY <1>1, <1>2, <1>3, <1>4, <1>5, <1>6, <1>9, <2>1, <2>3, <2>4, HandshakeStep
<1> QED
  BY <1>4, <1>8, <1>9

\* Handshake is an inductive invariant, relative to the types.
LEMMA HandshakeInductive ==
  /\ Init => Handshake
  /\ TypeOK /\ Handshake /\ [Next]_vars => Handshake'
<1>1. ASSUME Init PROVE Handshake
  <2>1. /\ FirstConfig.link_establishment_state = 0
        /\ FirstConfig.link_establishment_resp = 0
        /\ FirstConfig.link_establishment_packet = "sync"
        /\ FirstConfig.sending.kind = "sync"
    BY DEF FirstConfig, Established, Boot, NextLePacket, next_le_packet, LeFrame,
           uninitialized
  <2>2. \A e \in End : config[e] = FirstConfig /\ line[e] = <<>>
    BY <1>1 DEF Init
  <2>3. \A k : ~Carries(<<>>, k)
    BY DEF Carries
  <2>4. SyncsFirst(<<>>)
    BY DEF SyncsFirst
  <2> QED
    BY <2>1, <2>2, <2>3, <2>4 DEF Handshake, LeSuitsState, active
<1>2. ASSUME TypeOK, Handshake, [Next]_vars PROVE Handshake'
  <2>0. EngineType
    BY <1>2 DEF TypeOK, EngineType
  <2>1. ASSUME NEW e \in End, Receive(e) PROVE Handshake'
    <3>1. ReceiveStep(e)
      BY <2>1 DEF Receive
    <3>2. EngineType'
      BY <2>0, <3>1, ReceiveType
    <3>3. /\ LeSuitsState(config[e])
          /\ config[e].link_establishment_state = active => ~Carries(line[e], "sync")
      BY <1>2 DEF Handshake
    <3>4. \E s \in {<<>>, <<BadFrame>>} : line'[Other(e)] = line[Other(e)] \o s
      <4>1. line[Other(e)] \o <<>> = line[Other(e)]
        BY <2>0, Ends DEF EngineType
      <4> QED
        BY <2>0, <3>1, <3>3, <4>1, ReceiveAdvance
    <3>5. PICK s \in {<<>>, <<BadFrame>>} : line'[Other(e)] = line[Other(e)] \o s
      BY <3>4
    <3>6. /\ s \in Seq(Frame) /\ SyncsFirst(s)
          /\ ~Carries(s, "conf_resp") /\ ~Carries(s, "sync")
      <4>1. <<>> \in Seq(Frame) /\ <<BadFrame>> \in Seq(Frame) /\ BadFrame.kind = "bad"
        BY FrameTypes DEF BadFrame, LeFrame
      <4>2. CASE s = <<>>
        BY <4>1, <4>2 DEF SyncsFirst, Carries
      <4>3. CASE s = <<BadFrame>>
        BY <4>1, <4>3 DEF SyncsFirst, Carries
      <4> QED
        BY <4>2, <4>3
    <3> QED
      BY <1>2, <2>0, <3>1, <3>2, <3>3, <3>5, <3>6, ReceiveAdvance, HandshakeStep
  <2>2. ASSUME NEW e \in End, NextPoll(e) \/ Submit(e) PROVE Handshake'
    <3>1. /\ Returned(e) \in Config /\ config[e] \in Config /\ poll[e] \in Poll
          /\ line[Other(e)] \in Seq(Frame)
      BY <2>0, ReturnedType, Ends DEF EngineType
    <3>2. /\ Returned(e).link_establishment_state = config[e].link_establishment_state
          /\ Returned(e).link_establishment_resp = config[e].link_establishment_resp
          /\ Returned(e).link_establishment_packet = config[e].link_establishment_packet
          /\ Returned(e).sending = config[e].sending
      BY <3>1 DEF Returned, ubcsp_receive_packet, Polled, Config
    <3>3. CASE NextPoll(e)
      <4>1. TransmitStep(e, Returned(e), line[Other(e)] \o <<>>)
        <5>1. line[Other(e)] \o <<>> = line[Other(e)]
          BY <3>1
        <5> QED
          BY <3>3, <5>1 DEF NextPoll
      <4> QED
        BY <1>2, <2>0, <3>1, <3>2, <4>1, TransmitKeepsHandshake
    <3>4. CASE Submit(e)
      <4>1. PICK r \in Reliability[e], rest \in Abandoned(e) :
              TransmitStep(e, ubcsp_send_packet(Returned(e), [id |-> packets[e] + 1, reliable |-> r]),
                           line[Other(e)] \o rest)
        BY <3>4 DEF Submit
      <4> DEFINE p == [id |-> packets[e] + 1, reliable |-> r]
                 c == ubcsp_send_packet(Returned(e), p)
      <4>2. p \in Packet
        BY <1>2, ReliabilityAssumption DEF TypeOK, Packet
      <4> HIDE DEF p
      <4>3. c \in Config
        BY <3>1, <4>2, SendType
      <4>4. /\ c.link_establishment_state = config[e].link_establishment_state
            /\ c.link_establishment_resp = config[e].link_establishment_resp
            /\ c.link_establishment_packet = config[e].link_establishment_packet
            /\ c.sending.kind = "none"
        BY <3>1, <3>2 DEF ubcsp_send_packet, Config, NoFrame, LeFrame
      <4>5. rest \in {<<>>, <<BadFrame>>}
        BY AbandonedType
      <4>6. TransmitStep(e, c, line[Other(e)] \o rest)
        BY <4>1 DEF p
      <4> HIDE DEF c
      <4> QED
        BY <1>2, <2>0, <4>3, <4>4, <4>5, <4>6, TransmitKeepsHandshake
    <3> QED
      BY <2>2, <3>3, <3>4
  <2>3. ASSUME NEW e \in End, Noise(e) PROVE Handshake'
    BY <1>2, <2>3, NoiseKeepsHandshake
  <2>4. CASE UNCHANGED vars
    BY <1>2, <2>4 DEF vars, Handshake
  <2> QED
    BY <1>2, <2>1, <2>2, <2>3, <2>4 DEF Next, Step
<1> QED
  BY <1>1, <1>2

\* In every reachable state the handshake is as Handshake says: link
\* establishment of ubcsp.c, with delays, damage and loss on the line.
THEOREM HandshakeHolds == Spec => []Handshake
BY TypeCorrect, HandshakeInductive, PTL DEF Spec

\* The three properties of establishment are consequences of Handshake.
LEMMA HandshakeImplies ==
  ASSUME EngineType, Handshake
  PROVE  NoSyncToActive /\ ActiveAgreement /\ LeUntilActive
BY Ends DEF Handshake, NoSyncToActive, ActiveAgreement, LeUntilActive, Carries,
            PastSync, LeSuitsState

\* An active engine never takes a delayed SYNC of the establishment of its own
\* link for a reset of the peer.
THEOREM NoSpuriousReset == Spec => []NoSyncToActive
<1>1. TypeOK /\ Handshake => NoSyncToActive
  BY HandshakeImplies DEF TypeOK, EngineType
<1> QED
  BY <1>1, TypeCorrect, HandshakeHolds, PTL

\* When an end is active the other has seen its own SYNC answered.
THEOREM BothEndsAgree == Spec => []ActiveAgreement
<1>1. TypeOK /\ Handshake => ActiveAgreement
  BY HandshakeImplies DEF TypeOK, EngineType
<1> QED
  BY <1>1, TypeCorrect, HandshakeHolds, PTL

\* Until an end is active it always has a link establishment message to send.
THEOREM EstablishmentNeverStops == Spec => []LeUntilActive
<1>1. TypeOK /\ Handshake => LeUntilActive
  BY HandshakeImplies DEF TypeOK, EngineType
<1> QED
  BY <1>1, TypeCorrect, HandshakeHolds, PTL

=============================================================================
