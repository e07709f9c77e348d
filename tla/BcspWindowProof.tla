-------------------------- MODULE BcspWindowProof --------------------------
(***************************************************************************)
(* A MicroBCSP link is a reliable channel in each direction: WindowOfOne   *)
(* of BcspWindow is an invariant of BcspLink, and every step it allows is  *)
(* a step of ReliableChannel or leaves the channel alone.                  *)
(***************************************************************************)
EXTENDS BcspWindow, BcspLinkProof

-----------------------------------------------------------------------------
(* Frames on their way.                                                    *)

\* The next sequence number is one, and another than this one.
LEMMA NextNumber ==
  ASSUME NEW s \in 0 .. SeqModulus - 1
  PROVE  /\ (s + 1) % SeqModulus \in 0 .. SeqModulus - 1
         /\ (s + 1) % SeqModulus # s
<1>1. CASE s + 1 < SeqModulus
  <2>1. (s + 1) % SeqModulus = s + 1
    BY <1>1, SeqModulusAssumption
  <2> QED
    BY <1>1, <2>1, SeqModulusAssumption
<1>2. CASE s + 1 = SeqModulus
  <2>1. SeqModulus % SeqModulus = 0
    BY SeqModulusAssumption
  <2> QED
    BY <1>2, <2>1, SeqModulusAssumption
<1> QED
  BY <1>1, <1>2, SeqModulusAssumption

\* The stream l, x becomes l2, x2 by a step that starts no frame: the frame being
\* sent is finished or dropped, the oldest one taken, lost or damaged.
Trims(l, x, l2, x2) ==
  \/ l2 = l /\ x2 \in {x, NoFrame}
  \/ l2 = Append(l, x) /\ x2 = NoFrame
  \/ l2 = Append(l, BadFrame) /\ x2 = NoFrame
  \/ l # <<>> /\ l2 = Tail(l) /\ x2 = x
  \/ l # <<>> /\ l2 = <<BadFrame>> \o Tail(l) /\ x2 = x

\* Where the frames of an appended, a shortened and a damaged line come from.
LEMMA LineFrames ==
  ASSUME NEW l \in Seq(Frame), NEW x \in Frame
  PROVE  /\ Len(l) \in Nat
         /\ Append(l, x) \in Seq(Frame)
         /\ Len(Append(l, x)) = Len(l) + 1
         /\ \A i \in 1 .. Len(l) + 1 : Append(l, x)[i] = IF i <= Len(l) THEN l[i] ELSE x
         /\ l # <<>> => /\ Len(l) > 0
                        /\ Tail(l) \in Seq(Frame)
                        /\ Len(Tail(l)) = Len(l) - 1
                        /\ \A i \in 1 .. Len(l) - 1 : Tail(l)[i] = l[i + 1]
                        /\ <<x>> \o Tail(l) \in Seq(Frame)
                        /\ Len(<<x>> \o Tail(l)) = Len(l)
                        /\ \A i \in 1 .. Len(l) :
                             (<<x>> \o Tail(l))[i] = IF i = 1 THEN x ELSE l[i]
<1>1. /\ Len(l) \in Nat
      /\ Append(l, x) \in Seq(Frame)
      /\ Len(Append(l, x)) = Len(l) + 1
      /\ \A i \in 1 .. Len(l) + 1 : Append(l, x)[i] = IF i <= Len(l) THEN l[i] ELSE x
  OBVIOUS
<1>2. ASSUME l # <<>>
      PROVE  /\ Len(l) > 0
             /\ Tail(l) \in Seq(Frame)
             /\ Len(Tail(l)) = Len(l) - 1
             /\ \A i \in 1 .. Len(l) - 1 : Tail(l)[i] = l[i + 1]
  BY <1>2
<1>3. ASSUME l # <<>>
      PROVE  /\ <<x>> \o Tail(l) \in Seq(Frame)
             /\ Len(<<x>> \o Tail(l)) = Len(l)
             /\ \A i \in 1 .. Len(l) :
                  (<<x>> \o Tail(l))[i] = IF i = 1 THEN x ELSE l[i]
  <2> DEFINE t == Tail(l)
  <2>1. t \in Seq(Frame) /\ <<x>> \in Seq(Frame) /\ Len(<<x>>) = 1 /\ <<x>>[1] = x
    BY <1>3
  <2>2. Len(t) = Len(l) - 1 /\ \A i \in 1 .. Len(l) - 1 : t[i] = l[i + 1]
    BY <1>2, <1>3
  <2> HIDE DEF t
  <2>3. /\ <<x>> \o t \in Seq(Frame)
        /\ Len(<<x>> \o t) = 1 + Len(t)
        /\ \A i \in 1 .. 1 + Len(t) : (<<x>> \o t)[i] = IF i <= 1 THEN x ELSE t[i - 1]
    BY <2>1
  <2>4. \A i \in 1 .. Len(l) : (<<x>> \o t)[i] = IF i = 1 THEN x ELSE l[i]
    <3> SUFFICES ASSUME NEW i \in 1 .. Len(l)
                 PROVE  (<<x>> \o t)[i] = IF i = 1 THEN x ELSE l[i]
      OBVIOUS
    <3>1. CASE i = 1
      BY <1>1, <2>2, <2>3, <3>1
    <3>2. CASE i # 1
      <4>1. i - 1 \in 1 .. Len(l) - 1 /\ i \in 1 .. 1 + Len(t) /\ ~(i <= 1)
        BY <1>1, <2>2, <3>2
      <4>2. t[i - 1] = l[(i - 1) + 1] /\ (i - 1) + 1 = i
        BY <1>1, <2>2, <4>1
      <4> QED
        BY <2>3, <3>2, <4>1, <4>2
    <3> QED
      BY <3>1, <3>2
  <2> QED
    BY <1>1, <2>2, <2>3, <2>4 DEF t
<1> QED
  BY <1>1, <1>2, <1>3

\* Trimming a stream brings no frame of S into it, and changes no order in it.
LEMMA TrimKeeps ==
  ASSUME NEW l \in Seq(Frame), NEW x \in Frame, NEW l2, NEW x2,
         Trims(l, x, l2, x2),
         NEW S, NEW T,
         NoFrame \notin S, BadFrame \notin S, NoFrame \notin T, BadFrame \notin T
  PROVE  /\ l2 \in Seq(Frame) /\ x2 \in Frame
         /\ Has(l2, S) => Has(l, S) \/ x \in S
         /\ x2 \in S => x \in S
         /\ Without(l, x, S) => Without(l2, x2, S)
         /\ NeverBehind(l, x, S, T) => NeverBehind(l2, x2, S, T)
<1>0. NoFrame \in Frame /\ BadFrame \in Frame
  BY FrameTypes
<1>1. CASE l2 = l /\ x2 \in {x, NoFrame}
  BY <1>0, <1>1 DEF Without, NeverBehind
<1>2. ASSUME NEW y \in {x, BadFrame}, l2 = Append(l, y), x2 = NoFrame
      PROVE  /\ l2 \in Seq(Frame) /\ x2 \in Frame
             /\ Has(l2, S) => Has(l, S) \/ x \in S
             /\ x2 \in S => x \in S
             /\ Without(l, x, S) => Without(l2, x2, S)
             /\ NeverBehind(l, x, S, T) => NeverBehind(l2, x2, S, T)
  <2>1. /\ l2 \in Seq(Frame)
        /\ Len(l) \in Nat
        /\ Len(l2) = Len(l) + 1
        /\ \A i \in 1 .. Len(l) + 1 : l2[i] = IF i <= Len(l) THEN l[i] ELSE y
    BY <1>0, <1>2, LineFrames
  <2>2. Has(l2, S) => Has(l, S) \/ x \in S
    <3> SUFFICES ASSUME NEW i \in 1 .. Len(l2), l2[i] \in S PROVE Has(l, S) \/ x \in S
      BY DEF Has
    <3>1. CASE i <= Len(l)
      <4>1. i \in 1 .. Len(l) /\ l[i] \in S
        BY <2>1, <3>1
      <4> QED
        BY <4>1 DEF Has
    <3>2. CASE ~(i <= Len(l))
      BY <2>1, <3>2
    <3> QED
      BY <3>1, <3>2
  <2>3. NeverBehind(l, x, S, T) => NeverBehind(l2, x2, S, T)
    <3> SUFFICES ASSUME NeverBehind(l, x, S, T),
                        NEW i \in 1 .. Len(l2), NEW j \in 1 .. Len(l2),
                        i < j, l2[i] \in S, l2[j] \in T
                 PROVE  FALSE
      BY <1>2 DEF NeverBehind
    <3>1. i \in 1 .. Len(l) /\ l2[i] = l[i]
      BY <2>1
    <3>2. CASE j <= Len(l)
      <4>1. j \in 1 .. Len(l) /\ l2[j] = l[j]
        BY <2>1, <3>2
      <4> QED
        BY <3>1, <4>1 DEF NeverBehind
    <3>3. CASE ~(j <= Len(l))
      <4>1. l2[j] = y /\ Has(l, S)
        BY <2>1, <3>1, <3>3 DEF Has
      <4> QED
        BY <4>1, <1>2 DEF NeverBehind
    <3> QED
      BY <3>2, <3>3
  <2> QED
    BY <1>0, <1>2, <2>1, <2>2, <2>3 DEF Without
<1>3. CASE l # <<>> /\ l2 = Tail(l) /\ x2 = x
  <2>1. /\ l2 \in Seq(Frame)
        /\ Len(l) \in Nat
        /\ Len(l2) = Len(l) - 1
        /\ \A i \in 1 .. Len(l) - 1 : l2[i] = l[i + 1]
    BY <1>3, LineFrames
  <2>2. \A i \in 1 .. Len(l2) : i + 1 \in 1 .. Len(l) /\ l2[i] = l[i + 1]
    BY <2>1
  <2>3. Has(l2, S) => Has(l, S)
    BY <2>2 DEF Has
  <2>4. NeverBehind(l, x, S, T) => NeverBehind(l2, x2, S, T)
    <3> SUFFICES ASSUME NeverBehind(l, x, S, T)
                 PROVE  \A i, j \in 1 .. Len(l2) : i < j /\ l2[i] \in S => l2[j] \notin T
      BY <1>3, <2>3 DEF NeverBehind
    <3> TAKE i \in 1 .. Len(l2), j \in 1 .. Len(l2)
    <3>1. i < j => i + 1 < j + 1
      BY <2>1
    <3> QED
      BY <2>2, <3>1 DEF NeverBehind
  <2> QED
    BY <1>3, <2>1, <2>3, <2>4 DEF Without
<1>4. CASE l # <<>> /\ l2 = <<BadFrame>> \o Tail(l) /\ x2 = x
  <2>1. /\ l2 \in Seq(Frame)
        /\ Len(l2) = Len(l)
        /\ \A i \in 1 .. Len(l) : l2[i] = IF i = 1 THEN BadFrame ELSE l[i]
    BY <1>0, <1>4, LineFrames
  <2>2. \A i \in 1 .. Len(l2) : i \in 1 .. Len(l) /\ (l2[i] \in S \cup T => l2[i] = l[i])
    BY <2>1
  <2>3. Has(l2, S) => Has(l, S)
    BY <2>2 DEF Has
  <2> QED
    BY <1>4, <2>1, <2>2, <2>3 DEF Without, NeverBehind
<1> QED
  BY <1>1, <1>2, <1>3, <1>4 DEF Trims

\* The same, one conclusion at a time.
LEMMA TrimKeepsWithout ==
  ASSUME NEW l \in Seq(Frame), NEW x \in Frame, NEW l2, NEW x2, Trims(l, x, l2, x2),
         NEW S, NoFrame \notin S, BadFrame \notin S, Without(l, x, S)
  PROVE  Without(l2, x2, S)
BY TrimKeeps

LEMMA TrimBringsNothing ==
  ASSUME NEW l \in Seq(Frame), NEW x \in Frame, NEW l2, NEW x2, Trims(l, x, l2, x2),
         NEW S, NoFrame \notin S, BadFrame \notin S
  PROVE  /\ Has(l2, S) => Has(l, S) \/ x \in S
         /\ x2 \in S => x \in S
BY TrimKeeps

LEMMA TrimKeepsBehind ==
  ASSUME NEW l \in Seq(Frame), NEW x \in Frame, NEW l2, NEW x2, Trims(l, x, l2, x2),
         NEW S, NoFrame \notin S, BadFrame \notin S,
         NEW T, NoFrame \notin T, BadFrame \notin T, NeverBehind(l, x, S, T)
  PROVE  NeverBehind(l2, x2, S, T)
BY TrimKeeps

\* What holds of a frame taken and of those behind it.
LEMMA HeadOf ==
  ASSUME NEW l \in Seq(Frame), l # <<>>, NEW x, NEW S, NEW T
  PROVE  /\ Without(l, x, S) => Head(l) \notin S
         /\ Head(l) \in S => Has(l, S)
         /\ NeverBehind(l, x, S, T) /\ Head(l) \in S => Without(Tail(l), x, T)
<1>1. /\ Head(l) = l[1] /\ 1 \in 1 .. Len(l) /\ Len(l) \in Nat
      /\ Len(Tail(l)) = Len(l) - 1
      /\ \A i \in 1 .. Len(l) - 1 : Tail(l)[i] = l[i + 1]
  OBVIOUS
<1>2. Head(l) \in S => Has(l, S)
  BY <1>1 DEF Has
<1>3. ASSUME NeverBehind(l, x, S, T), Head(l) \in S
      PROVE  Without(Tail(l), x, T)
  <2>1. x \notin T
    BY <1>2, <1>3 DEF NeverBehind
  <2>2. ASSUME NEW i \in 1 .. Len(Tail(l)) PROVE Tail(l)[i] \notin T
    <3>1. i + 1 \in 1 .. Len(l) /\ 1 < i + 1 /\ Tail(l)[i] = l[i + 1]
      BY <1>1
    <3> QED
      BY <1>1, <1>3, <3>1 DEF NeverBehind
  <2> QED
    BY <2>1, <2>2 DEF Without, Has
<1> QED
  BY <1>2, <1>3 DEF Without

\* A frame that starts when none was being sent.
LEMMA StartKeeps ==
  ASSUME NEW l, NEW y, NEW S, NEW T
  PROVE  /\ Without(l, NoFrame, S) /\ y \notin S => Without(l, y, S)
         /\ NeverBehind(l, NoFrame, S, T) /\ (y \in T => ~Has(l, S)) => NeverBehind(l, y, S, T)
BY DEF Without, NeverBehind

\* A stream without the frames of a set is without those of a smaller one.
LEMMA WithoutSubset ==
  ASSUME NEW l, NEW x, NEW S, NEW T, Without(l, x, S), T \subseteq S
  PROVE  Without(l, x, T) /\ ~Has(l, T) /\ x \notin T
BY DEF Without, Has

\* No frame and a damaged frame mean nothing to the engine that takes them.
LEMMA MeaningOf ==
  /\ \A a, i : /\ NoFrame \notin Fresh(a) /\ BadFrame \notin Fresh(a)
               /\ NoFrame \notin Stale(a) /\ BadFrame \notin Stale(a)
               /\ NoFrame \notin {f \in Fresh(a) : f.packet.id # i}
               /\ BadFrame \notin {f \in Fresh(a) : f.packet.id # i}
  /\ \A a, s : /\ NoFrame \notin Acking(a) /\ BadFrame \notin Acking(a)
               /\ NoFrame \notin NotAcking(a) /\ BadFrame \notin NotAcking(a)
               /\ NoFrame \notin NotAcking(s) \cap NotAcking(a)
               /\ BadFrame \notin NotAcking(s) \cap NotAcking(a)
  /\ NoFrame \notin LeFrames /\ BadFrame \notin LeFrames
  /\ NoFrame \notin LeFrames \cap NotAcking(0) /\ BadFrame \notin LeFrames \cap NotAcking(0)
  /\ NoFrame \notin DataFrames /\ BadFrame \notin DataFrames
  /\ NoFrame \notin ConfFrames /\ BadFrame \notin ConfFrames
<1>1. NoFrame.kind = "none" /\ BadFrame.kind = "bad"
  BY DEF NoFrame, BadFrame, LeFrame
<1> QED
  BY <1>1 DEF Fresh, Stale, Acking, NotAcking, Headers, LeFrames, LeMessage, DataFrames,
              ConfFrames, ReliableFrames

-----------------------------------------------------------------------------
(* What a step of the engine at e does, as far as the window goes.         *)

\* The transmit step from c and w starts no frame.
Continues(e, c, w) ==
  LET d == config'[e]
  IN  /\ Trims(w, c.sending, line'[Other(e)], d.sending)
      /\ d.link_establishment_packet = c.link_establishment_packet
      /\ d.link_establishment_resp = c.link_establishment_resp
      /\ \/ d.send_packet = c.send_packet /\ ~Sent(e)'
         \/ SentUnreliable(c) /\ d.send_packet = NoPacket

\* The transmit step from c and w starts frame y.
Starts(e, c, w, y) ==
  LET d == config'[e]
  IN  /\ c.sending = NoFrame
      /\ line'[Other(e)] = w
      /\ d.sending = y
      /\ d.send_packet = c.send_packet
      /\ ~Sent(e)'
      /\ \/ /\ ~Quiet(c)
            /\ y \in {LeFrame(k) : k \in LeMessage}
            /\ y.kind = "conf" => c.link_establishment_packet # "none"
            /\ c.link_establishment_packet = "none" => d.link_establishment_packet = "none"
            /\ Quiet(c) => Quiet(d)
         \/ /\ Quiet(c)
            /\ y = AckFrame(c) \/ (y = DataFrame(c) /\ c.send_packet # NoPacket)
            /\ d.link_establishment_packet = c.link_establishment_packet
            /\ d.link_establishment_resp = c.link_establishment_resp

\* Every branch of the transmit step of ubcsp_poll starts a frame or does not.
LEMMA TransmitEffect ==
  ASSUME EngineType, NEW e \in End,
         NEW c \in Config, NEW w \in Seq(Frame),
         TransmitStep(e, c, w)
  PROVE  /\ config'[e].sequence_number = c.sequence_number
         /\ config'[e].ack_number = c.ack_number
         /\ config'[e].receive_packet = c.receive_packet
         /\ config'[e].link_establishment_state = c.link_establishment_state
         /\ config'[Other(e)] = config[Other(e)]
         /\ line'[e] = line[e]
         /\ poll'[Other(e)] = poll[Other(e)]
         /\ "RECEIVED" \notin poll'[e].activity
         /\ Continues(e, c, w) \/ \E y \in Frame : Starts(e, c, w, y)
<1> DEFINE Same(d) == /\ d.sequence_number = c.sequence_number
                      /\ d.ack_number = c.ack_number
                      /\ d.receive_packet = c.receive_packet
                      /\ d.link_establishment_state = c.link_establishment_state
<1>1. \A d, t, x, a : EnterReceive(e, d, t, x, a)
        => /\ config'[e] = d
           /\ config'[Other(e)] = config[Other(e)]
           /\ line'[e] = line[e]
           /\ line'[Other(e)] = t
           /\ poll'[e].activity = a
           /\ poll'[Other(e)] = poll[Other(e)]
           /\ Sent(e)' <=> "SENT" \in a
  BY Ends DEF EnterReceive, EngineType, Sent
<1>2. \A d, t, x, a : EnterReceive(e, d, t, x, a) /\ Same(d) /\ a \in {{}, {"SENT"}}
        => /\ Same(config'[e])
           /\ config'[Other(e)] = config[Other(e)]
           /\ line'[e] = line[e]
           /\ poll'[Other(e)] = poll[Other(e)]
           /\ "RECEIVED" \notin poll'[e].activity
  BY <1>1
<1>3. SUFFICES \E d, t, x, a : /\ EnterReceive(e, d, t, x, a) /\ Same(d) /\ a \in {{}, {"SENT"}}
                               /\ Continues(e, c, w) \/ \E y \in Frame : Starts(e, c, w, y)
  <2> HIDE DEF Same
  <2>1. Same(config'[e]) => /\ config'[e].sequence_number = c.sequence_number
                            /\ config'[e].ack_number = c.ack_number
                            /\ config'[e].receive_packet = c.receive_packet
                            /\ config'[e].link_establishment_state = c.link_establishment_state
    BY DEF Same
  <2> QED
    BY <1>2, <2>1
<1>4. ASSUME NEW x, EnterReceive(e, c, w, x, {})
      PROVE  Continues(e, c, w)
  BY <1>1, <1>4 DEF Continues, Trims
<1>5. CASE SendDelayed(e, c, w)
  BY <1>4, <1>5 DEF SendDelayed
<1>6. CASE SendOctet(e, c, w)
  BY <1>4, <1>6 DEF SendOctet
<1>7. CASE SendNothing(e, c, w)
  BY <1>4, <1>7 DEF SendNothing
<1>8. CASE SendLast(e, c, w)
  <2> DEFINE q == IF SentUnreliable(c) THEN NoPacket ELSE c.send_packet
             d == [c EXCEPT !.sending = NoFrame, !.send_packet = q]
             a == IF SentUnreliable(c) THEN {"SENT"} ELSE {}
  <2>1. EnterReceive(e, d, Append(w, c.sending), PollDelay, a)
    BY <1>8 DEF SendLast
  <2>2. /\ Same(d)
        /\ d.link_establishment_packet = c.link_establishment_packet
        /\ d.link_establishment_resp = c.link_establishment_resp
        /\ d.sending = NoFrame
        /\ d.send_packet = q
    BY DEF Config
  <2> HIDE DEF d, Same
  <2>3. /\ config'[e] = d /\ line'[Other(e)] = Append(w, c.sending)
        /\ Sent(e)' <=> "SENT" \in a
    BY <1>1, <2>1
  <2>4. Continues(e, c, w)
    BY <2>2, <2>3 DEF Continues, Trims
  <2> QED
    BY <2>1, <2>2, <2>4
<1>9. CASE StartLe(e, c, w)
  <2> DEFINE d == Established(c)
             y == LeFrame(c.link_establishment_packet)
  <2>1. EnterReceive(e, d, w, 0, {})
    BY <1>9 DEF StartLe
  <2>2. /\ Same(d)
        /\ d.send_packet = c.send_packet
        /\ d.sending = y
    BY DEF Config, Established
  <2>3. /\ c.link_establishment_packet # "none"
        /\ c.link_establishment_packet \in LeMessage
        /\ c.sending = NoFrame
    BY <1>9 DEF StartLe, Config
  <2>4. y \in Frame
    BY <2>3, FrameTypes
  <2> HIDE DEF d, Same
  <2>5. config'[e] = d /\ line'[Other(e)] = w /\ ~Sent(e)'
    BY <1>1, <2>1
  <2>6. Starts(e, c, w, y)
    BY <2>2, <2>3, <2>5 DEF Starts, Quiet
  <2> QED
    BY <2>1, <2>2, <2>4, <2>6
<1>10. CASE StartConfResp(e, c, w)
  <2> DEFINE y == LeFrame("conf_resp")
             d == [c EXCEPT !.sending = y, !.link_establishment_resp = 0]
  <2>1. EnterReceive(e, d, w, 0, {})
    BY <1>10 DEF StartConfResp
  <2>2. /\ Same(d)
        /\ d.send_packet = c.send_packet
        /\ d.sending = y
        /\ d.link_establishment_packet = c.link_establishment_packet
    BY DEF Config
  <2>3. /\ c.link_establishment_packet = "none"
        /\ c.link_establishment_resp = 2
        /\ c.sending = NoFrame
        /\ y.kind = "conf_resp"
    BY <1>10 DEF StartConfResp, Ready, LeFrame
  <2>4. y \in Frame /\ "conf_resp" \in LeMessage
    BY FrameTypes DEF LeMessage
  <2>5. y \in {LeFrame(k) : k \in LeMessage}
    BY <2>4
  <2> HIDE DEF d, Same, y
  <2>6. config'[e] = d /\ line'[Other(e)] = w /\ ~Sent(e)'
    BY <1>1, <2>1
  <2>7. Starts(e, c, w, y)
    BY <2>2, <2>3, <2>5, <2>6 DEF Starts, Quiet
  <2> QED
    BY <2>1, <2>2, <2>4, <2>7
<1>11. ASSUME NEW d, NEW y \in Frame, Ready(c), c.link_establishment_resp # 2,
              d = [c EXCEPT !.sending = y, !.send_ack = FALSE],
              EnterReceive(e, d, w, 0, {}),
              y = AckFrame(c) \/ (y = DataFrame(c) /\ c.send_packet # NoPacket)
       PROVE  Same(d) /\ Starts(e, c, w, y)
  <2>1. /\ Same(d)
        /\ d.send_packet = c.send_packet
        /\ d.sending = y
        /\ d.link_establishment_packet = c.link_establishment_packet
        /\ d.link_establishment_resp = c.link_establishment_resp
    BY <1>11 DEF Config
  <2> HIDE DEF Same
  <2>2. config'[e] = d /\ line'[Other(e)] = w /\ ~Sent(e)'
    BY <1>1, <1>11
  <2> QED
    BY <1>11, <2>1, <2>2 DEF Starts, Quiet, Ready
<1>12. CASE StartData(e, c, w)
  <2> DEFINE y == DataFrame(c)
             d == [c EXCEPT !.sending = y, !.send_ack = FALSE]
  <2>1. /\ y \in Frame
        /\ Ready(c) /\ c.link_establishment_resp # 2
        /\ c.send_packet # NoPacket
        /\ EnterReceive(e, d, w, 0, {})
    BY <1>12, FrameTypes DEF StartData
  <2>2. Same(d) /\ Starts(e, c, w, y)
    BY <1>11, <2>1
  <2> HIDE DEF y, d, Same
  <2> QED
    BY <2>1, <2>2
<1>13. CASE StartAck(e, c, w)
  <2> DEFINE y == AckFrame(c)
             d == [c EXCEPT !.sending = y, !.send_ack = FALSE]
  <2>1. /\ y \in Frame
        /\ Ready(c) /\ c.link_establishment_resp # 2
        /\ EnterReceive(e, d, w, 0, {})
    BY <1>13, FrameTypes DEF StartAck
  <2>2. Same(d) /\ Starts(e, c, w, y)
    BY <1>11, <2>1
  <2> HIDE DEF y, d, Same
  <2> QED
    BY <2>1, <2>2
<1> QED
  BY <1>5, <1>6, <1>7, <1>8, <1>9, <1>10, <1>12, <1>13 DEF TransmitStep

\* The frame that e takes acknowledges its packet.
Acks(e) == Head(line[e]).kind # "bad" /\ Acknowledged(config[e], Head(line[e]))

\* It makes the link active.
Activates(e) ==
  Head(line[e]).kind = "conf_resp" /\ config[e].link_establishment_state # active

\* It is the reliable packet that e expects.
Delivers(e) ==
  /\ Head(line[e]) \in Fresh(config[e].ack_number)
  /\ config[e].link_establishment_state = active

\* What every branch of ubcsp_recevied_packet leaves, but that of a reset peer.
Received(e) ==
  LET c == config[e]
      d == config'[e]
      f == Head(line[e])
  IN  /\ d.sequence_number =
           IF Acks(e) THEN (c.sequence_number + 1) % SeqModulus ELSE c.sequence_number
      /\ d.send_packet = IF Acks(e) THEN NoPacket ELSE c.send_packet
      /\ d.ack_number = IF Delivers(e) THEN (c.ack_number + 1) % SeqModulus ELSE c.ack_number
      /\ d.link_establishment_packet = c.link_establishment_packet
      /\ d.link_establishment_resp = 2 => c.link_establishment_resp = 2 \/ f.kind = "conf"
      /\ d.link_establishment_state = active
           <=> c.link_establishment_state = active \/ Activates(e)
      /\ Trims(line[Other(e)], c.sending, line'[Other(e)], d.sending)
      /\ Sent(e)' <=> Sent(e) \/ Acks(e) \/ Activates(e)

\* A peer's reset is noticed only where a SYNC meets an active end.
LEMMA NoResetAtActive ==
  ASSUME EngineType, NEW e \in End,
         config[e].link_establishment_state = active => ~Carries(line[e], "sync")
  PROVE  ~ReceivePeerReset(e)
<1> SUFFICES ASSUME ReceivePeerReset(e) PROVE FALSE
  OBVIOUS
<1>1. Receiving(e, {"sync"}) /\ config[e].link_establishment_state = active
  BY DEF ReceivePeerReset
<1>2. Head(line[e]) = line[e][1] /\ Len(line[e]) \in Nat \ {0} /\ Head(line[e]).kind = "sync"
  BY <1>1, ReceivingType DEF Receiving
<1> QED
  BY <1>1, <1>2 DEF Carries

\* The packet in the caller's buffer after e took a frame.
Buffered(e) ==
  LET c == config[e]
      d == config'[e]
      f == Head(line[e])
      p == poll'[e]
  IN  \/ /\ ~Delivers(e)
         /\ d.receive_packet = c.receive_packet
         /\ "RECEIVED" \in p.activity => "RECEIVED" \in poll[e].activity
      \/ /\ ~Delivers(e)
         /\ ~d.receive_packet
         /\ ~p.packet.reliable
      \/ /\ Delivers(e)
         /\ ~d.receive_packet
         /\ "RECEIVED" \in p.activity
         /\ p.packet = f.packet

\* Every branch of ubcsp_recevied_packet, but that of a reset peer.
LEMMA ReceiveEffect ==
  ASSUME EngineType, NEW e \in End, ReceiveStep(e), ~ReceivePeerReset(e)
  PROVE  /\ line[e] # <<>>
         /\ Head(line[e]) \in Frame
         /\ Head(line[e]).kind # "none"
         /\ line'[e] = Tail(line[e])
         /\ config'[Other(e)] = config[Other(e)]
         /\ poll'[Other(e)] = poll[Other(e)]
         /\ config[e].receive_packet
         /\ Received(e)
         /\ Buffered(e)
<1> DEFINE o == Other(e)
           f == Head(line[e])
           c == AfterAck(config[e], f)
           b == AckActivity(config[e], f)
<1>0. \E kinds : Receiving(e, kinds) /\ "none" \notin kinds
  <2>1. CASE ReceiveBad(e)
    BY <2>1 DEF ReceiveBad
  <2>2. CASE ReceiveSync(e)
    BY <2>2 DEF ReceiveSync
  <2>3. CASE ReceivePeerReset(e)
    BY <2>3 DEF ReceivePeerReset
  <2>4. CASE ReceiveSyncResp(e)
    BY <2>4 DEF ReceiveSyncResp
  <2>5. CASE ReceiveConf(e)
    BY <2>5 DEF ReceiveConf
  <2>6. CASE ReceiveConfResp(e)
    BY <2>6 DEF ReceiveConfResp
  <2>7. CASE ReceiveAck(e)
    BY <2>7 DEF ReceiveAck
  <2>8. CASE ReceiveDuplicate(e)
    BY <2>8 DEF ReceiveDuplicate
  <2>9. CASE ReceivePacket(e)
    BY <2>9 DEF ReceivePacket
  <2> QED
    BY <2>1, <2>2, <2>3, <2>4, <2>5, <2>6, <2>7, <2>8, <2>9 DEF ReceiveStep
<1>1. /\ config[e] \in Config /\ f \in Frame /\ f = line[e][1] /\ c \in Config
      /\ line[e] # <<>> /\ 1 \in 1 .. Len(line[e]) /\ f.kind # "none"
      /\ config[e].receive_packet
      /\ o \in End /\ o # e
  BY <1>0, ReceivingType, Ends DEF EngineType, Receiving
<1>2. /\ c.sequence_number = IF Acknowledged(config[e], f)
                             THEN (config[e].sequence_number + 1) % SeqModulus
                             ELSE config[e].sequence_number
      /\ c.send_packet = IF Acknowledged(config[e], f) THEN NoPacket ELSE config[e].send_packet
      /\ c.ack_number = config[e].ack_number
      /\ c.link_establishment_packet = config[e].link_establishment_packet
      /\ c.link_establishment_resp = config[e].link_establishment_resp
      /\ c.link_establishment_state = config[e].link_establishment_state
      /\ c.sending = config[e].sending
      /\ c.receive_packet = config[e].receive_packet
      /\ config[e].link_establishment_state \in {0, 1, 2}
      /\ b = IF Acknowledged(config[e], f) THEN {"SENT"} ELSE {}
  BY <1>1 DEF AfterAck, AckActivity, Config, uninitialized, initialized, active
<1>3. Delivers(e) <=> /\ f.kind = "data" /\ f.packet.reliable
                      /\ f.seq = config[e].ack_number
                      /\ config[e].link_establishment_state = active
  BY <1>1 DEF Delivers, Fresh, ReliableFrames, DataFrames
<1>4. \A d, a : Take(e, d, a)
        => /\ config'[e] = d
           /\ config'[o] = config[o]
           /\ poll'[e].activity = poll[e].activity \cup a
           /\ poll'[o] = poll[o]
  BY <1>1 DEF Take, EngineType, Poll
<1>5. line' = [line EXCEPT ![e] = Tail(@)]
        => line'[e] = Tail(line[e]) /\ line'[o] = line[o]
  BY <1>1 DEF EngineType
\* A branch that takes the acknowledgement and keeps the frame being sent.
<1>6. ASSUME NEW d, f.kind # "conf_resp" \/ ~Activates(e), f.kind # "bad", ~Delivers(e),
             d.sequence_number = c.sequence_number, d.send_packet = c.send_packet,
             d.ack_number = c.ack_number, d.sending = c.sending,
             d.link_establishment_packet = c.link_establishment_packet,
             d.link_establishment_resp = 2 => c.link_establishment_resp = 2 \/ f.kind = "conf",
             d.link_establishment_state = active <=> c.link_establishment_state = active,
             d.receive_packet = c.receive_packet,
             Take(e, d, b), line' = [line EXCEPT ![e] = Tail(@)]
      PROVE  /\ line'[e] = Tail(line[e]) /\ config'[o] = config[o] /\ poll'[o] = poll[o]
             /\ Received(e) /\ Buffered(e)
  <2>1. Acks(e) <=> Acknowledged(config[e], f)
    BY <1>6 DEF Acks
  <2>2. ~Activates(e)
    BY <1>6 DEF Activates
  <2> HIDE DEF f, c, b, o
  <2>3. /\ config'[e] = d /\ config'[o] = config[o] /\ poll'[o] = poll[o]
        /\ poll'[e].activity = poll[e].activity \cup b
        /\ line'[e] = Tail(line[e]) /\ line'[o] = line[o]
    BY <1>4, <1>5, <1>6
  <2>4. Sent(e)' <=> Sent(e) \/ Acks(e)
    BY <1>2, <2>1, <2>3 DEF Sent
  <2>5. Received(e)
    BY <1>2, <1>6, <2>1, <2>2, <2>3, <2>4 DEF Received, Trims, f, o
  <2>6. Buffered(e)
    BY <1>2, <1>6, <2>3 DEF Buffered
  <2> QED
    BY <2>3, <2>5, <2>6
<1>7. SUFFICES /\ line'[e] = Tail(line[e]) /\ config'[o] = config[o] /\ poll'[o] = poll[o]
               /\ Received(e) /\ Buffered(e)
  BY <1>1
<1>8. CASE ReceiveBad(e)
  <2> DEFINE d == [config[e] EXCEPT !.send_ack = TRUE]
  <2>1. /\ f.kind = "bad"
        /\ Take(e, d, {}) /\ line' = [line EXCEPT ![e] = Tail(@)]
    BY <1>8 DEF ReceiveBad, Receiving
  <2>2. /\ d.sequence_number = config[e].sequence_number
        /\ d.send_packet = config[e].send_packet
        /\ d.ack_number = config[e].ack_number
        /\ d.sending = config[e].sending
        /\ d.link_establishment_packet = config[e].link_establishment_packet
        /\ d.link_establishment_resp = config[e].link_establishment_resp
        /\ d.link_establishment_state = config[e].link_establishment_state
        /\ d.receive_packet = config[e].receive_packet
    BY <1>1 DEF Config
  <2>3. ~Acks(e) /\ ~Activates(e) /\ ~Delivers(e)
    BY <1>3, <2>1 DEF Acks, Activates
  <2> HIDE DEF d
  <2>4. /\ config'[e] = d /\ config'[o] = config[o] /\ poll'[o] = poll[o]
        /\ poll'[e].activity = poll[e].activity \cup {}
        /\ line'[e] = Tail(line[e]) /\ line'[o] = line[o]
    BY <1>4, <1>5, <2>1
  <2>5. Sent(e)' <=> Sent(e)
    BY <2>4 DEF Sent
  <2>6. Received(e)
    BY <2>2, <2>3, <2>4, <2>5 DEF Received, Trims
  <2>7. Buffered(e)
    BY <2>2, <2>3, <2>4 DEF Buffered
  <2> QED
    BY <2>4, <2>6, <2>7
<1>9. CASE ReceiveSync(e)
  <2> DEFINE d == [c EXCEPT !.delay = 0, !.link_establishment_resp = 1]
  <2>1. /\ f.kind = "sync"
        /\ Take(e, d, b) /\ line' = [line EXCEPT ![e] = Tail(@)]
    BY <1>9 DEF ReceiveSync, Receiving
  <2>2. /\ d.sequence_number = c.sequence_number /\ d.send_packet = c.send_packet
        /\ d.ack_number = c.ack_number /\ d.sending = c.sending
        /\ d.link_establishment_packet = c.link_establishment_packet
        /\ d.link_establishment_resp = 1
        /\ d.link_establishment_state = c.link_establishment_state
        /\ d.receive_packet = c.receive_packet
    BY <1>1 DEF Config
  <2> HIDE DEF d, c, b, f
  <2> QED
    BY <1>3, <1>6, <2>1, <2>2
<1>10. CASE ReceivePeerReset(e)
  BY <1>10
<1>11. CASE ReceiveSyncResp(e)
  <2> DEFINE d == [c EXCEPT !.delay = 0,
                            !.link_establishment_state =
                              IF @ < initialized THEN initialized ELSE @]
  <2>1. /\ f.kind = "sync_resp"
        /\ Take(e, d, b) /\ line' = [line EXCEPT ![e] = Tail(@)]
    BY <1>11 DEF ReceiveSyncResp, Receiving
  <2>2. /\ d.sequence_number = c.sequence_number /\ d.send_packet = c.send_packet
        /\ d.ack_number = c.ack_number /\ d.sending = c.sending
        /\ d.link_establishment_packet = c.link_establishment_packet
        /\ d.link_establishment_resp = c.link_establishment_resp
        /\ d.link_establishment_state = IF c.link_establishment_state < initialized
                                         THEN initialized ELSE c.link_establishment_state
        /\ d.receive_packet = c.receive_packet
    BY <1>1 DEF Config
  <2> HIDE DEF d, c, b, f
  <2>3. d.link_establishment_state = active <=> c.link_establishment_state = active
    BY <1>2, <2>2 DEF initialized, active
  <2> QED
    BY <1>3, <1>6, <2>1, <2>2, <2>3
<1>12. CASE ReceiveConf(e)
  <2> DEFINE d == [c EXCEPT !.delay = 0,
                            !.link_establishment_resp =
                              IF c.link_establishment_state >= initialized THEN 2 ELSE @]
  <2>1. /\ f.kind = "conf"
        /\ Take(e, d, b) /\ line' = [line EXCEPT ![e] = Tail(@)]
    BY <1>12 DEF ReceiveConf, Receiving
  <2>2. /\ d.sequence_number = c.sequence_number /\ d.send_packet = c.send_packet
        /\ d.ack_number = c.ack_number /\ d.sending = c.sending
        /\ d.link_establishment_packet = c.link_establishment_packet
        /\ d.link_establishment_state = c.link_establishment_state
        /\ d.receive_packet = c.receive_packet
    BY <1>1 DEF Config
  <2> HIDE DEF d, c, b, f
  <2> QED
    BY <1>3, <1>6, <2>1, <2>2
<1>13. CASE ReceiveConfResp(e)
  <2> DEFINE d == [c EXCEPT !.delay = 0]
             g == [d EXCEPT !.link_establishment_state = active, !.sending = NoFrame]
  <2>1. f.kind = "conf_resp"
    BY <1>13 DEF ReceiveConfResp, Receiving
  <2>2. /\ d.sequence_number = c.sequence_number /\ d.send_packet = c.send_packet
        /\ d.ack_number = c.ack_number /\ d.sending = c.sending
        /\ d.link_establishment_packet = c.link_establishment_packet
        /\ d.link_establishment_resp = c.link_establishment_resp
        /\ d.link_establishment_state = c.link_establishment_state
        /\ d.receive_packet = c.receive_packet
        /\ d \in Config
    BY <1>1, Zeros DEF Config
  <2>3. CASE /\ d.link_establishment_state = active
             /\ Take(e, d, b)
             /\ line' = [line EXCEPT ![e] = Tail(@)]
    <3> HIDE DEF d, c, b, f
    <3>1. ~Activates(e) /\ ~Delivers(e)
      BY <1>2, <1>3, <2>1, <2>2, <2>3 DEF Activates
    <3> QED
      BY <1>6, <2>1, <2>2, <2>3, <3>1
  <2>4. CASE /\ d.link_establishment_state < active
             /\ Take(e, g, {"SENT"})
             /\ \E rest \in Abandoned(e) :
                  line' = [line EXCEPT ![e] = Tail(@), ![Other(e)] = @ \o rest]
    <3>1. PICK rest \in Abandoned(e) :
            line' = [line EXCEPT ![e] = Tail(@), ![o] = @ \o rest]
      BY <2>4
    <3>2. line'[o] = line[o] \o rest /\ line'[e] = Tail(line[e])
      BY <1>1, <3>1 DEF EngineType
    <3>3. line'[o] = line[o] \/ line'[o] = Append(line[o], BadFrame)
      <4>1. line[o] \in Seq(Frame) /\ BadFrame \in Frame
        BY <1>1, FrameTypes DEF EngineType
      <4>2. line[o] \o <<>> = line[o] /\ line[o] \o <<BadFrame>> = Append(line[o], BadFrame)
        BY <4>1, AppendIsConcat
      <4> QED
        BY <3>2, <4>2, AbandonedType
    <3>4. /\ g.sequence_number = d.sequence_number /\ g.send_packet = d.send_packet
          /\ g.ack_number = d.ack_number /\ g.sending = NoFrame
          /\ g.link_establishment_packet = d.link_establishment_packet
          /\ g.link_establishment_resp = d.link_establishment_resp
          /\ g.link_establishment_state = active
          /\ g.receive_packet = d.receive_packet
      BY <2>2 DEF Config
    <3> HIDE DEF g, d, c, b, o
    <3>5. /\ config'[e] = g /\ config'[o] = config[o] /\ poll'[o] = poll[o]
          /\ poll'[e].activity = poll[e].activity \cup {"SENT"}
      BY <1>4, <2>4
    <3>6. Activates(e) /\ ~Delivers(e) /\ (Acks(e) <=> Acknowledged(config[e], f))
      BY <1>2, <1>3, <2>1, <2>2, <2>4 DEF Activates, Acks, active
    <3>7. Sent(e)'
      BY <3>5 DEF Sent
    <3>8. Received(e)
      BY <1>2, <2>1, <2>2, <3>3, <3>4, <3>5, <3>6, <3>7 DEF Received, Trims, f, o
    <3>9. Buffered(e)
      BY <1>2, <2>2, <3>4, <3>5, <3>6 DEF Buffered
    <3> QED
      BY <3>2, <3>5, <3>8, <3>9
  <2> QED
    BY <1>13, <2>3, <2>4 DEF ReceiveConfResp
<1>14. CASE ReceiveAck(e)
  <2>1. /\ Take(e, c, b) /\ line' = [line EXCEPT ![e] = Tail(@)]
        /\ \/ f.kind = "ack"
           \/ f.kind = "data" /\ config[e].link_establishment_state # active
    BY <1>14 DEF ReceiveAck, Receiving
  <2> HIDE DEF c, b, f
  <2> QED
    BY <1>3, <1>6, <2>1
<1>15. CASE ReceiveDuplicate(e)
  <2> DEFINE d == [c EXCEPT !.send_ack = TRUE]
  <2>1. /\ f.kind = "data" /\ f.seq # config[e].ack_number
        /\ Take(e, d, b) /\ line' = [line EXCEPT ![e] = Tail(@)]
    BY <1>15 DEF ReceiveDuplicate, Receiving
  <2>2. /\ d.sequence_number = c.sequence_number /\ d.send_packet = c.send_packet
        /\ d.ack_number = c.ack_number /\ d.sending = c.sending
        /\ d.link_establishment_packet = c.link_establishment_packet
        /\ d.link_establishment_resp = c.link_establishment_resp
        /\ d.link_establishment_state = c.link_establishment_state
        /\ d.receive_packet = c.receive_packet
    BY <1>1 DEF Config
  <2> HIDE DEF d, c, b, f
  <2> QED
    BY <1>3, <1>6, <2>1, <2>2
<1>16. CASE ReceivePacket(e)
  <2> DEFINE d == [c EXCEPT !.receive_packet = FALSE]
             g == [d EXCEPT !.send_ack = TRUE,
                            !.ack_number = (@ + 1) % SeqModulus,
                            !.delay = 0]
             a == b \cup {"RECEIVED"}
  <2>1. /\ f.kind = "data" /\ config[e].link_establishment_state = active
        /\ line' = [line EXCEPT ![e] = Tail(@)]
    BY <1>16 DEF ReceivePacket, Receiving
  <2>2. /\ d.sequence_number = c.sequence_number /\ d.send_packet = c.send_packet
        /\ d.ack_number = c.ack_number /\ d.sending = c.sending
        /\ d.link_establishment_packet = c.link_establishment_packet
        /\ d.link_establishment_resp = c.link_establishment_resp
        /\ d.link_establishment_state = c.link_establishment_state
        /\ d.receive_packet = FALSE
        /\ d \in Config
    BY <1>1 DEF Config
  <2>3. \/ /\ f.packet.reliable /\ f.seq = config[e].ack_number
           /\ config' = [config EXCEPT ![e] = g]
           /\ poll' = [poll EXCEPT ![e].activity = @ \cup a \cup {"ACK"},
                                   ![e].packet = f.packet]
        \/ /\ ~f.packet.reliable
           /\ config' = [config EXCEPT ![e] = d]
           /\ poll' = [poll EXCEPT ![e].activity = @ \cup a, ![e].packet = f.packet]
    BY <1>16 DEF ReceivePacket
  <2>4. /\ poll'[o] = poll[o] /\ config'[o] = config[o]
        /\ poll'[e].packet = f.packet
        /\ \/ poll'[e].activity = poll[e].activity \cup a \cup {"ACK"}
           \/ poll'[e].activity = poll[e].activity \cup a
    <3> HIDE DEF f, c, b, o, d, g, a
    <3>1. poll[e] \in Poll /\ poll \in [End -> Poll] /\ config \in [End -> Config]
      BY DEF EngineType
    <3> QED
      BY <1>1, <2>3, <3>1 DEF Poll
  <2>5. line'[e] = Tail(line[e]) /\ line'[o] = line[o]
    BY <1>5, <2>1
  <2>6. /\ Acks(e) <=> Acknowledged(config[e], f)
        /\ ~Activates(e)
    BY <2>1 DEF Acks, Activates
  <2>7. Sent(e)' <=> Sent(e) \/ Acks(e)
    <3> HIDE DEF f, b
    <3> QED
      BY <1>2, <2>4, <2>6 DEF Sent
  <2>8. "RECEIVED" \in poll'[e].activity
    <3> HIDE DEF f, b
    <3> QED
      BY <2>4
  <2>9. CASE f.packet.reliable /\ f.seq = config[e].ack_number /\ config' = [config EXCEPT ![e] = g]
    <3>1. /\ g.sequence_number = d.sequence_number /\ g.send_packet = d.send_packet
          /\ g.ack_number = (d.ack_number + 1) % SeqModulus /\ g.sending = d.sending
          /\ g.link_establishment_packet = d.link_establishment_packet
          /\ g.link_establishment_resp = d.link_establishment_resp
          /\ g.link_establishment_state = d.link_establishment_state
          /\ g.receive_packet = FALSE
      <4> HIDE DEF d
      <4> QED
        BY <2>2 DEF Config
    <3> HIDE DEF g, d, c, b
    <3>2. config'[e] = g
      BY <2>9 DEF EngineType
    <3>3. Delivers(e)
      BY <1>3, <2>1, <2>9
    <3>4. Received(e)
      BY <1>2, <2>1, <2>2, <2>5, <2>6, <2>7, <3>1, <3>2, <3>3 DEF Received, Trims
    <3>5. Buffered(e)
      BY <2>4, <2>8, <3>1, <3>2, <3>3 DEF Buffered
    <3> QED
      BY <2>4, <2>5, <3>4, <3>5
  <2>10. CASE ~f.packet.reliable /\ config' = [config EXCEPT ![e] = d]
    <3> HIDE DEF d, c, b
    <3>1. config'[e] = d
      BY <2>10 DEF EngineType
    <3>2. ~Delivers(e)
      BY <1>3, <2>10
    <3>3. Received(e)
      BY <1>2, <2>1, <2>2, <2>5, <2>6, <2>7, <3>1, <3>2 DEF Received, Trims
    <3>4. Buffered(e)
      BY <2>2, <2>4, <2>10, <3>1, <3>2 DEF Buffered
    <3> QED
      BY <2>4, <2>5, <3>3, <3>4
  <2> QED
    BY <2>3, <2>9, <2>10
<1> QED
  BY <1>8, <1>9, <1>10, <1>11, <1>12, <1>13, <1>14, <1>15, <1>16 DEF ReceiveStep

-----------------------------------------------------------------------------
(* The order of data and of acknowledgements in a stream.                  *)

\* DataInOrder, of stream l, x and ack_number a; p: is the last packet, of number
\* i, still to be delivered.
DataOrder(l, x, a, p, i) ==
  IF p
  THEN /\ Without(l, x, {f \in Fresh(a) : f.packet.id # i})
       /\ NeverBehind(l, x, Fresh(a), Stale(a))
       /\ x \notin Stale(a)
  ELSE Without(l, x, Fresh(a))

\* AcksInOrder, of stream l, x, sequence_number s and ack_number a; p: is the
\* last packet delivered and not reported sent; q: is the other end quiet.
AckOrder(l, x, s, a, p, q) ==
  IF p
  THEN /\ Without(l, x, NotAcking(s) \cap NotAcking(a))
       /\ NeverBehind(l, x, Acking(a), NotAcking(a))
       /\ Has(l, Acking(a)) \/ x \in Acking(a) => q
  ELSE Without(l, x, NotAcking(s))

\* Finishing, dropping, losing and damaging frames keeps the order of data.
LEMMA TrimKeepsData ==
  ASSUME NEW l \in Seq(Frame), NEW x \in Frame, NEW l2, NEW x2, Trims(l, x, l2, x2),
         NEW a, NEW i, NEW p \in BOOLEAN, DataOrder(l, x, a, p, i)
  PROVE  DataOrder(l2, x2, a, p, i)
<1>1. \A S, T : /\ NoFrame \notin S /\ BadFrame \notin S
                /\ NoFrame \notin T /\ BadFrame \notin T
        => /\ x2 \in S => x \in S
           /\ Without(l, x, S) => Without(l2, x2, S)
           /\ NeverBehind(l, x, S, T) => NeverBehind(l2, x2, S, T)
  BY TrimKeeps
<1> QED
  BY <1>1, MeaningOf DEF DataOrder

\* And the order of acknowledgements.
LEMMA TrimKeepsAcks ==
  ASSUME NEW l \in Seq(Frame), NEW x \in Frame, NEW l2, NEW x2, Trims(l, x, l2, x2),
         NEW a, NEW s, NEW p \in BOOLEAN, NEW q \in BOOLEAN, AckOrder(l, x, s, a, p, q)
  PROVE  AckOrder(l2, x2, s, a, p, q)
<1>1. \A S, T : /\ NoFrame \notin S /\ BadFrame \notin S
                /\ NoFrame \notin T /\ BadFrame \notin T
        => /\ Has(l2, S) => Has(l, S) \/ x \in S
           /\ x2 \in S => x \in S
           /\ Without(l, x, S) => Without(l2, x2, S)
           /\ NeverBehind(l, x, S, T) => NeverBehind(l2, x2, S, T)
  BY TrimKeeps
<1> QED
  BY <1>1, MeaningOf DEF AckOrder

\* A data frame may start if it is the packet that waits, in its number; or old.
LEMMA StartKeepsData ==
  ASSUME NEW l, NEW y \in Frame, NEW a, NEW p \in BOOLEAN, NEW i,
         DataOrder(l, NoFrame, a, p, i),
         y \in ReliableFrames
           => IF p THEN y.seq = a /\ y.packet.id = i ELSE y.seq # a
  PROVE  DataOrder(l, y, a, p, i)
<1>1. CASE p
  <2>1. y \notin {f \in Fresh(a) : f.packet.id # i} /\ y \notin Stale(a)
    BY <1>1 DEF Fresh, Stale
  <2> QED
    BY <1>1, <2>1, StartKeeps DEF DataOrder
<1>2. CASE ~p
  <2>1. y \notin Fresh(a)
    BY <1>2 DEF Fresh
  <2> QED
    BY <1>2, <2>1, StartKeeps DEF DataOrder
<1> QED
  BY <1>1, <1>2

\* What an engine takes for new is the packet that waits, and behind it there is
\* nothing it will take for new.
LEMMA DeliverKeepsData ==
  ASSUME NEW l \in Seq(Frame), l # <<>>, NEW x \in Frame,
         NEW a \in 0 .. SeqModulus - 1, NEW p \in BOOLEAN, NEW i,
         DataOrder(l, x, a, p, i), Head(l) \in Fresh(a), NEW j
  PROVE  /\ p
         /\ Head(l).packet.id = i
         /\ DataOrder(Tail(l), x, (a + 1) % SeqModulus, FALSE, j)
<1>1. p
  BY HeadOf DEF DataOrder
<1>2. Head(l).packet.id = i
  <2>1. Without(l, x, {f \in Fresh(a) : f.packet.id # i})
    BY <1>1 DEF DataOrder
  <2>2. Head(l) \notin {f \in Fresh(a) : f.packet.id # i}
    BY <2>1, HeadOf
  <2> QED
    BY <2>2
<1>3. Without(Tail(l), x, Stale(a))
  BY <1>1, HeadOf DEF DataOrder
<1>4. Fresh((a + 1) % SeqModulus) \subseteq Stale(a)
  BY NextNumber DEF Fresh, Stale
<1> QED
  BY <1>1, <1>2, <1>3, <1>4, WithoutSubset DEF DataOrder

\* A new packet when nothing on the way is taken for new.
LEMMA SubmitKeepsData ==
  ASSUME NEW l, NEW a, NEW i, NEW j, DataOrder(l, NoFrame, a, FALSE, i)
  PROVE  DataOrder(l, NoFrame, a, TRUE, j)
<1>1. ~Has(l, Fresh(a))
  BY DEF DataOrder, Without
<1>2. {f \in Fresh(a) : f.packet.id # j} \subseteq Fresh(a)
  OBVIOUS
<1>3. NeverBehind(l, NoFrame, Fresh(a), Stale(a))
  BY <1>1 DEF NeverBehind, Has
<1>4. Without(l, NoFrame, Fresh(a))
  BY DEF DataOrder
<1> QED
  BY <1>2, <1>3, <1>4, WithoutSubset, MeaningOf DEF DataOrder

\* A header may start if it has the current ack_number and the end is quiet; or,
\* when that is zero or there are none of those yet, ACK 0.
LEMMA StartKeepsAcks ==
  ASSUME NEW l, NEW y \in Headers, NEW s, NEW a, NEW p \in BOOLEAN, NEW q \in BOOLEAN,
         AckOrder(l, NoFrame, s, a, p, q),
         ~p => a = s,
         \/ y.ack = a /\ q
         \/ y.ack = 0 /\ s = 0 /\ (p => a # 0) /\ ~q
  PROVE  AckOrder(l, y, s, a, p, q)
<1>1. CASE p
  <2>1. y \notin NotAcking(s) \cap NotAcking(a)
    BY DEF NotAcking
  <2>2. CASE y.ack = a /\ q
    <3>1. y \notin NotAcking(a)
      BY <2>2 DEF NotAcking
    <3> QED
      BY <1>1, <2>1, <2>2, <3>1, StartKeeps DEF AckOrder
  <2>3. CASE y.ack = 0 /\ a # 0 /\ ~q
    <3>1. y \notin Acking(a) /\ ~Has(l, Acking(a))
      BY <1>1, <2>3 DEF Acking, AckOrder
    <3> QED
      BY <1>1, <2>1, <2>3, <3>1, StartKeeps DEF AckOrder
  <2> QED
    BY <1>1, <2>2, <2>3
<1>2. CASE ~p
  <2>1. y \notin NotAcking(s)
    BY <1>2 DEF NotAcking
  <2> QED
    BY <1>2, <2>1, StartKeeps DEF AckOrder
<1> QED
  BY <1>1, <1>2

\* A header that acknowledges comes from a quiet end that has the packet, and so
\* do all that come behind it.
LEMMA TakeKeepsAcks ==
  ASSUME NEW l \in Seq(Frame), l # <<>>, NEW x \in Frame,
         NEW s, NEW a, NEW p \in BOOLEAN, NEW q \in BOOLEAN, NEW r,
         AckOrder(l, x, s, a, p, q), Head(l) \in Headers, Head(l).ack # s
  PROVE  /\ p
         /\ q
         /\ Without(Tail(l), x, NotAcking(a))
         /\ AckOrder(Tail(l), x, a, a, FALSE, r)
<1>1. Head(l) \in NotAcking(s)
  BY DEF NotAcking
<1>2. p
  BY <1>1, HeadOf DEF AckOrder
<1>3. Head(l) \in Acking(a)
  <2>1. Without(l, x, NotAcking(s) \cap NotAcking(a))
    BY <1>2 DEF AckOrder
  <2>2. Head(l) \notin NotAcking(s) \cap NotAcking(a)
    BY <2>1, HeadOf
  <2> QED
    BY <1>1, <2>2 DEF NotAcking, Acking
<1>4. q /\ Without(Tail(l), x, NotAcking(a))
  BY <1>2, <1>3, HeadOf DEF AckOrder
<1> QED
  BY <1>2, <1>4 DEF AckOrder

\* The packet is delivered while all on the way have the old number.
LEMMA DeliverKeepsAcks ==
  ASSUME NEW l, NEW x, NEW s \in 0 .. SeqModulus - 1, NEW a, NEW q, NEW r,
         AckOrder(l, x, s, a, FALSE, q)
  PROVE  AckOrder(l, x, s, (s + 1) % SeqModulus, TRUE, r)
<1> DEFINE t == (s + 1) % SeqModulus
<1>1. Without(l, x, NotAcking(s))
  BY DEF AckOrder
<1>2. Acking(t) \subseteq NotAcking(s)
  BY NextNumber DEF Acking, NotAcking
<1>3. NotAcking(s) \cap NotAcking(t) \subseteq NotAcking(s)
  OBVIOUS
<1> HIDE DEF t
<1>4. ~Has(l, Acking(t)) /\ x \notin Acking(t)
  BY <1>1, <1>2, WithoutSubset
<1>5. Without(l, x, NotAcking(s) \cap NotAcking(t))
  BY <1>1, <1>3, WithoutSubset
<1>6. NeverBehind(l, x, Acking(t), NotAcking(t))
  BY <1>4 DEF NeverBehind, Has
<1> QED
  BY <1>4, <1>5, <1>6 DEF AckOrder, t

-----------------------------------------------------------------------------
(* WindowOfOne is inductive.                                               *)

\* The types of what the window is about.
LEMMA WindowTypes ==
  ASSUME TypeOK, NEW e \in End
  PROVE  /\ EngineType
         /\ config[e] \in Config /\ poll[e] \in Poll
         /\ line[e] \in Seq(Frame)
         /\ config[e].sending \in Frame
         /\ config[e].send_packet \in Packet
         /\ config[e].send_packet.reliable \in BOOLEAN
         /\ config[e].sequence_number \in 0 .. SeqModulus - 1
         /\ config[e].ack_number \in 0 .. SeqModulus - 1
         /\ confirmed[e] \in Nat
         /\ submitted[e] \in Seq(Nat) /\ Len(submitted[e]) \in Nat
         /\ delivered[e] \in Seq(Nat) /\ Len(delivered[e]) \in Nat
         /\ Quiet(config[e]) \in BOOLEAN
BY SMTT(30) DEF TypeOK, EngineType, Config, Packet, Quiet

\* DataInOrder and AcksInOrder are the orders of the streams from and to e.
LEMMA OrdersAre ==
  ASSUME NEW e \in End
  PROVE  /\ DataInOrder(e) <=>
              DataOrder(line[Other(e)], config[e].sending, config[Other(e)].ack_number,
                        Len(delivered[Other(e)]) # Len(submitted[e]),
                        submitted[e][Len(submitted[e])])
         /\ AcksInOrder(e) <=>
              AckOrder(line[e], config[Other(e)].sending,
                       config[e].sequence_number, config[Other(e)].ack_number,
                       Len(delivered[Other(e)]) # confirmed[e], Quiet(config[Other(e)]))
BY DEF DataInOrder, DataOrder, AcksInOrder, AckOrder

\* The same after a step.
LEMMA OrdersWillBe ==
  ASSUME NEW e \in End
  PROVE  /\ DataInOrder(e)' <=>
              DataOrder(line'[Other(e)], config'[e].sending, config'[Other(e)].ack_number,
                        Len(delivered'[Other(e)]) # Len(submitted'[e]),
                        submitted'[e][Len(submitted'[e])])
         /\ AcksInOrder(e)' <=>
              AckOrder(line'[e], config'[Other(e)].sending,
                       config'[e].sequence_number, config'[Other(e)].ack_number,
                       Len(delivered'[Other(e)]) # confirmed'[e], Quiet(config'[Other(e)]))
BY DEF DataInOrder, DataOrder, AcksInOrder, AckOrder

\* Losing or damaging a frame keeps the window.
LEMMA NoiseKeepsWindow ==
  ASSUME TypeOK, WindowOfOne, NEW n \in End, Noise(n)
  PROVE  WindowOfOne'
<1>1. /\ UNCHANGED <<config, poll, outstanding, mayCall, submitted, delivered, confirmed>>
      /\ \A y \in End : \A z \in Frame : Trims(line[y], z, line'[y], z)
  BY DEF Noise, callerVars, Trims, TypeOK
<1> SUFFICES ASSUME NEW e \in End
             PROVE  /\ CallerInStep(e)' /\ Counted(e)' /\ DataInOrder(e)'
                    /\ AcksInOrder(e)' /\ EstablishmentOver(e)'
  BY DEF WindowOfOne
<1> DEFINE o == Other(e)
           l == line[o]
           m == line[e]
           x == config[e].sending
           z == config[o].sending
<1>2. /\ CallerInStep(e) /\ Counted(e) /\ DataInOrder(e) /\ AcksInOrder(e)
      /\ EstablishmentOver(e) /\ o \in End
  BY Ends DEF WindowOfOne
<1>3. /\ l \in Seq(Frame) /\ m \in Seq(Frame) /\ x \in Frame /\ z \in Frame
      /\ Trims(l, x, line'[o], x) /\ Trims(m, z, line'[e], z)
      /\ config' = config /\ x' = x /\ z' = z
  BY <1>1, <1>2, WindowTypes
<1>4. CallerInStep(e)' /\ Counted(e)'
  BY <1>1, <1>2 DEF CallerInStep, Counted, Sent
<1>5. DataInOrder(e)' /\ AcksInOrder(e)'
  <2> DEFINE p == Len(delivered[o]) # Len(submitted[e])
             p2 == Len(delivered[o]) # confirmed[e]
  <2>2. p \in BOOLEAN /\ p2 \in BOOLEAN /\ Quiet(config[o]) \in BOOLEAN
    BY DEF Quiet
  <2> HIDE DEF l, m, x, z, p, p2
  <2>3. DataOrder(line'[o], x, config[o].ack_number, p, submitted[e][Len(submitted[e])])
    <3>1. DataOrder(l, x, config[o].ack_number, p, submitted[e][Len(submitted[e])])
      BY <1>2, OrdersAre DEF l, x, p
    <3> QED
      BY <1>3, <2>2, <3>1, TrimKeepsData
  <2>4. AckOrder(line'[e], z, config[e].sequence_number, config[o].ack_number, p2,
                 Quiet(config[o]))
    <3>1. AckOrder(m, z, config[e].sequence_number, config[o].ack_number, p2, Quiet(config[o]))
      BY <1>2, OrdersAre DEF m, z, p2
    <3> QED
      BY <1>3, <2>2, <3>1, TrimKeepsAcks
  <2> QED
    BY <1>1, <2>3, <2>4, OrdersWillBe DEF x, z, p, p2
<1>6. EstablishmentOver(e)'
  <2> HIDE DEF l, m, x, z, o
  <2>1. /\ Without(m, z, LeFrames \cap NotAcking(0))
           => Without(line'[e], z, LeFrames \cap NotAcking(0))
        /\ Without(m, z, LeFrames) => Without(line'[e], z, LeFrames)
    BY <1>3, MeaningOf, TrimKeeps, ZenonT(30)
  <2>2. /\ NeverBehind(l, x, DataFrames, ConfFrames)
           => NeverBehind(line'[o], x, DataFrames, ConfFrames)
        /\ Has(line'[o], DataFrames) => Has(l, DataFrames) \/ x \in DataFrames
        /\ Without(l, x, ConfFrames) => Without(line'[o], x, ConfFrames)
    BY <1>3, MeaningOf, TrimKeeps
  <2> QED
    BY <1>1, <1>2, <2>1, <2>2 DEF EstablishmentOver, l, m, x, z, o
<1> QED
  BY <1>4, <1>5, <1>6

\* A frame taken at e: what it does to the engine and to the histories.
LEMMA ReceiveHistory ==
  ASSUME TypeOK, Handshake, WindowOfOne, NEW e \in End, Receive(e)
  PROVE  /\ line[e] # <<>>
         /\ Head(line[e]) \in Frame
         /\ Head(line[e]).kind # "none"
         /\ line'[e] = Tail(line[e])
         /\ config'[Other(e)] = config[Other(e)]
         /\ poll'[Other(e)] = poll[Other(e)]
         /\ config[e].receive_packet
         /\ Received(e)
         /\ Buffered(e)
         /\ UNCHANGED <<outstanding, mayCall, packets, submitted>>
         /\ confirmed'[e] = IF Acks(e) THEN confirmed[e] + 1 ELSE confirmed[e]
         /\ confirmed'[Other(e)] = confirmed[Other(e)]
         /\ delivered'[e] = IF Delivers(e)
                            THEN Append(delivered[e], Head(line[e]).packet.id)
                            ELSE delivered[e]
         /\ delivered'[Other(e)] = delivered[Other(e)]
<1>1. EngineType /\ Other(e) \in End /\ Other(e) # e
  BY WindowTypes, Ends
<1>2. /\ line[e] # <<>>
      /\ Head(line[e]) \in Frame
      /\ Head(line[e]).kind # "none"
      /\ line'[e] = Tail(line[e])
      /\ config'[Other(e)] = config[Other(e)]
      /\ poll'[Other(e)] = poll[Other(e)]
      /\ config[e].receive_packet
      /\ Received(e)
      /\ Buffered(e)
  <2>1. ~ReceivePeerReset(e)
    BY <1>1, NoResetAtActive DEF Handshake
  <2> QED
    BY <1>1, <2>1, ReceiveEffect DEF Receive
<1>3. CallerInStep(e)
  BY DEF WindowOfOne
<1> DEFINE new == poll'[e].activity \ poll[e].activity
<1>4. /\ UNCHANGED <<outstanding, mayCall, packets, submitted>>
      /\ confirmed' = [confirmed EXCEPT ![e] =
                         IF "SENT" \in new /\ outstanding[e].reliable THEN @ + 1 ELSE @]
      /\ delivered' = [delivered EXCEPT ![e] =
                         IF "RECEIVED" \in new /\ poll'[e].packet.reliable
                         THEN Append(@, poll'[e].packet.id) ELSE @]
  BY DEF Receive, callerVars
<1>5. "SENT" \in new /\ outstanding[e].reliable <=> Acks(e)
  <2>1. "SENT" \in new <=> Sent(e)' /\ ~Sent(e)
    BY DEF Sent
  <2>2. Sent(e)' <=> Sent(e) \/ Acks(e) \/ Activates(e)
    BY <1>2 DEF Received
  <2>3. Acks(e) => ~Sent(e) /\ outstanding[e].reliable
    BY <1>3 DEF Acks, Acknowledged, CallerInStep
  <2>4. Activates(e) => ~outstanding[e].reliable
    BY <1>3 DEF Activates, CallerInStep, NoPacket
  <2> QED
    BY <2>1, <2>2, <2>3, <2>4
<1>6. /\ "RECEIVED" \in new /\ poll'[e].packet.reliable <=> Delivers(e)
      /\ Delivers(e) => poll'[e].packet = Head(line[e]).packet
  <2>1. "RECEIVED" \notin poll[e].activity
    BY <1>2, <1>3 DEF CallerInStep
  <2>2. Delivers(e) => Head(line[e]).packet.reliable
    BY DEF Delivers, Fresh, ReliableFrames
  <2> QED
    BY <1>2, <2>1, <2>2 DEF Buffered
<1> HIDE DEF new
<1>7. /\ confirmed'[e] = IF Acks(e) THEN confirmed[e] + 1 ELSE confirmed[e]
      /\ confirmed'[Other(e)] = confirmed[Other(e)]
  BY <1>1, <1>4, <1>5 DEF TypeOK
<1>8. /\ delivered'[e] = IF Delivers(e)
                         THEN Append(delivered[e], Head(line[e]).packet.id)
                         ELSE delivered[e]
      /\ delivered'[Other(e)] = delivered[Other(e)]
  BY <1>1, <1>4, <1>6 DEF TypeOK
<1> QED
  BY <1>2, <1>4, <1>7, <1>8

\* What an acknowledgement tells: the last packet has come out at an end that is
\* quiet, and nothing behind it acknowledges the next one.
LEMMA AckTells ==
  ASSUME TypeOK, WindowOfOne, NEW e \in End, Acks(e),
         line[e] # <<>>, Head(line[e]) \in Frame, Head(line[e]).kind # "none",
         NEW o \in End, o = Other(e), NEW z \in Frame, z = config[o].sending,
         NEW a, a = config[o].ack_number, NEW n \in Nat, n = confirmed[e],
         NEW q \in BOOLEAN, q = Quiet(config[o])
  PROVE  /\ Len(delivered[o]) = n + 1
         /\ Len(submitted[e]) = n + 1
         /\ a = (config[e].sequence_number + 1) % SeqModulus
         /\ q
         /\ Without(Tail(line[e]), z, NotAcking(a))
         /\ AckOrder(Tail(line[e]), z, a, a, FALSE, q)
<1> DEFINE f == Head(line[e])
           t == line[e]
           s == config[e].sequence_number
           k == Len(delivered[o])
           m == Len(submitted[e])
           pa == k # n
<1>1. /\ Counted(e) /\ AcksInOrder(e)
      /\ t \in Seq(Frame) /\ s \in 0 .. SeqModulus - 1 /\ k \in Nat /\ m \in Nat
      /\ pa \in BOOLEAN
  BY WindowTypes DEF WindowOfOne
<1>2. f \in Headers /\ f.ack # s /\ config[e].send_packet.reliable
  BY DEF Acks, Acknowledged, Headers
<1>3. AckOrder(t, z, s, a, pa, q)
  BY <1>1, OrdersAre
<1>4. /\ pa
      /\ q
      /\ Without(Tail(t), z, NotAcking(a))
      /\ AckOrder(Tail(t), z, a, a, FALSE, q)
  <2>1. Head(t) \in Headers /\ Head(t).ack # s /\ t # <<>>
    BY <1>2
  <2> HIDE DEF s, pa, t
  <2> QED
    BY <1>1, <1>3, <2>1, TakeKeepsAcks, ZenonT(30)
<1>5. n <= k /\ k <= m /\ m <= n + 1 /\ m = n + 1
  BY <1>1, <1>2 DEF Counted
<1>6. a = (s + 1) % SeqModulus
  BY <1>1, <1>4 DEF Counted
<1>7. k = n + 1 /\ m = n + 1
  <2> HIDE DEF k, m
  <2> QED
    BY <1>1, <1>4, <1>5 DEF pa
<1> QED
  BY <1>4, <1>6, <1>7

\* A frame taken at e keeps the direction from e, whose acknowledgements it may
\* carry.
LEMMA ReceiveKeepsOwn ==
  ASSUME TypeOK, Handshake, WindowOfOne, NEW e \in End, Receive(e)
  PROVE  /\ CallerInStep(e)' /\ Counted(e)' /\ DataInOrder(e)'
         /\ AcksInOrder(e)' /\ EstablishmentOver(e)'
<1> DEFINE o == Other(e)
           f == Head(line[e])
           l == line[o]
           t == line[e]
           x == config[e].sending
           z == config[o].sending
           a == config[o].ack_number
           s == config[e].sequence_number
           n == confirmed[e]
           k == Len(delivered[o])
           m == Len(submitted[e])
           i == submitted[e][m]
           q == Quiet(config[o])
           pd == k # m
           pa == k # n
<1>1. /\ CallerInStep(e) /\ Counted(e) /\ DataInOrder(e) /\ AcksInOrder(e)
      /\ EstablishmentOver(e) /\ o \in End /\ o # e
  BY Ends DEF WindowOfOne
<1>2. /\ l \in Seq(Frame) /\ t \in Seq(Frame) /\ x \in Frame /\ z \in Frame
      /\ a \in 0 .. SeqModulus - 1 /\ s \in 0 .. SeqModulus - 1
      /\ n \in Nat /\ k \in Nat /\ m \in Nat
      /\ q \in BOOLEAN /\ pd \in BOOLEAN /\ pa \in BOOLEAN
  BY <1>1, WindowTypes
<1>3. /\ t # <<>> /\ f \in Frame /\ f.kind # "none" /\ line'[e] = Tail(t)
      /\ config'[o] = config[o] /\ poll'[o] = poll[o]
      /\ config[e].receive_packet /\ Received(e) /\ Buffered(e)
      /\ UNCHANGED <<outstanding, mayCall, packets, submitted>>
      /\ confirmed'[e] = IF Acks(e) THEN n + 1 ELSE n
      /\ delivered'[o] = delivered[o]
  BY ReceiveHistory
<1>4. Trims(l, x, line'[o], config'[e].sending)
  BY <1>3 DEF Received
<1>5. CallerInStep(e)'
  <2>1. config'[e].send_packet = IF Acks(e) THEN NoPacket ELSE config[e].send_packet
    BY <1>3 DEF Received
  <2>2. Sent(e)' <=> Sent(e) \/ Acks(e) \/ Activates(e)
    BY <1>3 DEF Received
  <2>3. config'[e].link_establishment_state = active
          <=> config[e].link_establishment_state = active \/ Activates(e)
    BY <1>3 DEF Received
  <2>4. "RECEIVED" \in poll'[e].activity => ~config'[e].receive_packet
    BY <1>1, <1>3 DEF Buffered, CallerInStep
  <2>5. Activates(e) => config[e].send_packet = NoPacket
    BY <1>1 DEF Activates, CallerInStep
  <2>6. Acks(e) => config[e].link_establishment_state = active
    BY <1>1 DEF Acks, Acknowledged, CallerInStep
  <2>7. mayCall[e]' \/ Sent(e)' => config'[e].send_packet = NoPacket
    BY <1>1, <1>3, <2>1, <2>2, <2>5 DEF CallerInStep
  <2>8. config'[e].send_packet # NoPacket => outstanding'[e] = config'[e].send_packet
    BY <1>1, <1>3, <2>1 DEF CallerInStep
  <2>9. config'[e].link_establishment_state # active
          => /\ config'[e].send_packet = NoPacket
             /\ outstanding'[e] = NoPacket
             /\ ~mayCall[e]'
             /\ ~Sent(e)'
    BY <1>1, <1>3, <2>1, <2>2, <2>3, <2>6 DEF CallerInStep
  <2> QED
    BY <2>4, <2>7, <2>8, <2>9 DEF CallerInStep
<1>6. /\ DataOrder(l, x, a, pd, i)
      /\ AckOrder(t, z, s, a, pa, q)
  BY <1>1, OrdersAre
<1>7. DataInOrder(e)'
  <2>1. DataOrder(line'[o], config'[e].sending, a, pd, i)
    <3> HIDE DEF a, pd, i, l, x, o
    <3> QED
      BY <1>2, <1>4, <1>6, TrimKeepsData
  <2> QED
    BY <1>3, <2>1, OrdersWillBe
<1>8. ASSUME Acks(e)
      PROVE  /\ k = n + 1 /\ m = n + 1 /\ a = (s + 1) % SeqModulus
             /\ q
             /\ Without(Tail(t), z, NotAcking(a))
             /\ AckOrder(Tail(t), z, a, a, FALSE, q)
  BY <1>1, <1>2, <1>3, <1>8, AckTells, ZenonT(30)
<1>9. Counted(e)'
  <2>1. /\ config'[e].sequence_number = IF Acks(e) THEN (s + 1) % SeqModulus ELSE s
        /\ config'[e].send_packet = IF Acks(e) THEN NoPacket ELSE config[e].send_packet
    BY <1>3 DEF Received
  <2>2. CASE Acks(e)
    BY <1>2, <1>3, <1>8, <2>1, <2>2 DEF Counted, NoPacket
  <2>3. CASE ~Acks(e)
    BY <1>1, <1>3, <2>1, <2>3 DEF Counted
  <2> QED
    BY <2>2, <2>3
<1>10. AcksInOrder(e)'
  <2>1. config'[e].sequence_number = IF Acks(e) THEN (s + 1) % SeqModulus ELSE s
    BY <1>3 DEF Received
  <2>2. CASE Acks(e)
    <3>1. /\ config'[e].sequence_number = a
          /\ confirmed'[e] = k
          /\ AckOrder(Tail(t), z, a, a, FALSE, q)
      BY <1>3, <1>8, <2>1, <2>2
    <3>2. (Len(delivered'[o]) # confirmed'[e]) = FALSE
      BY <1>3, <3>1
    <3> QED
      BY <1>3, <3>1, <3>2, OrdersWillBe
  <2>3. CASE ~Acks(e)
    <3>1. AckOrder(line'[e], z, s, a, pa, q)
      <4>1. Trims(t, z, line'[e], z)
        BY <1>3 DEF Trims
      <4> HIDE DEF t, z, s, a, pa, q
      <4> QED
        BY <1>2, <1>6, <4>1, TrimKeepsAcks
    <3> QED
      BY <1>3, <2>1, <2>3, <3>1, OrdersWillBe
  <2> QED
    BY <2>2, <2>3
<1>11. EstablishmentOver(e)'
  <2>1. /\ Without(t, z, LeFrames \cap NotAcking(0))
           => Without(line'[e], z, LeFrames \cap NotAcking(0))
        /\ Without(t, z, LeFrames) => Without(line'[e], z, LeFrames)
    <3>1. Trims(t, z, line'[e], z)
      BY <1>3 DEF Trims
    <3> HIDE DEF t, z
    <3> QED
      BY <1>2, <3>1, MeaningOf, TrimKeeps
  <2>2. /\ NeverBehind(l, x, DataFrames, ConfFrames)
           => NeverBehind(line'[o], config'[e].sending, DataFrames, ConfFrames)
        /\ Has(line'[o], DataFrames) => Has(l, DataFrames) \/ x \in DataFrames
        /\ config'[e].sending \in DataFrames => x \in DataFrames
        /\ Without(l, x, ConfFrames) => Without(line'[o], config'[e].sending, ConfFrames)
    <3>1. \A S, T : /\ NoFrame \notin S /\ BadFrame \notin S
                    /\ NoFrame \notin T /\ BadFrame \notin T
            => /\ Has(line'[o], S) => Has(l, S) \/ x \in S
               /\ config'[e].sending \in S => x \in S
               /\ Without(l, x, S) => Without(line'[o], config'[e].sending, S)
               /\ NeverBehind(l, x, S, T) => NeverBehind(line'[o], config'[e].sending, S, T)
      <4> HIDE DEF l, x, o
      <4> QED
        BY <1>2, <1>4, TrimKeeps
    <3> HIDE DEF l, x, o
    <3> QED
      BY <3>1, MeaningOf
  <2>3. config'[e].link_establishment_packet = config[e].link_establishment_packet
    BY <1>3 DEF Received
  <2>4. confirmed'[e] > 0 => Without(line'[e], z, LeFrames) /\ q
    <3>1. CASE n > 0
      <4>1. confirmed[e] > 0
        BY <3>1
      <4>2. Without(t, z, LeFrames) /\ q
        BY <1>1, <4>1 DEF EstablishmentOver
      <4> QED
        BY <2>1, <4>2
    <3>2. CASE Acks(e) /\ n = 0
      <4>1. s = 0 /\ a # 0
        <5>1. s = 0
          BY <1>1, <3>2 DEF Counted
        <5> QED
          BY <1>2, <1>8, <3>2, <5>1, NextNumber
      <4>2. Without(line'[e], z, LeFrames \cap NotAcking(0))
        BY <1>1, <2>1 DEF EstablishmentOver
      <4>3. Without(line'[e], z, NotAcking(a))
        BY <1>3, <1>8, <3>2
      <4>4. LeFrames \subseteq (LeFrames \cap NotAcking(0)) \cup NotAcking(a)
        <5> HIDE DEF a
        <5> QED
          BY <4>1 DEF LeFrames, LeMessage, NotAcking, Headers
      <4>5. Without(line'[e], z, LeFrames)
        <5> HIDE DEF a, z
        <5> QED
          BY <4>2, <4>3, <4>4 DEF Without, Has
      <4> QED
        BY <1>8, <3>2, <4>5
    <3> HIDE DEF n
    <3> QED
      BY <1>2, <1>3, <3>1, <3>2
  <2> QED
    BY <1>1, <1>3, <2>1, <2>2, <2>3, <2>4 DEF EstablishmentOver
<1> QED
  BY <1>5, <1>7, <1>9, <1>10, <1>11

\* What a delivery tells: it is the last packet, the only one not yet delivered,
\* and nothing behind it is taken for new.
LEMMA DeliveryTells ==
  ASSUME TypeOK, WindowOfOne, NEW e \in End, Delivers(e), line[e] # <<>>,
         NEW o \in End, o = Other(e)
  PROVE  /\ Len(delivered[e]) = confirmed[o]
         /\ Len(submitted[o]) = confirmed[o] + 1
         /\ config[e].ack_number = config[o].sequence_number
         /\ Head(line[e]).packet.id = submitted[o][Len(submitted[o])]
         /\ DataOrder(Tail(line[e]), config[o].sending,
                      (config[e].ack_number + 1) % SeqModulus, FALSE,
                      submitted[o][Len(submitted[o])])
<1> DEFINE l == line[e]
           x == config[o].sending
           a == config[e].ack_number
           n == confirmed[o]
           k == Len(delivered[e])
           m == Len(submitted[o])
           i == submitted[o][m]
           pd == k # m
<1>1. /\ Counted(o) /\ DataInOrder(o) /\ Other(o) = e
      /\ l \in Seq(Frame) /\ x \in Frame /\ a \in 0 .. SeqModulus - 1
      /\ n \in Nat /\ k \in Nat /\ m \in Nat /\ pd \in BOOLEAN
  BY WindowTypes, Ends DEF WindowOfOne
<1>2. Head(l) \in Fresh(a) /\ l # <<>>
  BY DEF Delivers
<1>3. DataOrder(l, x, a, pd, i)
  BY <1>1, OrdersAre
<1>4. /\ pd
      /\ Head(l).packet.id = i
      /\ DataOrder(Tail(l), x, (a + 1) % SeqModulus, FALSE, i)
  <2> HIDE DEF a, pd, i, l, x
  <2> QED
    BY <1>1, <1>2, <1>3, DeliverKeepsData
<1>5. k = n /\ m = n + 1
  <2>1. n <= k /\ k <= m /\ m <= n + 1
    BY <1>1 DEF Counted
  <2> HIDE DEF k, n, m
  <2> QED
    BY <1>1, <1>4, <2>1 DEF pd
<1>6. a = config[o].sequence_number
  BY <1>1, <1>5 DEF Counted
<1> QED
  BY <1>4, <1>5, <1>6

\* A frame taken at e keeps the direction to e, whose data it may carry.
LEMMA ReceiveKeepsOther ==
  ASSUME TypeOK, Handshake, WindowOfOne, NEW e \in End, Receive(e),
         NEW o \in End, o = Other(e)
  PROVE  /\ CallerInStep(o)' /\ Counted(o)' /\ DataInOrder(o)'
         /\ AcksInOrder(o)' /\ EstablishmentOver(o)'
<1> DEFINE f == Head(line[e])
           l == line[e]
           t == line[o]
           x == config[o].sending
           z == config[e].sending
           a == config[e].ack_number
           s == config[o].sequence_number
           n == confirmed[o]
           k == Len(delivered[e])
           m == Len(submitted[o])
           i == submitted[o][m]
           q == Quiet(config[e])
           pd == k # m
           pa == k # n
<1>1. /\ CallerInStep(o) /\ Counted(o) /\ DataInOrder(o) /\ AcksInOrder(o)
      /\ EstablishmentOver(o) /\ Other(o) = e /\ o # e
  BY Ends DEF WindowOfOne
<1>2. /\ l \in Seq(Frame) /\ t \in Seq(Frame) /\ x \in Frame /\ z \in Frame
      /\ a \in 0 .. SeqModulus - 1 /\ s \in 0 .. SeqModulus - 1
      /\ n \in Nat /\ k \in Nat /\ m \in Nat
      /\ q \in BOOLEAN /\ pd \in BOOLEAN /\ pa \in BOOLEAN
      /\ delivered[e] \in Seq(Nat) /\ f.packet.id \in Nat
  <2>1. f \in Frame
    BY ReceiveHistory
  <2> QED
    BY <1>1, <2>1, WindowTypes DEF Frame, Packet
<1>3. /\ l # <<>> /\ f \in Frame /\ f.kind # "none" /\ line'[e] = Tail(l)
      /\ config'[o] = config[o] /\ poll'[o] = poll[o]
      /\ Received(e)
      /\ UNCHANGED <<outstanding, mayCall, packets, submitted>>
      /\ confirmed'[o] = confirmed[o]
      /\ delivered'[e] = IF Delivers(e) THEN Append(delivered[e], f.packet.id) ELSE delivered[e]
  BY ReceiveHistory
<1>4. /\ config'[e].ack_number = IF Delivers(e) THEN (a + 1) % SeqModulus ELSE a
      /\ Trims(t, z, line'[o], config'[e].sending)
      /\ config'[e].link_establishment_packet = config[e].link_establishment_packet
      /\ config'[e].link_establishment_resp = 2
           => config[e].link_establishment_resp = 2 \/ f.kind = "conf"
  BY <1>1, <1>3 DEF Received
<1>5. CallerInStep(o)'
  BY <1>1, <1>3 DEF CallerInStep, Sent
<1>6. /\ DataOrder(l, x, a, pd, i)
      /\ AckOrder(t, z, s, a, pa, q)
  BY <1>1, OrdersAre
<1>7. ASSUME Delivers(e)
      PROVE  /\ k = n /\ m = n + 1 /\ a = s
             /\ f.packet.id = i
             /\ DataOrder(Tail(l), x, (a + 1) % SeqModulus, FALSE, i)
             /\ Len(delivered'[e]) = k + 1
  <2>1. /\ k = n /\ m = n + 1 /\ a = s
        /\ f.packet.id = i
        /\ DataOrder(Tail(l), x, (a + 1) % SeqModulus, FALSE, i)
    BY <1>3, <1>7, DeliveryTells
  <2>2. Len(delivered'[e]) = k + 1
    BY <1>2, <1>3, <1>7
  <2> QED
    BY <2>1, <2>2
<1>8. Counted(o)'
  <2>1. CASE Delivers(e)
    <3> HIDE DEF a
    <3>1. /\ Len(delivered'[e]) = n + 1 /\ m = n + 1
          /\ config'[e].ack_number = (s + 1) % SeqModulus
      BY <1>4, <1>7, <2>1
    <3>2. /\ config[o].send_packet.reliable <=> m = n + 1
          /\ config[o].send_packet.reliable => config[o].send_packet.id = i
          /\ n = 0 => s = 0
      BY <1>1 DEF Counted
    <3>3. n <= n + 1 /\ n + 1 # n /\ n + 1 <= n + 1
      <4> HIDE DEF n
      <4> QED
        BY <1>2
    <3> QED
      BY <1>1, <1>3, <3>1, <3>2, <3>3 DEF Counted
  <2>2. CASE ~Delivers(e)
    BY <1>1, <1>3, <1>4, <2>2 DEF Counted
  <2> QED
    BY <2>1, <2>2
<1>9. DataInOrder(o)'
  <2>1. CASE Delivers(e)
    <3>1. (Len(delivered'[e]) # m) = FALSE
      BY <1>7, <2>1
    <3> QED
      BY <1>1, <1>3, <1>4, <1>7, <2>1, <3>1, OrdersWillBe, ZenonT(30)
  <2>2. CASE ~Delivers(e)
    <3>1. DataOrder(line'[e], x, a, pd, i)
      <4>1. Trims(l, x, line'[e], x)
        BY <1>3 DEF Trims
      <4> HIDE DEF a, pd, i, l, x
      <4> QED
        BY <1>2, <1>6, <4>1, TrimKeepsData
    <3> QED
      BY <1>1, <1>3, <1>4, <2>2, <3>1, OrdersWillBe
  <2> QED
    BY <2>1, <2>2
<1>10. delivered'[e] # <<>> => Without(line'[e], x, ConfFrames) /\ config[o].link_establishment_packet = "none"
  <2>1. CASE Delivers(e)
    <3>1. Head(l) \in DataFrames /\ l # <<>>
      BY <1>3, <2>1 DEF Delivers, Fresh, ReliableFrames
    <3>2. Has(l, DataFrames)
      <4> HIDE DEF l
      <4> QED
        BY <1>2, <3>1, HeadOf
    <3>3. NeverBehind(l, x, DataFrames, ConfFrames)
      BY <1>1 DEF EstablishmentOver
    <3>4. Without(Tail(l), x, ConfFrames)
      <4> HIDE DEF l, x
      <4> QED
        BY <1>2, <3>1, <3>3, HeadOf
    <3> QED
      BY <1>1, <1>3, <3>2, <3>4 DEF EstablishmentOver
  <2>2. CASE ~Delivers(e) /\ delivered[e] # <<>>
    <3>1. Without(l, x, ConfFrames) /\ config[o].link_establishment_packet = "none"
      BY <1>1, <2>2 DEF EstablishmentOver
    <3>2. Trims(l, x, line'[e], x)
      BY <1>3 DEF Trims
    <3>3. Without(line'[e], x, ConfFrames)
      <4> HIDE DEF l, x
      <4> QED
        BY <1>2, <3>1, <3>2, MeaningOf, TrimKeeps
    <3> QED
      BY <3>1, <3>3
  <2> QED
    BY <1>3, <2>1, <2>2
\* A CONF no longer comes once a packet came: what was quiet stays quiet.
<1>11. delivered[e] # <<>> => (q => Quiet(config'[e]))
  <2>1. delivered[e] # <<>> => f \notin ConfFrames
    <3>1. delivered[e] # <<>> => Without(l, x, ConfFrames)
      BY <1>1 DEF EstablishmentOver
    <3> HIDE DEF l, x
    <3> QED
      BY <1>2, <1>3, <3>1, HeadOf DEF l
  <2>2. f.kind = "conf" => f \in ConfFrames
    BY <1>3 DEF ConfFrames
  <2> QED
    BY <1>4, <2>1, <2>2 DEF Quiet
<1>12. k > 0 <=> delivered[e] # <<>>
  BY <1>2
<1>13. AcksInOrder(o)'
  <2>1. CASE Delivers(e)
    <3>1. AckOrder(t, z, s, s, FALSE, q)
      BY <1>6, <1>7, <2>1 DEF AckOrder
    <3> DEFINE q2 == Quiet(config'[e])
    <3>2. AckOrder(t, z, s, (s + 1) % SeqModulus, TRUE, q2)
      <4> HIDE DEF t, z, s, q, q2
      <4> QED
        BY <1>2, <3>1, DeliverKeepsAcks
    <3>3. q2 \in BOOLEAN
      BY DEF Quiet
    <3>4. AckOrder(line'[o], config'[e].sending, s, (s + 1) % SeqModulus, TRUE, q2)
      <4> DEFINE b == (s + 1) % SeqModulus
                 x2 == config'[e].sending
      <4>1. Trims(t, z, line'[o], x2) /\ AckOrder(t, z, s, b, TRUE, q2)
        BY <1>4, <3>2
      <4> HIDE DEF t, z, s, b, q2, x2
      <4>2. \A p \in BOOLEAN : AckOrder(t, z, s, b, p, q2) => AckOrder(line'[o], x2, s, b, p, q2)
        BY <1>2, <3>3, <4>1, TrimKeepsAcks
      <4>3. AckOrder(line'[o], x2, s, b, TRUE, q2)
        BY <4>1, <4>2, Zenon
      <4> QED
        BY <4>3 DEF b, x2
    <3>5. (Len(delivered'[e]) # confirmed'[o]) = TRUE
      BY <1>2, <1>3, <1>7, <2>1
    <3>6. config'[e].ack_number = (s + 1) % SeqModulus
      BY <1>4, <1>7, <2>1
    <3> QED
      BY <1>1, <1>3, <3>4, <3>5, <3>6, OrdersWillBe
  <2>2. CASE ~Delivers(e)
    <3> DEFINE q2 == Quiet(config'[e])
    <3>1. q2 \in BOOLEAN
      BY DEF Quiet
    <3>2. pa => delivered[e] # <<>>
      <4>1. n <= k
        BY <1>1 DEF Counted
      <4>2. pa => k > 0
        <5> HIDE DEF n, k
        <5> QED
          BY <1>2, <4>1 DEF pa
      <4> QED
        BY <1>12, <4>2
    <3>3. AckOrder(t, z, s, a, pa, q2)
      <4>1. pa => (q => q2)
        BY <1>11, <3>2
      <4> HIDE DEF q, q2, pa, a, s, t, z
      <4> QED
        BY <1>2, <1>6, <3>1, <4>1 DEF AckOrder
    <3>4. AckOrder(line'[o], config'[e].sending, s, a, pa, q2)
      <4> HIDE DEF t, z, s, a, pa, q2
      <4> QED
        BY <1>2, <1>4, <3>1, <3>3, TrimKeepsAcks
    <3> QED
      BY <1>1, <1>3, <1>4, <2>2, <3>4, OrdersWillBe
  <2> QED
    BY <2>1, <2>2
<1>14. EstablishmentOver(o)'
  <2>1. /\ Without(t, z, LeFrames \cap NotAcking(0))
           => Without(line'[o], config'[e].sending, LeFrames \cap NotAcking(0))
        /\ Without(t, z, LeFrames) => Without(line'[o], config'[e].sending, LeFrames)
    <3> DEFINE x2 == config'[e].sending
    <3>1. Trims(t, z, line'[o], x2)
      BY <1>4
    <3> HIDE DEF t, z, x2
    <3>2. \A S : NoFrame \notin S /\ BadFrame \notin S
                 => (Without(t, z, S) => Without(line'[o], x2, S))
      BY <1>2, <3>1, TrimKeeps, ZenonT(30)
    <3>3. /\ Without(t, z, LeFrames \cap NotAcking(0))
             => Without(line'[o], x2, LeFrames \cap NotAcking(0))
          /\ Without(t, z, LeFrames) => Without(line'[o], x2, LeFrames)
      BY <3>2, MeaningOf
    <3> QED
      BY <3>3 DEF x2
  <2>2. /\ NeverBehind(l, x, DataFrames, ConfFrames)
           => NeverBehind(line'[e], x, DataFrames, ConfFrames)
        /\ Has(line'[e], DataFrames) => Has(l, DataFrames) \/ x \in DataFrames
    <3>1. Trims(l, x, line'[e], x)
      BY <1>3 DEF Trims
    <3> HIDE DEF l, x
    <3> QED
      BY <1>2, <3>1, MeaningOf, TrimKeeps
  <2>3. n > 0 => Quiet(config'[e]) /\ Without(t, z, LeFrames)
    <3>1. n <= k
      BY <1>1 DEF Counted
    <3>2. n > 0 => delivered[e] # <<>>
      <4> HIDE DEF n, k
      <4> QED
        BY <1>2, <1>12, <3>1
    <3>3. n > 0 => q /\ Without(t, z, LeFrames)
      BY <1>1 DEF EstablishmentOver
    <3> QED
      BY <1>11, <3>2, <3>3
  <2> QED
    BY <1>1, <1>3, <1>10, <2>1, <2>2, <2>3 DEF EstablishmentOver
<1> QED
  BY <1>5, <1>8, <1>9, <1>13, <1>14

\* What starts: an establishment header, with ACK 0, from an end that is not
\* quiet; else a header with the current ack_number.
LEMMA StartedFrame ==
  ASSUME NEW e \in End, NEW c \in Config, NEW w, NEW y \in Frame, Starts(e, c, w, y)
  PROVE  /\ y \in Headers
         /\ y \in ReliableFrames
              => /\ c.send_packet.reliable
                 /\ y.seq = c.sequence_number /\ y.packet = c.send_packet
         /\ Quiet(c) => y.ack = c.ack_number /\ y \notin LeFrames
         /\ ~Quiet(c) => y.ack = 0
         /\ y \in ConfFrames => c.link_establishment_packet # "none"
         /\ y \in DataFrames => c.link_establishment_packet = "none"
         /\ c.link_establishment_packet = "none"
              => config'[e].link_establishment_packet = "none"
         /\ Quiet(c) => Quiet(config'[e])
<1>1. CASE ~Quiet(c)
  <2>1. PICK k \in LeMessage : y = LeFrame(k)
    BY <1>1 DEF Starts
  <2>2. y.kind = k /\ y.ack = 0
    BY <2>1 DEF LeFrame
  <2> QED
    BY <1>1, <2>1, <2>2
    DEF Starts, Headers, ReliableFrames, DataFrames, ConfFrames, LeMessage
<1>2. CASE Quiet(c)
  <2>1. y = AckFrame(c) \/ y = DataFrame(c)
    BY <1>2 DEF Starts
  <2>2. CASE y = AckFrame(c)
    <3>1. y.kind = "ack" /\ y.ack = c.ack_number
      BY <2>2 DEF AckFrame
    <3> QED
      BY <1>2, <3>1
      DEF Starts, Quiet, Headers, ReliableFrames, DataFrames, ConfFrames, LeFrames, LeMessage
  <2>3. CASE y = DataFrame(c)
    <3>1. /\ y.kind = "data" /\ y.ack = c.ack_number
          /\ y.seq = c.sequence_number /\ y.packet = c.send_packet
      BY <2>3 DEF DataFrame
    <3> QED
      BY <1>2, <3>1
      DEF Starts, Quiet, Headers, ReliableFrames, DataFrames, ConfFrames, LeFrames, LeMessage
  <2> QED
    BY <2>1, <2>2, <2>3
<1> QED
  BY <1>1, <1>2

\* A transmit step at e keeps the direction from e: the packet that waits may
\* start in a frame of its own number.
LEMMA TransmitKeepsOwn ==
  ASSUME TypeOK, WindowOfOne, NEW e \in End, NEW o \in End, o = Other(e),
         NEW c \in Config, NEW w \in Seq(Frame), TransmitStep(e, c, w),
         c.sequence_number = config[e].sequence_number,
         c.link_establishment_packet = config[e].link_establishment_packet,
         Trims(line[o], config[e].sending, w, c.sending),
         confirmed' = confirmed, delivered' = delivered,
         NEW m \in Nat, m = Len(submitted'[e]), NEW i, i = submitted'[e][m],
         confirmed[e] <= Len(delivered[o]), Len(delivered[o]) <= m, m <= confirmed[e] + 1,
         c.send_packet.reliable <=> m = confirmed[e] + 1,
         c.send_packet.reliable => c.send_packet.id = i,
         NEW p \in BOOLEAN, p = (Len(delivered[o]) # m),
         DataOrder(w, c.sending, config[o].ack_number, p, i)
  PROVE  Counted(e)' /\ DataInOrder(e)' /\ AcksInOrder(e)' /\ EstablishmentOver(e)'
<1> DEFINE d == config'[e]
           a == config[o].ack_number
           n == confirmed[e]
           k == Len(delivered[o])
           v == line'[o]
<1>1. /\ Counted(e) /\ AcksInOrder(e) /\ EstablishmentOver(e)
      /\ EngineType /\ Other(e) = o
  BY WindowTypes DEF WindowOfOne
<1>2. /\ a \in 0 .. SeqModulus - 1 /\ c.sequence_number \in 0 .. SeqModulus - 1
      /\ n \in Nat /\ k \in Nat /\ c.sending \in Frame
      /\ line[o] \in Seq(Frame) /\ config[e].sending \in Frame
  BY WindowTypes DEF Config
<1>3. /\ d.sequence_number = c.sequence_number
      /\ config'[o] = config[o]
      /\ line'[e] = line[e]
      /\ Continues(e, c, w) \/ \E y \in Frame : Starts(e, c, w, y)
  BY <1>1, TransmitEffect
<1>4. d.send_packet = c.send_packet \/ (d.send_packet = NoPacket /\ ~c.send_packet.reliable)
  BY <1>3 DEF Continues, Starts, SentUnreliable
<1>5. Counted(e)'
  <2>1. /\ d.send_packet.reliable <=> m = n + 1
        /\ d.send_packet.reliable => d.send_packet.id = i
    BY <1>4 DEF NoPacket
  <2>2. /\ config[o].ack_number = IF k = n THEN c.sequence_number
                                  ELSE (c.sequence_number + 1) % SeqModulus
        /\ n = 0 => c.sequence_number = 0
    BY <1>1 DEF Counted
  <2> QED
    BY <1>1, <1>3, <2>1, <2>2 DEF Counted
<1>6. DataOrder(v, d.sending, a, p, i)
  <2>1. CASE Continues(e, c, w)
    <3>1. Trims(w, c.sending, v, d.sending)
      BY <1>1, <2>1 DEF Continues
    <3> DEFINE x2 == d.sending
    <3>2. Trims(w, c.sending, v, x2) /\ DataOrder(w, c.sending, a, p, i)
      BY <3>1
    <3> HIDE DEF a, v, x2
    <3>3. \A b \in BOOLEAN : DataOrder(w, c.sending, a, b, i) => DataOrder(v, x2, a, b, i)
      BY <1>2, <3>2, TrimKeepsData
    <3>4. DataOrder(v, x2, a, p, i)
      BY <3>2, <3>3
    <3> QED
      BY <3>4 DEF x2
  <2>2. ASSUME NEW y \in Frame, Starts(e, c, w, y)
        PROVE  DataOrder(v, d.sending, a, p, i)
    <3>1. c.sending = NoFrame /\ v = w /\ d.sending = y
      BY <1>1, <2>2 DEF Starts
    <3>2. y \in ReliableFrames => IF p THEN y.seq = a /\ y.packet.id = i ELSE y.seq # a
      <4> SUFFICES ASSUME y \in ReliableFrames
                   PROVE  IF p THEN y.seq = a /\ y.packet.id = i ELSE y.seq # a
        OBVIOUS
      <4>1. c.send_packet.reliable /\ y.seq = c.sequence_number /\ y.packet = c.send_packet
        BY <2>2, StartedFrame
      <4>2. m = n + 1 /\ y.packet.id = i
        BY <4>1
      <4>3. a = IF k = n THEN c.sequence_number ELSE (c.sequence_number + 1) % SeqModulus
        BY <1>1 DEF Counted
      <4>4. p <=> k = n
        <5> HIDE DEF n, k
        <5>1. p <=> k # m
          BY DEF k
        <5>2. n <= k /\ k <= m
          BY DEF k, n
        <5> QED
          BY <1>2, <4>2, <5>1, <5>2
      <4> HIDE DEF a, k, n
      <4> QED
        BY <1>2, <4>1, <4>2, <4>3, <4>4, NextNumber
    <3>3. DataOrder(w, NoFrame, a, p, i)
      BY <3>1
    <3>4. DataOrder(w, y, a, p, i)
      <4> HIDE DEF a
      <4> QED
        BY <3>2, <3>3, StartKeepsData
    <3> QED
      BY <3>1, <3>4
  <2> QED
    BY <1>3, <2>1, <2>2
<1>7. DataInOrder(e)'
  <2>1. DataInOrder(e)' <=> DataOrder(line'[Other(e)], config'[e].sending,
                                      config'[Other(e)].ack_number,
                                      Len(delivered'[Other(e)]) # Len(submitted'[e]),
                                      submitted'[e][Len(submitted'[e])])
    BY OrdersWillBe
  <2>2. (Len(delivered'[Other(e)]) # Len(submitted'[e])) = p
    BY <1>1
  <2> QED
    BY <1>1, <1>3, <1>6, <2>1, <2>2
<1>8. AcksInOrder(e)'
  BY <1>1, <1>3 DEF AcksInOrder
<1>9. EstablishmentOver(e)'
  <2>1. /\ NeverBehind(line[o], config[e].sending, DataFrames, ConfFrames)
        /\ Has(line[o], DataFrames) \/ config[e].sending \in DataFrames \/ delivered[o] # <<>>
             => c.link_establishment_packet = "none"
        /\ delivered[o] # <<>> => Without(line[o], config[e].sending, ConfFrames)
    BY <1>1 DEF EstablishmentOver
  <2>2. /\ NeverBehind(w, c.sending, DataFrames, ConfFrames)
        /\ Has(w, DataFrames) \/ c.sending \in DataFrames \/ delivered[o] # <<>>
             => c.link_establishment_packet = "none"
        /\ delivered[o] # <<>> => Without(w, c.sending, ConfFrames)
    BY <1>2, <2>1, MeaningOf, TrimKeepsWithout, TrimBringsNothing, TrimKeepsBehind
  <2>3. /\ NeverBehind(v, d.sending, DataFrames, ConfFrames)
        /\ Has(v, DataFrames) \/ d.sending \in DataFrames \/ delivered[o] # <<>>
             => d.link_establishment_packet = "none"
        /\ delivered[o] # <<>> => Without(v, d.sending, ConfFrames)
    <3>1. CASE Continues(e, c, w)
      <4> DEFINE x2 == d.sending
      <4>1. /\ Trims(w, c.sending, v, x2)
            /\ d.link_establishment_packet = c.link_establishment_packet
        BY <1>1, <3>1 DEF Continues
      <4> HIDE DEF v, x2
      <4>2. /\ NeverBehind(v, x2, DataFrames, ConfFrames)
            /\ Has(v, DataFrames) => Has(w, DataFrames) \/ c.sending \in DataFrames
            /\ x2 \in DataFrames => c.sending \in DataFrames
            /\ delivered[o] # <<>> => Without(v, x2, ConfFrames)
        BY <1>2, <2>2, <4>1, MeaningOf, TrimKeepsWithout, TrimBringsNothing,
           TrimKeepsBehind
      <4> QED
        BY <2>2, <4>1, <4>2 DEF x2
    <3>2. ASSUME NEW y \in Frame, Starts(e, c, w, y)
          PROVE  /\ NeverBehind(v, d.sending, DataFrames, ConfFrames)
                 /\ Has(v, DataFrames) \/ d.sending \in DataFrames \/ delivered[o] # <<>>
                      => d.link_establishment_packet = "none"
                 /\ delivered[o] # <<>> => Without(v, d.sending, ConfFrames)
      <4>1. c.sending = NoFrame /\ v = w /\ d.sending = y
        BY <1>1, <3>2 DEF Starts
      <4>2. /\ y \in ConfFrames => c.link_establishment_packet # "none"
            /\ y \in DataFrames => c.link_establishment_packet = "none"
            /\ c.link_establishment_packet = "none" => d.link_establishment_packet = "none"
        BY <3>2, StartedFrame
      <4>3. NeverBehind(w, y, DataFrames, ConfFrames)
        BY <2>2, <4>1, <4>2, StartKeeps
      <4>4. delivered[o] # <<>> => Without(w, y, ConfFrames)
        BY <2>2, <4>1, <4>2, StartKeeps
      <4> HIDE DEF v, d
      <4> QED
        BY <2>2, <4>1, <4>2, <4>3, <4>4
    <3> QED
      BY <1>3, <3>1, <3>2
  <2> QED
    BY <1>1, <1>3, <2>3 DEF EstablishmentOver
<1> QED
  BY <1>5, <1>7, <1>8, <1>9

\* A transmit step at e keeps the direction to e, whose acknowledgements start
\* there.
LEMMA TransmitKeepsOther ==
  ASSUME TypeOK, WindowOfOne, NEW e \in End, NEW o \in End, o = Other(e),
         NEW c \in Config, NEW w \in Seq(Frame), TransmitStep(e, c, w),
         c.ack_number = config[e].ack_number,
         c.link_establishment_packet = config[e].link_establishment_packet,
         c.link_establishment_resp = config[e].link_establishment_resp,
         Trims(line[o], config[e].sending, w, c.sending),
         confirmed' = confirmed, delivered' = delivered,
         submitted'[o] = submitted[o], outstanding'[o] = outstanding[o],
         mayCall'[o] = mayCall[o]
  PROVE  /\ CallerInStep(o)' /\ Counted(o)' /\ DataInOrder(o)'
         /\ AcksInOrder(o)' /\ EstablishmentOver(o)'
<1> DEFINE d == config'[e]
           s == config[o].sequence_number
           n == confirmed[o]
           k == Len(delivered[e])
           v == line'[o]
           q == Quiet(c)
           q2 == Quiet(d)
           pa == k # n
<1>1. /\ CallerInStep(o) /\ Counted(o) /\ DataInOrder(o) /\ AcksInOrder(o)
      /\ EstablishmentOver(o) /\ EngineType /\ Other(o) = e /\ Other(e) = o
  BY WindowTypes, Ends DEF WindowOfOne
<1>2. /\ s \in 0 .. SeqModulus - 1 /\ c.ack_number \in 0 .. SeqModulus - 1
      /\ n \in Nat /\ k \in Nat /\ c.sending \in Frame
      /\ line[o] \in Seq(Frame) /\ config[e].sending \in Frame
      /\ q \in BOOLEAN /\ q2 \in BOOLEAN /\ pa \in BOOLEAN
      /\ q = Quiet(config[e])
  BY WindowTypes DEF Config, Quiet
<1>3. /\ d.ack_number = c.ack_number
      /\ config'[o] = config[o]
      /\ line'[e] = line[e]
      /\ poll'[o] = poll[o]
      /\ Continues(e, c, w) \/ \E y \in Frame : Starts(e, c, w, y)
  BY <1>1, TransmitEffect
<1>4. CallerInStep(o)' /\ Counted(o)' /\ DataInOrder(o)'
  BY <1>1, <1>3, ZenonT(30) DEF CallerInStep, Counted, DataInOrder, Sent
<1>5. AckOrder(w, c.sending, s, c.ack_number, pa, q)
  <2>1. AckOrder(line[o], config[e].sending, s, c.ack_number, pa, q)
    BY <1>1, <1>2, OrdersAre
  <2> HIDE DEF s, pa, q
  <2> QED
    BY <1>2, <2>1, TrimKeepsAcks
<1>6. /\ Without(w, c.sending, LeFrames \cap NotAcking(0))
      /\ n > 0 => Without(w, c.sending, LeFrames) /\ q
  <2>1. /\ Without(line[o], config[e].sending, LeFrames \cap NotAcking(0))
        /\ n > 0 => Without(line[o], config[e].sending, LeFrames) /\ q
    BY <1>1, <1>2 DEF EstablishmentOver
  <2> HIDE DEF n, q
  <2> QED
    BY <1>2, <2>1, MeaningOf, TrimKeepsWithout, TrimBringsNothing, TrimKeepsBehind
<1>7. /\ AckOrder(v, d.sending, s, c.ack_number, pa, q2)
      /\ Without(v, d.sending, LeFrames \cap NotAcking(0))
      /\ n > 0 => Without(v, d.sending, LeFrames) /\ q2
  <2>1. CASE Continues(e, c, w)
    <3> DEFINE x2 == d.sending
    <3>1. Trims(w, c.sending, v, x2) /\ q2 = q
      BY <1>1, <2>1 DEF Continues, Quiet
    <3> HIDE DEF s, pa, q, v, q2, x2, n
    <3>2. AckOrder(v, x2, s, c.ack_number, pa, q)
      BY <1>2, <1>5, <3>1, TrimKeepsAcks
    <3>3. /\ Without(v, x2, LeFrames \cap NotAcking(0))
          /\ n > 0 => Without(v, x2, LeFrames) /\ q2
      BY <1>2, <1>6, <3>1, MeaningOf, TrimKeepsWithout
    <3> QED
      BY <3>1, <3>2, <3>3 DEF x2
  <2>2. ASSUME NEW y \in Frame, Starts(e, c, w, y)
        PROVE  /\ AckOrder(v, d.sending, s, c.ack_number, pa, q2)
               /\ Without(v, d.sending, LeFrames \cap NotAcking(0))
               /\ n > 0 => Without(v, d.sending, LeFrames) /\ q2
    <3>1. c.sending = NoFrame /\ v = w /\ d.sending = y
      BY <1>1, <2>2 DEF Starts
    <3>2. /\ y \in Headers
          /\ q => y.ack = c.ack_number /\ y \notin LeFrames /\ q2
          /\ ~q => y.ack = 0
      BY <2>2, StartedFrame
    <3>3. /\ ~pa => c.ack_number = s
          /\ pa => c.ack_number = (s + 1) % SeqModulus
          /\ n = 0 => s = 0
      BY <1>1 DEF Counted
    <3>4. AckOrder(w, y, s, c.ack_number, pa, q)
      <4>1. AckOrder(w, NoFrame, s, c.ack_number, pa, q)
        BY <1>5, <3>1
      <4>2. CASE q
        <5> HIDE DEF s, pa, q
        <5> QED
          BY <1>2, <3>2, <3>3, <4>1, <4>2, StartKeepsAcks
      <4>3. CASE ~q
        <5>1. n = 0
          <6> HIDE DEF n, q
          <6> QED
            BY <1>2, <1>6, <4>3
        <5>2. s = 0 /\ (pa => c.ack_number # 0)
          <6> HIDE DEF pa, n
          <6> QED
            BY <1>2, <3>3, <5>1, NextNumber
        <5> HIDE DEF s, pa, q
        <5> QED
          BY <1>2, <3>2, <3>3, <4>1, <4>3, <5>2, StartKeepsAcks
      <4> QED
        BY <4>2, <4>3
    <3>5. AckOrder(w, y, s, c.ack_number, pa, q2)
      <4>1. q => q2
        BY <3>2
      <4> HIDE DEF q, q2, pa, s
      <4> QED
        BY <3>4, <4>1 DEF AckOrder
    <3>6. Without(w, y, LeFrames \cap NotAcking(0))
      <4>1. y \notin LeFrames \cap NotAcking(0)
        BY <3>2 DEF NotAcking
      <4> QED
        BY <1>6, <3>1, <4>1, StartKeeps
    <3>7. n > 0 => Without(w, y, LeFrames) /\ q2
      BY <1>6, <3>1, <3>2, StartKeeps
    <3> QED
      BY <3>1, <3>5, <3>6, <3>7
  <2> QED
    BY <1>3, <2>1, <2>2
<1>8. AcksInOrder(o)'
  <2>1. AcksInOrder(o)' <=> AckOrder(line'[o], config'[e].sending, config'[o].sequence_number,
                                     config'[e].ack_number,
                                     Len(delivered'[e]) # confirmed'[o], Quiet(config'[e]))
    BY <1>1, OrdersWillBe
  <2> QED
    BY <1>3, <1>7, <2>1
<1>9. EstablishmentOver(o)'
  BY <1>1, <1>3, <1>7 DEF EstablishmentOver
<1> QED
  BY <1>4, <1>8, <1>9

\* What the caller leaves after a poll, but for the buffer and the delay, is what
\* the engine left.
LEMMA ReturnedIs ==
  ASSUME EngineType, NEW e \in End
  PROVE  /\ Returned(e) \in Config
         /\ Returned(e).sequence_number = config[e].sequence_number
         /\ Returned(e).ack_number = config[e].ack_number
         /\ Returned(e).link_establishment_state = config[e].link_establishment_state
         /\ Returned(e).link_establishment_packet = config[e].link_establishment_packet
         /\ Returned(e).link_establishment_resp = config[e].link_establishment_resp
         /\ Returned(e).send_packet = config[e].send_packet
         /\ Returned(e).sending = config[e].sending
<1>1. config[e] \in Config
  BY DEF EngineType
<1> QED
  BY <1>1, ReturnedType DEF Returned, ubcsp_receive_packet, Polled, Config

\* A transmit step from what a caller in step leaves: it stays in step.
LEMMA TransmitKeepsCaller ==
  ASSUME EngineType, NEW e \in End,
         NEW c \in Config, NEW w \in Seq(Frame), TransmitStep(e, c, w),
         mayCall'[e] => c.send_packet = NoPacket,
         c.send_packet # NoPacket => outstanding'[e] = c.send_packet,
         c.link_establishment_state # active
           => /\ c.send_packet = NoPacket
              /\ outstanding'[e] = NoPacket
              /\ ~mayCall'[e]
  PROVE  CallerInStep(e)'
<1> DEFINE d == config'[e]
<1>1. /\ d.link_establishment_state = c.link_establishment_state
      /\ "RECEIVED" \notin poll'[e].activity
      /\ Continues(e, c, w) \/ \E y \in Frame : Starts(e, c, w, y)
  BY TransmitEffect
<1>2. \/ d.send_packet = c.send_packet /\ ~Sent(e)'
      \/ c.send_packet # NoPacket /\ d.send_packet = NoPacket
  BY <1>1 DEF Continues, Starts, SentUnreliable
<1> QED
  BY <1>1, <1>2 DEF CallerInStep

\* A poll that submits nothing keeps the window.
LEMMA NextPollKeepsWindow ==
  ASSUME TypeOK, WindowOfOne, NEW e \in End, NextPoll(e)
  PROVE  WindowOfOne'
<1> DEFINE o == Other(e)
           c == Returned(e)
           w == line[o]
           n == confirmed[e]
           k == Len(delivered[o])
           m == Len(submitted[e])
           i == submitted[e][m]
           p == k # m
<1>1. /\ EngineType /\ o \in End /\ Other(o) = e /\ o # e
      /\ \A y \in End : y = e \/ y = o
      /\ CallerInStep(e) /\ Counted(e) /\ DataInOrder(e)
  BY WindowTypes, Ends DEF WindowOfOne
<1>2. /\ c \in Config
      /\ c.sequence_number = config[e].sequence_number
      /\ c.ack_number = config[e].ack_number
      /\ c.link_establishment_state = config[e].link_establishment_state
      /\ c.link_establishment_packet = config[e].link_establishment_packet
      /\ c.link_establishment_resp = config[e].link_establishment_resp
      /\ c.send_packet = config[e].send_packet
      /\ c.sending = config[e].sending
  BY <1>1, ReturnedIs
<1>3. /\ TransmitStep(e, c, w)
      /\ mayCall' = [mayCall EXCEPT ![e] = @ \/ Sent(e)]
      /\ outstanding' = [outstanding EXCEPT ![e] = IF Sent(e) THEN NoPacket ELSE @]
      /\ submitted' = submitted /\ delivered' = delivered /\ confirmed' = confirmed
  BY DEF NextPoll
<1>4. /\ mayCall'[e] <=> mayCall[e] \/ Sent(e)
      /\ mayCall'[o] = mayCall[o]
      /\ outstanding'[e] = IF Sent(e) THEN NoPacket ELSE outstanding[e]
      /\ outstanding'[o] = outstanding[o]
  BY <1>1, <1>3 DEF TypeOK
<1>5. w \in Seq(Frame) /\ n \in Nat /\ k \in Nat /\ m \in Nat /\ p \in BOOLEAN
  BY <1>1, WindowTypes
<1>6. Trims(w, config[e].sending, w, c.sending)
  BY <1>2 DEF Trims
<1>7. CallerInStep(e)'
  <2>1. /\ mayCall'[e] => c.send_packet = NoPacket
        /\ c.send_packet # NoPacket => outstanding'[e] = c.send_packet
        /\ c.link_establishment_state # active
             => /\ c.send_packet = NoPacket
                /\ outstanding'[e] = NoPacket
                /\ ~mayCall'[e]
    BY <1>1, <1>2, <1>4 DEF CallerInStep
  <2> HIDE DEF c, w
  <2> QED
    BY <1>1, <1>2, <1>3, <1>5, <2>1, TransmitKeepsCaller
<1>8. Counted(e)' /\ DataInOrder(e)' /\ AcksInOrder(e)' /\ EstablishmentOver(e)'
  <2>1. /\ n <= k /\ k <= m /\ m <= n + 1
        /\ c.send_packet.reliable <=> m = n + 1
        /\ c.send_packet.reliable => c.send_packet.id = i
    BY <1>1, <1>2 DEF Counted
  <2>2. DataOrder(w, c.sending, config[o].ack_number, p, i)
    BY <1>1, <1>2, OrdersAre
  <2>3. p = (Len(delivered[o]) # m) /\ m = Len(submitted'[e]) /\ i = submitted'[e][m]
    BY <1>3
  <2> HIDE DEF c, w, m, i, p
  <2> QED
    BY <1>1, <1>2, <1>3, <1>5, <1>6, <2>1, <2>2, <2>3, TransmitKeepsOwn DEF w
<1>9. /\ CallerInStep(o)' /\ Counted(o)' /\ DataInOrder(o)'
      /\ AcksInOrder(o)' /\ EstablishmentOver(o)'
  <2>1. submitted'[o] = submitted[o] /\ Trims(line[o], config[e].sending, w, c.sending)
    BY <1>3, <1>6
  <2> HIDE DEF c, w
  <2> QED
    BY <1>1, <1>2, <1>3, <1>4, <1>5, <2>1, TransmitKeepsOther
<1> QED
  BY <1>1, <1>7, <1>8, <1>9 DEF WindowOfOne

\* The rest of an abandoned frame: at most a damaged one.
LEMMA AbandonedTrims ==
  ASSUME EngineType, NEW e \in End, NEW rest \in Abandoned(e), NEW x
  PROVE  /\ line[Other(e)] \o rest \in Seq(Frame)
         /\ Trims(line[Other(e)], x, line[Other(e)] \o rest, NoFrame)
<1> DEFINE l == line[Other(e)]
<1>1. l \in Seq(Frame) /\ BadFrame \in Frame
  BY Ends, FrameTypes DEF EngineType
<1>2. l \o <<>> = l /\ l \o <<BadFrame>> = Append(l, BadFrame)
  BY <1>1, AppendIsConcat
<1>3. l \o rest = l \/ l \o rest = Append(l, BadFrame)
  BY <1>2, AbandonedType
<1>4. Append(l, BadFrame) \in Seq(Frame)
  BY <1>1
<1> HIDE DEF l
<1>5. l \o rest \in Seq(Frame) /\ Trims(l, x, l \o rest, NoFrame)
  BY <1>1, <1>3, <1>4 DEF Trims
<1> QED
  BY <1>5 DEF l

\* What a caller that submits a packet leaves to the transmit step.
LEMMA SubmitPoll ==
  ASSUME TypeOK, NEW e \in End, Submit(e)
  PROVE  \E r \in BOOLEAN, w \in Seq(Frame), c \in Config :
           /\ TransmitStep(e, c, w)
           /\ Trims(line[Other(e)], config[e].sending, w, c.sending)
           /\ c.sequence_number = config[e].sequence_number
           /\ c.ack_number = config[e].ack_number
           /\ c.link_establishment_state = config[e].link_establishment_state
           /\ c.link_establishment_packet = config[e].link_establishment_packet
           /\ c.link_establishment_resp = config[e].link_establishment_resp
           /\ c.sending = NoFrame
           /\ c.send_packet = [id |-> packets[e] + 1, reliable |-> r]
           /\ outstanding'[e] = c.send_packet
           /\ submitted'[e] = IF r THEN Append(submitted[e], packets[e] + 1)
                              ELSE submitted[e]
<1>1. EngineType /\ packets[e] \in Nat
  BY WindowTypes DEF TypeOK
<1>2. PICK r \in Reliability[e], rest \in Abandoned(e) :
        LET p == [id |-> packets[e] + 1, reliable |-> r]
        IN  /\ TransmitStep(e, ubcsp_send_packet(Returned(e), p), line[Other(e)] \o rest)
            /\ outstanding' = [outstanding EXCEPT ![e] = p]
            /\ submitted' = [submitted EXCEPT ![e] = IF r THEN Append(@, p.id) ELSE @]
  BY DEF Submit
<1> DEFINE p == [id |-> packets[e] + 1, reliable |-> r]
           c == ubcsp_send_packet(Returned(e), p)
           w == line[Other(e)] \o rest
<1>3. r \in BOOLEAN /\ p \in Packet
  BY <1>1, ReliabilityAssumption DEF Packet
<1>4. /\ c \in Config
      /\ c.sequence_number = config[e].sequence_number
      /\ c.ack_number = config[e].ack_number
      /\ c.link_establishment_state = config[e].link_establishment_state
      /\ c.link_establishment_packet = config[e].link_establishment_packet
      /\ c.link_establishment_resp = config[e].link_establishment_resp
      /\ c.sending = NoFrame
      /\ c.send_packet = p
  <2> HIDE DEF p
  <2>1. c \in Config
    BY <1>1, <1>3, SendType, ReturnedIs
  <2> QED
    BY <1>1, <2>1, ReturnedIs DEF ubcsp_send_packet, Config
<1>5. w \in Seq(Frame) /\ Trims(line[Other(e)], config[e].sending, w, c.sending)
  BY <1>1, <1>4, AbandonedTrims
<1>6. /\ outstanding'[e] = p
      /\ submitted'[e] = IF r THEN Append(submitted[e], packets[e] + 1) ELSE submitted[e]
      /\ TransmitStep(e, c, w)
  BY <1>2 DEF TypeOK
<1>7. outstanding'[e] = c.send_packet /\ c.send_packet = [id |-> packets[e] + 1, reliable |-> r]
  BY <1>4, <1>6
<1> HIDE DEF w, c, p
<1> QED
  BY <1>3, <1>4, <1>5, <1>6, <1>7

\* A caller in step submits a packet only to an active engine that has none.
LEMMA SubmitEffect ==
  ASSUME TypeOK, WindowOfOne, NEW e \in End, Submit(e)
  PROVE  /\ config[e].link_establishment_state = active
         /\ config[e].send_packet = NoPacket
         /\ Len(submitted[e]) = confirmed[e]
         /\ Len(delivered[Other(e)]) = confirmed[e]
         /\ packets[e] + 1 \in 1 .. MaxPackets[e]
<1> DEFINE o == Other(e)
<1>1. /\ CallerInStep(e) /\ Counted(e)
      /\ confirmed[e] \in Nat /\ Len(submitted[e]) \in Nat /\ Len(delivered[o]) \in Nat
  BY WindowTypes, Ends DEF WindowOfOne
<1>2. config[e].link_establishment_state = active /\ config[e].send_packet = NoPacket
  BY <1>1 DEF Submit, CallerInStep
<1>3. Len(submitted[e]) = confirmed[e] /\ Len(delivered[o]) = confirmed[e]
  <2>1. Len(submitted[e]) # confirmed[e] + 1
    BY <1>1, <1>2 DEF Counted, NoPacket
  <2>2. /\ confirmed[e] <= Len(delivered[o])
        /\ Len(delivered[o]) <= Len(submitted[e])
        /\ Len(submitted[e]) <= confirmed[e] + 1
    BY <1>1 DEF Counted
  <2> QED
    BY <1>1, <2>1, <2>2
<1>4. packets[e] + 1 \in 1 .. MaxPackets[e]
  <2>1. packets[e] \in Nat /\ MaxPackets[e] \in Nat /\ packets[e] < MaxPackets[e]
    BY MaxPacketsAssumption DEF Submit, TypeOK
  <2> QED
    BY <2>1
<1> QED
  BY <1>2, <1>3, <1>4

\* A poll that submits a packet keeps the window: it was empty.
LEMMA SubmitKeepsWindow ==
  ASSUME TypeOK, WindowOfOne, NEW e \in End, Submit(e)
  PROVE  WindowOfOne'
<1> DEFINE o == Other(e)
           n == confirmed[e]
           a == config[o].ack_number
<1>1. /\ EngineType /\ o \in End /\ Other(o) = e /\ o # e
      /\ \A y \in End : y = e \/ y = o
      /\ CallerInStep(e) /\ Counted(e) /\ DataInOrder(e)
      /\ line[o] \in Seq(Frame) /\ config[e].sending \in Frame
  BY WindowTypes, Ends DEF WindowOfOne
<1>2. /\ Len(submitted[e]) = n /\ Len(delivered[o]) = n
      /\ submitted[e] \in Seq(Nat) /\ n \in Nat /\ packets[e] \in Nat
  BY WindowTypes, SubmitEffect DEF TypeOK
<1>3. PICK r \in BOOLEAN, w \in Seq(Frame), c \in Config :
        /\ TransmitStep(e, c, w)
        /\ Trims(line[o], config[e].sending, w, c.sending)
        /\ c.sequence_number = config[e].sequence_number
        /\ c.ack_number = config[e].ack_number
        /\ c.link_establishment_state = config[e].link_establishment_state
        /\ c.link_establishment_packet = config[e].link_establishment_packet
        /\ c.link_establishment_resp = config[e].link_establishment_resp
        /\ c.sending = NoFrame
        /\ c.send_packet = [id |-> packets[e] + 1, reliable |-> r]
        /\ outstanding'[e] = c.send_packet
        /\ submitted'[e] = IF r THEN Append(submitted[e], packets[e] + 1)
                           ELSE submitted[e]
  BY SubmitPoll
<1>4. /\ ~mayCall'[e]
      /\ mayCall'[o] = mayCall[o]
      /\ outstanding'[o] = outstanding[o]
      /\ submitted'[o] = submitted[o]
      /\ delivered' = delivered /\ confirmed' = confirmed
  BY <1>1 DEF Submit, TypeOK
<1>5. CallerInStep(e)'
  <2>1. c.link_establishment_state = active
    BY <1>3, SubmitEffect
  <2> QED
    BY <1>1, <1>3, <1>4, <2>1, TransmitKeepsCaller
<1> DEFINE m == Len(submitted'[e])
           i == submitted'[e][m]
           p == n # m
<1>6. /\ m \in Nat
      /\ m = IF r THEN n + 1 ELSE n
      /\ r => i = packets[e] + 1
      /\ p = r
  BY <1>2, <1>3
<1>7. Counted(e)' /\ DataInOrder(e)' /\ AcksInOrder(e)' /\ EstablishmentOver(e)'
  <2>1. DataOrder(w, c.sending, a, r, i)
    <3>1. DataOrder(line[o], config[e].sending, a, FALSE, submitted[e][n])
      <4>1. (Len(delivered[o]) # Len(submitted[e])) = FALSE
        BY <1>2
      <4> QED
        BY <1>1, <1>2, <4>1, OrdersAre
    <3> DEFINE j == submitted[e][n]
               l == line[o]
               x == config[e].sending
    <3>2. DataOrder(w, NoFrame, a, FALSE, j)
      <4>1. Trims(l, x, w, NoFrame) /\ DataOrder(l, x, a, FALSE, j)
        BY <1>3, <3>1
      <4> HIDE DEF a, j, l, x
      <4>2. \A b \in BOOLEAN : DataOrder(l, x, a, b, j) => DataOrder(w, NoFrame, a, b, j)
        BY <1>1, <4>1, TrimKeepsData DEF l, x
      <4> QED
        BY <4>1, <4>2, Zenon
    <3>3. DataOrder(w, NoFrame, a, TRUE, i)
      <4> HIDE DEF a, j, i
      <4> QED
        BY <3>2, SubmitKeepsData
    <3>4. CASE r
      <4>1. r = TRUE /\ c.sending = NoFrame
        BY <1>3, <3>4
      <4> HIDE DEF a, i
      <4> QED
        BY <3>3, <4>1
    <3>5. CASE ~r
      <4>1. r = FALSE /\ c.sending = NoFrame /\ i = j
        BY <1>2, <1>3, <3>5
      <4> HIDE DEF a, i, j
      <4> QED
        BY <3>2, <4>1
    <3> QED
      BY <3>4, <3>5
  <2>2. /\ c.send_packet.reliable <=> m = confirmed[e] + 1
        /\ c.send_packet.reliable => c.send_packet.id = i
        /\ confirmed[e] <= Len(delivered[o])
        /\ Len(delivered[o]) <= m
        /\ m <= confirmed[e] + 1
    BY <1>2, <1>3, <1>6
  <2>3. /\ r = (Len(delivered[o]) # m)
        /\ m = Len(submitted'[e]) /\ i = submitted'[e][m]
    BY <1>2, <1>6
  <2>4. DataOrder(w, c.sending, config[o].ack_number, r, i)
    BY <2>1
  <2>5. /\ TransmitStep(e, c, w)
        /\ Trims(line[o], config[e].sending, w, c.sending)
        /\ c.sequence_number = config[e].sequence_number
        /\ c.link_establishment_packet = config[e].link_establishment_packet
        /\ m \in Nat
    BY <1>3, <1>6
  <2> HIDE DEF m, i, n, a, p
  <2> QED
    BY <1>1, <1>4, <2>2, <2>3, <2>4, <2>5, TransmitKeepsOwn
<1>8. /\ CallerInStep(o)' /\ Counted(o)' /\ DataInOrder(o)'
      /\ AcksInOrder(o)' /\ EstablishmentOver(o)'
  BY <1>1, <1>3, <1>4, TransmitKeepsOther
<1> QED
  BY <1>1, <1>5, <1>7, <1>8 DEF WindowOfOne

\* The window is so in the first poll, and every step keeps it.
LEMMA WindowInductive ==
  /\ Init => WindowOfOne
  /\ TypeOK /\ Handshake /\ WindowOfOne /\ [Next]_vars => WindowOfOne'
<1>1. ASSUME Init PROVE WindowOfOne
  <2>1. /\ FirstConfig.sending = LeFrame("sync")
        /\ FirstConfig.sequence_number = 0 /\ FirstConfig.ack_number = 0
        /\ FirstConfig.send_packet = NoPacket
        /\ FirstConfig.link_establishment_state = 0
        /\ FirstConfig.receive_packet
    BY DEF FirstConfig, Established, Boot, uninitialized
  <2>2. /\ LeFrame("sync").kind = "sync" /\ LeFrame("sync").ack = 0
    BY DEF LeFrame
  <2>3. FirstConfig.link_establishment_packet = "sync"
    BY DEF FirstConfig, Established, Boot, NextLePacket, next_le_packet, uninitialized
  <2>4. \A S : ~Has(<<>>, S)
    BY DEF Has
  <2> SUFFICES ASSUME NEW e \in End
               PROVE  /\ CallerInStep(e) /\ Counted(e) /\ DataInOrder(e)
                      /\ AcksInOrder(e) /\ EstablishmentOver(e)
    BY DEF WindowOfOne
  <2>5. /\ config[e] = FirstConfig /\ config[Other(e)] = FirstConfig
        /\ poll[e] = FirstPoll
        /\ line[e] = <<>> /\ line[Other(e)] = <<>>
        /\ outstanding[e] = NoPacket /\ ~mayCall[e]
        /\ submitted[e] = <<>> /\ delivered[Other(e)] = <<>> /\ confirmed[e] = 0
    BY <1>1, Ends DEF Init
  <2>6. CallerInStep(e)
    BY <2>1, <2>5 DEF CallerInStep, Sent, FirstPoll
  <2>7. Counted(e)
    BY <2>1, <2>5 DEF Counted, NoPacket
  <2>8. DataInOrder(e)
    BY <2>1, <2>2, <2>4, <2>5
    DEF DataInOrder, Without, Fresh, ReliableFrames, DataFrames
  <2>9. AcksInOrder(e)
    BY <2>1, <2>2, <2>4, <2>5 DEF AcksInOrder, Without, NotAcking
  <2>10. EstablishmentOver(e)
    BY <2>1, <2>2, <2>4, <2>5
    DEF EstablishmentOver, Without, NeverBehind, Has, NotAcking, DataFrames, ConfFrames
  <2> QED
    BY <2>6, <2>7, <2>8, <2>9, <2>10
<1>2. ASSUME TypeOK, Handshake, WindowOfOne, [Next]_vars PROVE WindowOfOne'
  <2>1. ASSUME NEW e \in End, Receive(e) PROVE WindowOfOne'
    <3>1. \A y \in End : y = e \/ y = Other(e)
      BY Ends
    <3>2. /\ CallerInStep(e)' /\ Counted(e)' /\ DataInOrder(e)'
          /\ AcksInOrder(e)' /\ EstablishmentOver(e)'
      BY <1>2, <2>1, ReceiveKeepsOwn
    <3>3. ASSUME NEW o \in End, o = Other(e)
          PROVE  /\ CallerInStep(o)' /\ Counted(o)' /\ DataInOrder(o)'
                 /\ AcksInOrder(o)' /\ EstablishmentOver(o)'
      BY <1>2, <2>1, <3>3, ReceiveKeepsOther
    <3> QED
      BY <3>1, <3>2, <3>3, Ends DEF WindowOfOne
  <2>2. ASSUME NEW e \in End, NextPoll(e) PROVE WindowOfOne'
    BY <1>2, <2>2, NextPollKeepsWindow
  <2>3. ASSUME NEW e \in End, Submit(e) PROVE WindowOfOne'
    BY <1>2, <2>3, SubmitKeepsWindow
  <2>4. ASSUME NEW e \in End, Noise(e) PROVE WindowOfOne'
    BY <1>2, <2>4, NoiseKeepsWindow
  <2>5. CASE UNCHANGED vars
    <3>1. UNCHANGED <<config, poll, line, outstanding, mayCall, submitted, delivered, confirmed>>
      BY <2>5 DEF vars
    <3> SUFFICES ASSUME NEW e \in End
                 PROVE  /\ CallerInStep(e)' /\ Counted(e)' /\ DataInOrder(e)'
                        /\ AcksInOrder(e)' /\ EstablishmentOver(e)'
      BY DEF WindowOfOne
    <3>2. /\ CallerInStep(e) /\ Counted(e) /\ DataInOrder(e) /\ AcksInOrder(e)
          /\ EstablishmentOver(e)
      BY <1>2 DEF WindowOfOne
    <3>3. CallerInStep(e)' /\ Counted(e)'
      BY <3>1, <3>2 DEF CallerInStep, Sent, Counted
    <3>4. DataInOrder(e)' /\ AcksInOrder(e)' /\ EstablishmentOver(e)'
      BY <3>1, <3>2 DEF DataInOrder, AcksInOrder, EstablishmentOver
    <3> QED
      BY <3>3, <3>4
  <2> QED
    BY <1>2, <2>1, <2>2, <2>3, <2>4, <2>5 DEF Next, Step
<1> QED
  BY <1>1, <1>2

\* In every reachable state the numbers, the frames in flight and the histories
\* are as WindowOfOne says: ubcsp_recevied_packet and the transmit step of
\* ubcsp_poll, with delays, damage and loss on the line.
THEOREM WindowHolds == Spec => []WindowOfOne
BY TypeCorrect, HandshakeHolds, WindowInductive, PTL DEF Spec

-----------------------------------------------------------------------------
(* Each direction of the link implements ReliableChannel.                  *)

\* Every step is, for the packets from e, a submission, a delivery, a
\* confirmation or nothing.
LEMMA ChannelStep ==
  ASSUME TypeOK, Handshake, WindowOfOne, [Next]_vars, NEW e \in End
  PROVE  LET s == submitted[e]
             d == delivered[Other(e)]
             n == confirmed[e]
         IN  \/ /\ submitted'[e] = s
                /\ delivered'[Other(e)] = d
                /\ confirmed'[e] = n
             \/ /\ n = Len(s)
                /\ \E m \in 1 .. MaxPackets[e] : submitted'[e] = Append(s, m)
                /\ delivered'[Other(e)] = d
                /\ confirmed'[e] = n
             \/ /\ Len(d) < Len(s)
                /\ delivered'[Other(e)] = Append(d, s[Len(d) + 1])
                /\ submitted'[e] = s
                /\ confirmed'[e] = n
             \/ /\ n < Len(d)
                /\ confirmed'[e] = n + 1
                /\ submitted'[e] = s
                /\ delivered'[Other(e)] = d
<1> DEFINE o == Other(e)
           s == submitted[e]
           d == delivered[o]
           n == confirmed[e]
           Same == submitted'[e] = s /\ delivered'[o] = d /\ confirmed'[e] = n
           Submits == /\ n = Len(s)
                      /\ \E m \in 1 .. MaxPackets[e] : submitted'[e] = Append(s, m)
                      /\ delivered'[o] = d
                      /\ confirmed'[e] = n
           DeliversNext == /\ Len(d) < Len(s)
                           /\ delivered'[o] = Append(d, s[Len(d) + 1])
                           /\ submitted'[e] = s
                           /\ confirmed'[e] = n
           Confirms == /\ n < Len(d)
                       /\ confirmed'[e] = n + 1
                       /\ submitted'[e] = s
                       /\ delivered'[o] = d
<1>1. /\ o \in End /\ o # e /\ Other(o) = e /\ \A y \in End : y = e \/ y = o
      /\ n \in Nat /\ Len(s) \in Nat /\ Len(d) \in Nat
  BY WindowTypes, Ends
<1>2. CASE Receive(e)
  <2>1. /\ submitted'[e] = s /\ delivered'[o] = d
        /\ confirmed'[e] = IF Acks(e) THEN n + 1 ELSE n
        /\ line[e] # <<>> /\ Head(line[e]) \in Frame /\ Head(line[e]).kind # "none"
    BY <1>2, ReceiveHistory
  <2>2. Acks(e) => Len(d) = n + 1
    <3>1. config[o].sending \in Frame /\ Quiet(config[o]) \in BOOLEAN
      BY <1>1, WindowTypes
    <3> QED
      BY <1>1, <2>1, <3>1, AckTells
  <2>3. Same \/ Confirms
    BY <1>1, <2>1, <2>2
  <2> QED
    BY <2>3
<1>3. CASE Receive(o)
  <2>1. /\ submitted'[e] = s /\ confirmed'[e] = n
        /\ delivered'[o] = IF Delivers(o) THEN Append(d, Head(line[o]).packet.id) ELSE d
        /\ line[o] # <<>>
    BY <1>1, <1>3, ReceiveHistory
  <2>2. Delivers(o)
          => Len(d) = n /\ Len(s) = n + 1 /\ Head(line[o]).packet.id = s[Len(s)]
    BY <1>1, <2>1, DeliveryTells
  <2>3. Same \/ DeliversNext
    BY <1>1, <2>1, <2>2
  <2> QED
    BY <2>3
<1>4. CASE Submit(e)
  <2>1. /\ n = Len(s) /\ packets[e] + 1 \in 1 .. MaxPackets[e]
        /\ \/ submitted'[e] = s
           \/ submitted'[e] = Append(s, packets[e] + 1)
    BY <1>4, SubmitEffect, SubmitPoll
  <2>2. delivered'[o] = d /\ confirmed'[e] = n
    BY <1>4 DEF Submit
  <2>3. Same \/ Submits
    BY <2>1, <2>2
  <2> QED
    BY <2>3
<1>5. CASE Submit(o)
  <2>1. Same
    BY <1>1, <1>5 DEF Submit, TypeOK
  <2> QED
    BY <2>1
<1>6. ASSUME NEW y \in End, NextPoll(y) \/ Noise(y) PROVE Same
  BY <1>6 DEF NextPoll, Noise, callerVars
<1>7. CASE UNCHANGED vars
  BY <1>7 DEF vars
<1>8. \/ Receive(e) \/ Receive(o) \/ Submit(e) \/ Submit(o)
      \/ \E y \in End : NextPoll(y) \/ Noise(y)
      \/ UNCHANGED vars
  BY <1>1 DEF Next, Step
<1> QED
  BY <1>2, <1>3, <1>4, <1>5, <1>6, <1>7, <1>8

\* The reliable packets of the host come out at the chip once each, in order, one
\* at a time, and are reported SENT only then: the sequence numbers of ubcsp.c,
\* whatever the line delays, damages or loses.
THEOREM HostToChipHolds == Spec => HostToChipReliable
<1>1. Init => HostToChip!Init
  BY DEF Init, HostToChip!Init, End
<1>2. TypeOK /\ Handshake /\ WindowOfOne /\ [Next]_vars => [HostToChip!Next]_(HostToChip!vars)
  <2> SUFFICES ASSUME TypeOK, Handshake, WindowOfOne, [Next]_vars
               PROVE  [HostToChip!Next]_(HostToChip!vars)
    OBVIOUS
  <2>1. "host" \in End /\ Other("host") = "chip"
    BY DEF End, Other
  <2> QED
    BY <2>1, ChannelStep
    DEF HostToChip!Next, HostToChip!vars, HostToChip!Submit, HostToChip!Deliver,
        HostToChip!Confirm
<1> QED
  BY <1>1, <1>2, TypeCorrect, HandshakeHolds, WindowHolds, PTL
  DEF Spec, HostToChipReliable, HostToChip!Spec

\* The same of the packets of the chip.
THEOREM ChipToHostHolds == Spec => ChipToHostReliable
<1>1. Init => ChipToHost!Init
  BY DEF Init, ChipToHost!Init, End
<1>2. TypeOK /\ Handshake /\ WindowOfOne /\ [Next]_vars => [ChipToHost!Next]_(ChipToHost!vars)
  <2> SUFFICES ASSUME TypeOK, Handshake, WindowOfOne, [Next]_vars
               PROVE  [ChipToHost!Next]_(ChipToHost!vars)
    OBVIOUS
  <2>1. "chip" \in End /\ Other("chip") = "host"
    BY DEF End, Other
  <2> QED
    BY <2>1, ChannelStep
    DEF ChipToHost!Next, ChipToHost!vars, ChipToHost!Submit, ChipToHost!Deliver,
        ChipToHost!Confirm
<1> QED
  BY <1>1, <1>2, TypeCorrect, HandshakeHolds, WindowHolds, PTL
  DEF Spec, ChipToHostReliable, ChipToHost!Spec

=============================================================================
