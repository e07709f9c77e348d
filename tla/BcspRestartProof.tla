-------------------------- MODULE BcspRestartProof --------------------------
(***************************************************************************)
(* Theorems about BcspRestart, for every modulus, delay, bound on the      *)
(* line, and number of packets, of noise and of restarts.                  *)
(***************************************************************************)
EXTENDS BcspRestartOrder, BcspWindowProof

\* An end that starts again is well typed, and so is what it leaves on the line.
LEMMA RestartTyped ==
  ASSUME RestartTypeOK, NEW e \in End, Restart(e)
  PROVE  RestartTypeOK'
<1>1. /\ TypeOK /\ EngineType /\ restarts \in [End -> Nat] /\ reached \in [End -> SUBSET Nat]
      /\ Other(e) \in End /\ Other(e) # e
  BY Ends DEF RestartTypeOK, TypeOK, EngineType
<1>2. FirstConfig \in Config /\ FirstPoll \in Poll /\ NoPacket \in Packet
  BY FirstType, FrameTypes
<1>3. PICK kept \in {<<>>, line[e]}, rest \in Abandoned(e) :
        line' = [line EXCEPT ![e] = kept, ![Other(e)] = @ \o rest]
  BY DEF Restart
<1>4. line' \in [End -> Seq(Frame)]
  <2>1. line[e] \in Seq(Frame) /\ <<>> \in Seq(Frame) /\ line \in [End -> Seq(Frame)]
    BY <1>1 DEF TypeOK
  <2>2. line[Other(e)] \o rest \in Seq(Frame)
    BY <1>1, AbandonedType DEF EngineType
  <2>3. kept \in Seq(Frame)
    BY <2>1
  <2> QED
    BY <1>1, <1>3, <2>1, <2>2, <2>3
<1>5. /\ config' \in [End -> Config] /\ poll' \in [End -> Poll]
      /\ outstanding' \in [End -> Packet]
  BY <1>1, <1>2 DEF Restart, TypeOK
<1>6. mayCall' \in [End -> BOOLEAN]
  <2>1. mayCall' = [mayCall EXCEPT ![e] = FALSE] /\ mayCall \in [End -> BOOLEAN]
    BY <1>1, Zenon DEF Restart, TypeOK
  <2> QED
    BY <2>1, Zenon
<1>7. delivered' \in [End -> Seq(Nat)]
  <2>1. <<>> \in Seq(Nat)
    OBVIOUS
  <2> QED
    BY <1>1, <2>1 DEF Restart, TypeOK
<1>8. restarts' \in [End -> Nat]
  <2>1. restarts[e] + 1 \in Nat
    BY <1>1
  <2> QED
    BY <1>1, <2>1 DEF Restart
<1>9. UNCHANGED <<packets, submitted, confirmed, noise, reached>>
  BY DEF Restart
<1> QED
  BY <1>1, <1>4, <1>5, <1>6, <1>7, <1>8, <1>9 DEF RestartTypeOK, TypeOK

\* A step of the link leaves the histories well typed.
LEMMA LinkStepRestartTyped ==
  ASSUME RestartTypeOK, TypeOK', LinkStep
  PROVE  RestartTypeOK'
<1>1. delivered' \in [End -> Seq(Nat)] /\ reached \in [End -> SUBSET Nat]
  BY DEF RestartTypeOK, TypeOK
<1>2. \A e \in End : Range(delivered'[e]) \subseteq Nat
  BY <1>1 DEF Range
<1>3. reached' \in [End -> SUBSET Nat]
  BY <1>1, <1>2 DEF LinkStep
<1> QED
  BY <1>3 DEF RestartTypeOK, LinkStep

\* However often either end starts again, and whatever of the old frames still
\* arrives, every reachable state is well typed: numbers stay in their fields and
\* no engine is left in a state it cannot be in (ubcsp_initialize,
\* hci_open_device_internal).
THEOREM RestartTypeCorrect == RestartSpec => []RestartTypeOK
<1>1. RestartInit => RestartTypeOK
  BY LinkInitTyped DEF RestartInit, RestartTypeOK
<1>2. RestartTypeOK /\ [RestartNext]_restartVars => RestartTypeOK'
  <2> SUFFICES ASSUME RestartTypeOK, [RestartNext]_restartVars PROVE RestartTypeOK'
    OBVIOUS
  <2>1. CASE Next /\ LinkStep
    BY <2>1, LinkStepTyped, LinkStepRestartTyped DEF RestartTypeOK
  <2>2. CASE \E e \in End : Restart(e)
    BY <2>2, RestartTyped
  <2>3. CASE UNCHANGED restartVars
    BY <2>3, LinkStepTyped DEF restartVars, RestartTypeOK
  <2> QED
    BY <2>1, <2>2, <2>3 DEF RestartNext
<1> QED
  BY <1>1, <1>2, PTL DEF RestartSpec

-----------------------------------------------------------------------------
(* The packets in a stream, and those that came out of it.                 *)

\* PacketsInOrder, of stream l, x, packet p with sequence_number s, ack_number a
\* at the other end, packets d delivered there and n submitted.
PacketOrder(l, x, p, s, a, d, n) ==
  /\ Ascending(l, x, n)
  /\ NotAgain(l, x, a, d)
  /\ \A i \in 1 .. Len(d) : d[i] <= n
  /\ p # NoPacket => p.id = n
  /\ p.reliable => /\ Without(l, x, Renumbered(p.id, s))
                   /\ d # <<>> /\ p.id = LastOf(d) => s # a

\* No frame and a damaged frame carry no packet.
LEMMA MeaningOfOrder ==
  \A n, s : /\ NoFrame \notin Since(n) /\ BadFrame \notin Since(n)
            /\ NoFrame \notin Before(n) /\ BadFrame \notin Before(n)
            /\ NoFrame \notin Numbered(n, s) /\ BadFrame \notin Numbered(n, s)
            /\ NoFrame \notin Renumbered(n, s) /\ BadFrame \notin Renumbered(n, s)
BY MeaningOf DEF Since, Before, Numbered, Renumbered, ReliableFrames

\* Finishing, dropping, losing and damaging frames keeps the order of packets.
LEMMA TrimKeepsOrder ==
  ASSUME NEW l \in Seq(Frame), NEW x \in Frame, NEW l2, NEW x2, Trims(l, x, l2, x2),
         NEW p, NEW s, NEW a, NEW d, NEW n, PacketOrder(l, x, p, s, a, d, n)
  PROVE  PacketOrder(l2, x2, p, s, a, d, n)
<1>1. Ascending(l2, x2, n)
  <2>1. Without(l2, x2, Since(n + 1))
    BY MeaningOfOrder, TrimKeepsWithout DEF PacketOrder, Ascending
  <2>2. ASSUME NEW i \in 0 .. n PROVE NeverBehind(l2, x2, Since(i), Before(i))
    BY MeaningOfOrder, TrimKeepsBehind DEF PacketOrder, Ascending
  <2>3. ASSUME NEW i \in 0 .. n, NEW q \in 0 .. SeqModulus - 1
        PROVE  NeverBehind(l2, x2, Numbered(i, q), Renumbered(i, q))
    BY MeaningOfOrder, TrimKeepsBehind DEF PacketOrder, Ascending
  <2> QED
    BY <2>1, <2>2, <2>3 DEF Ascending
<1>2. NotAgain(l2, x2, a, d)
  <2> SUFFICES ASSUME d # <<>>
               PROVE  /\ Without(l2, x2, Before(LastOf(d)))
                      /\ Without(l2, x2, Numbered(LastOf(d), a))
    BY DEF NotAgain
  <2>1. Without(l, x, Before(LastOf(d))) /\ Without(l, x, Numbered(LastOf(d), a))
    BY DEF PacketOrder, NotAgain
  <2> QED
    BY <2>1, MeaningOfOrder, TrimKeepsWithout
<1>3. p.reliable => Without(l2, x2, Renumbered(p.id, s))
  BY MeaningOfOrder, TrimKeepsWithout DEF PacketOrder
<1> QED
  BY <1>1, <1>2, <1>3 DEF PacketOrder

\* A packet acknowledged, or an unreliable one sent, is out of the way.
LEMMA ClearKeepsOrder ==
  ASSUME NEW l, NEW x, NEW p, NEW s, NEW s2, NEW a, NEW d, NEW n,
         PacketOrder(l, x, p, s, a, d, n)
  PROVE  PacketOrder(l, x, NoPacket, s2, a, d, n)
<1>1. ~NoPacket.reliable
  BY DEF NoPacket
<1> QED
  BY <1>1 DEF PacketOrder

\* A frame starts that carries no reliable packet, or the outstanding one.
LEMMA StartKeepsOrder ==
  ASSUME NEW l \in Seq(Frame), NEW y \in Frame, NEW p \in Packet, NEW s, NEW a,
         NEW d \in Seq(Nat), NEW n \in Nat,
         PacketOrder(l, NoFrame, p, s, a, d, n),
         \/ y \notin ReliableFrames
         \/ y.packet = p /\ y.seq = s /\ p # NoPacket
  PROVE  PacketOrder(l, y, p, s, a, d, n)
<1>1. CASE y \notin ReliableFrames
  <2>1. \A i, q : /\ y \notin Since(i) /\ y \notin Before(i)
                  /\ y \notin Numbered(i, q) /\ y \notin Renumbered(i, q)
    BY <1>1 DEF Since, Before, Numbered, Renumbered
  <2>2. \A S, T : /\ Without(l, NoFrame, S) /\ y \notin S => Without(l, y, S)
                  /\ NeverBehind(l, NoFrame, S, T) /\ y \notin T => NeverBehind(l, y, S, T)
    BY StartKeeps
  <2>3. Ascending(l, y, n)
    BY <2>1, <2>2 DEF PacketOrder, Ascending
  <2>4. NotAgain(l, y, a, d)
    BY <2>1, <2>2 DEF PacketOrder, NotAgain
  <2>5. p.reliable => Without(l, y, Renumbered(p.id, s))
    BY <2>1, <2>2 DEF PacketOrder
  <2> QED
    BY <2>3, <2>4, <2>5 DEF PacketOrder
<1>2. CASE y \in ReliableFrames /\ y.packet = p /\ y.seq = s /\ p # NoPacket
  <2>1. p.id = n /\ p.reliable /\ y.packet.id = n
    BY <1>2 DEF PacketOrder, ReliableFrames
  <2>2. /\ \A i : y \in Since(i) => n >= i
        /\ \A i : y \in Before(i) => n < i
        /\ \A i, q : y \in Numbered(i, q) => n = i /\ q = s
        /\ \A i, q : y \in Renumbered(i, q) => n = i /\ q # s
    BY <1>2, <2>1 DEF Since, Before, Numbered, Renumbered
  <2>3. \A q : q # s => ~Has(l, Numbered(n, q))
    <3> SUFFICES ASSUME NEW q, q # s, Has(l, Numbered(n, q)) PROVE FALSE
      OBVIOUS
    <3>1. Without(l, NoFrame, Renumbered(n, s))
      BY <2>1 DEF PacketOrder
    <3>2. Numbered(n, q) \subseteq Renumbered(n, s)
      BY DEF Numbered, Renumbered
    <3> QED
      BY <3>1, <3>2, Zenon DEF Without, Has
  <2>4. Ascending(l, y, n)
    <3>1. Without(l, y, Since(n + 1))
      <4>1. y \notin Since(n + 1)
        BY <2>2
      <4> QED
        BY <4>1, StartKeeps DEF PacketOrder, Ascending
    <3>2. ASSUME NEW i \in 0 .. n PROVE NeverBehind(l, y, Since(i), Before(i))
      <4>1. y \notin Before(i)
        BY <2>2
      <4>2. NeverBehind(l, NoFrame, Since(i), Before(i))
        BY DEF PacketOrder, Ascending
      <4> QED
        BY <4>1, <4>2, StartKeeps
    <3>3. ASSUME NEW i \in 0 .. n, NEW q \in 0 .. SeqModulus - 1
          PROVE  NeverBehind(l, y, Numbered(i, q), Renumbered(i, q))
      <4>1. y \in Renumbered(i, q) => ~Has(l, Numbered(i, q))
        BY <2>2, <2>3
      <4>2. NeverBehind(l, NoFrame, Numbered(i, q), Renumbered(i, q))
        BY DEF PacketOrder, Ascending
      <4> QED
        BY <4>1, <4>2, StartKeeps
    <3> QED
      BY <3>1, <3>2, <3>3 DEF Ascending
  <2>5. NotAgain(l, y, a, d)
    <3> SUFFICES ASSUME d # <<>>
                 PROVE  /\ Without(l, y, Before(LastOf(d)))
                        /\ Without(l, y, Numbered(LastOf(d), a))
      BY DEF NotAgain
    <3>1. Without(l, NoFrame, Before(LastOf(d))) /\ Without(l, NoFrame, Numbered(LastOf(d), a))
      BY DEF PacketOrder, NotAgain
    <3>2. LastOf(d) \in Nat /\ LastOf(d) <= n
      <4>1. Len(d) \in 1 .. Len(d) /\ d[Len(d)] \in Nat
        OBVIOUS
      <4> QED
        BY <4>1 DEF LastOf, PacketOrder
    <3>3. y \notin Before(LastOf(d))
      BY <2>2, <3>2
    <3>4. y \notin Numbered(LastOf(d), a)
      BY <2>1, <2>2 DEF PacketOrder
    <3> QED
      BY <3>1, <3>3, <3>4, StartKeeps
  <2>6. Without(l, y, Renumbered(p.id, s))
    <3>1. y \notin Renumbered(p.id, s) /\ Without(l, NoFrame, Renumbered(p.id, s))
      BY <2>1, <2>2 DEF PacketOrder
    <3> QED
      BY <3>1, StartKeeps
  <2> QED
    BY <2>4, <2>5, <2>6 DEF PacketOrder
<1> QED
  BY <1>1, <1>2

\* A packet submitted takes the place of the last one: no frame carries it yet.
LEMMA SubmitKeepsOrder ==
  ASSUME NEW l \in Seq(Frame), NEW p, NEW s, NEW a,
         NEW d \in Seq(Nat), NEW n \in Nat, NEW r \in BOOLEAN,
         PacketOrder(l, NoFrame, p, s, a, d, n)
  PROVE  PacketOrder(l, NoFrame, [id |-> n + 1, reliable |-> r], s, a, d, n + 1)
<1> DEFINE x == NoFrame
<1>1. Without(l, x, Since(n + 1))
  BY DEF PacketOrder, Ascending
<1> HIDE DEF x
<1>2. \A q : /\ Numbered(n + 1, q) \subseteq Since(n + 1)
             /\ Renumbered(n + 1, q) \subseteq Since(n + 1)
  BY DEF Numbered, Renumbered, Since
<1>3. \A q : Without(l, x, Renumbered(n + 1, q)) /\ ~Has(l, Numbered(n + 1, q))
  BY <1>1, <1>2, Zenon DEF Without, Has
<1>4. Since(n + 2) \subseteq Since(n + 1)
  BY DEF Since, ReliableFrames, DataFrames, Frame, Packet
<1>5. Ascending(l, x, n + 1)
  <2>1. Without(l, x, Since((n + 1) + 1))
    <3>1. (n + 1) + 1 = n + 2
      OBVIOUS
    <3> QED
      BY <1>1, <1>4, <3>1, WithoutSubset
  <2>2. ASSUME NEW i \in 0 .. n + 1 PROVE NeverBehind(l, x, Since(i), Before(i))
    <3>1. CASE i \in 0 .. n
      BY <3>1 DEF PacketOrder, Ascending, x
    <3>2. CASE i = n + 1
      BY <1>1, <3>2 DEF NeverBehind, Without, Has
    <3> QED
      BY <3>1, <3>2
  <2>3. ASSUME NEW i \in 0 .. n + 1, NEW q \in 0 .. SeqModulus - 1
        PROVE  NeverBehind(l, x, Numbered(i, q), Renumbered(i, q))
    <3>1. CASE i \in 0 .. n
      BY <3>1 DEF PacketOrder, Ascending, x
    <3>2. CASE i = n + 1
      BY <1>3, <3>2 DEF NeverBehind, Has
    <3> QED
      BY <3>1, <3>2
  <2> QED
    BY <2>1, <2>2, <2>3 DEF Ascending
<1>6. \A i \in 1 .. Len(d) : d[i] <= n + 1 /\ d[i] # n + 1
  BY DEF PacketOrder
<1>7. d # <<>> => LastOf(d) # n + 1
  BY <1>6 DEF LastOf
<1>8. NotAgain(l, x, a, d)
  BY DEF PacketOrder, x
<1> QED
  BY <1>3, <1>5, <1>6, <1>7, <1>8 DEF PacketOrder, x

\* The packet that comes out is later than those before, and will not come again.
LEMMA DeliverKeepsOrder ==
  ASSUME NEW l \in Seq(Frame), NEW x \in Frame, NEW p \in Packet,
         NEW s \in 0 .. SeqModulus - 1, NEW a \in 0 .. SeqModulus - 1,
         NEW d \in Seq(Nat), NEW n \in Nat,
         PacketOrder(l, x, p, s, a, d, n), l # <<>>, Head(l) \in Fresh(a)
  PROVE  LET i == Head(l).packet.id
         IN  /\ PacketOrder(Tail(l), x, p, s, (a + 1) % SeqModulus, Append(d, i), n)
             /\ d # <<>> => LastOf(d) < i
<1> DEFINE f == Head(l)
           i == f.packet.id
           b == (a + 1) % SeqModulus
           d2 == Append(d, i)
<1>1. /\ f \in ReliableFrames /\ f.seq = a /\ i \in Nat /\ f \in Frame
      /\ f \in Since(i) /\ f \in Numbered(i, a)
  BY SMTT(30) DEF Fresh, ReliableFrames, DataFrames, Frame, Packet, Since, Numbered
<1>2. b \in 0 .. SeqModulus - 1 /\ b # a
  BY NextNumber
<1>3. i <= n
  <2>1. f \notin Since(n + 1)
    BY HeadOf DEF PacketOrder, Ascending
  <2> QED
    BY <1>1, <2>1 DEF Since
<1>4. /\ Len(d2) \in Nat /\ d2 # <<>> /\ LastOf(d2) = i
      /\ \A j \in 1 .. Len(d2) : d2[j] <= n
  <2>1. /\ Len(d) \in Nat /\ Len(d2) = Len(d) + 1
        /\ \A j \in 1 .. Len(d) + 1 : d2[j] = IF j <= Len(d) THEN d[j] ELSE i
    BY <1>1
  <2> HIDE DEF d2
  <2>2. \A j \in 1 .. Len(d) : d[j] <= n
    BY DEF PacketOrder
  <2>3. d2 # <<>> /\ d2[Len(d2)] = i
    BY <2>1
  <2> QED
    BY <1>3, <2>1, <2>2, <2>3 DEF LastOf
<1>5. d # <<>> => LastOf(d) < i
  <2> SUFFICES ASSUME d # <<>> PROVE LastOf(d) < i
    OBVIOUS
  <2>1. LastOf(d) \in Nat
    BY DEF LastOf
  <2>2. f \notin Before(LastOf(d)) /\ f \notin Numbered(LastOf(d), a)
    BY HeadOf DEF PacketOrder, NotAgain
  <2> QED
    BY <1>1, <2>1, <2>2 DEF Before, Numbered
<1>6. PacketOrder(Tail(l), x, p, s, a, d, n)
  <2>1. Trims(l, x, Tail(l), x)
    BY DEF Trims
  <2> QED
    BY <2>1, TrimKeepsOrder
<1>7. NotAgain(Tail(l), x, b, d2)
  <2>1. Without(Tail(l), x, Before(i))
    <3>1. NeverBehind(l, x, Since(i), Before(i))
      BY <1>1, <1>3 DEF PacketOrder, Ascending
    <3> QED
      BY <1>1, <3>1, HeadOf
  <2>2. Without(Tail(l), x, Renumbered(i, a))
    <3>1. NeverBehind(l, x, Numbered(i, a), Renumbered(i, a))
      BY <1>1, <1>3 DEF PacketOrder, Ascending
    <3> QED
      BY <1>1, <3>1, HeadOf
  <2>3. Numbered(i, b) \subseteq Renumbered(i, a)
    BY <1>2 DEF Numbered, Renumbered
  <2>4. Without(Tail(l), x, Numbered(i, b))
    BY <2>2, <2>3, WithoutSubset
  <2> HIDE DEF d2, b, i, f
  <2> QED
    BY <1>4, <2>1, <2>4 DEF NotAgain
<1>8. p.reliable /\ p.id = i => s # b
  <2> SUFFICES ASSUME p.reliable, p.id = i PROVE s # b
    OBVIOUS
  <2>1. f \notin Renumbered(i, s)
    BY HeadOf DEF PacketOrder
  <2> QED
    BY <1>1, <1>2, <2>1 DEF Renumbered
<1> HIDE DEF d2, b, i, f
<1>9. PacketOrder(Tail(l), x, p, s, b, d2, n)
  BY <1>4, <1>6, <1>7, <1>8 DEF PacketOrder
<1> QED
  BY <1>5, <1>9 DEF d2, b, i, f

-----------------------------------------------------------------------------
(* The steps of the link keep the packets in order.                        *)

StreamsInOrder == \A e \in End : PacketsInOrder(e) /\ EngineInStep(e)

\* PacketsInOrder is the order of the stream from e.
LEMMA PacketOrderIs ==
  ASSUME NEW e \in End
  PROVE  PacketsInOrder(e) <=>
           PacketOrder(line[Other(e)], config[e].sending, config[e].send_packet,
                       config[e].sequence_number, config[Other(e)].ack_number,
                       delivered[Other(e)], packets[e])
BY Zenon DEF PacketsInOrder, PacketOrder

\* What a step of the receive loop does, but that of a reset peer, and what comes out.
LEMMA ReceiveOut ==
  ASSUME TypeOK, NEW e \in End, Receive(e), ~ReceivePeerReset(e), EngineInStep(e)
  PROVE  /\ line[e] # <<>>
         /\ Head(line[e]) \in Frame
         /\ line'[e] = Tail(line[e])
         /\ config'[Other(e)] = config[Other(e)]
         /\ poll'[Other(e)] = poll[Other(e)]
         /\ config[e].receive_packet
         /\ Received(e)
         /\ Buffered(e)
         /\ packets' = packets
         /\ delivered'[e] = IF Delivers(e)
                            THEN Append(delivered[e], Head(line[e]).packet.id)
                            ELSE delivered[e]
         /\ delivered'[Other(e)] = delivered[Other(e)]
<1> DEFINE new == poll'[e].activity \ poll[e].activity
<1>1. /\ line[e] # <<>>
      /\ Head(line[e]) \in Frame
      /\ line'[e] = Tail(line[e])
      /\ config'[Other(e)] = config[Other(e)]
      /\ poll'[Other(e)] = poll[Other(e)]
      /\ config[e].receive_packet
      /\ Received(e)
      /\ Buffered(e)
  <2>1. EngineType /\ ReceiveStep(e)
    BY WindowTypes DEF Receive
  <2> QED
    BY <2>1, ReceiveEffect
<1>2. /\ packets' = packets
      /\ delivered' = [delivered EXCEPT ![e] =
                         IF "RECEIVED" \in new /\ poll'[e].packet.reliable
                         THEN Append(@, poll'[e].packet.id) ELSE @]
  BY DEF Receive, callerVars
<1>3. /\ "RECEIVED" \in new /\ poll'[e].packet.reliable <=> Delivers(e)
      /\ Delivers(e) => poll'[e].packet = Head(line[e]).packet
  <2>1. "RECEIVED" \notin poll[e].activity
    BY <1>1 DEF EngineInStep
  <2>2. Delivers(e) => Head(line[e]).packet.reliable
    BY DEF Delivers, Fresh, ReliableFrames
  <2> QED
    BY <1>1, <2>1, <2>2 DEF Buffered
<1> HIDE DEF new
<1>4. delivered \in [End -> Seq(Nat)] /\ Other(e) \in End /\ Other(e) # e
  BY Ends DEF TypeOK
<1>5. /\ delivered'[e] = IF Delivers(e)
                         THEN Append(delivered[e], Head(line[e]).packet.id)
                         ELSE delivered[e]
      /\ delivered'[Other(e)] = delivered[Other(e)]
  BY <1>2, <1>3, <1>4
<1> QED
  BY <1>1, <1>2, <1>5

\* Numbers that grow go on growing.
LEMMA AppendKeepsAscent ==
  ASSUME NEW d \in Seq(Nat), NEW n \in Nat,
         \A i, j \in 1 .. Len(d) : i < j => d[i] < d[j],
         d # <<>> => LastOf(d) < n
  PROVE  \A i, j \in 1 .. Len(Append(d, n)) : i < j => Append(d, n)[i] < Append(d, n)[j]
<1> DEFINE d2 == Append(d, n)
<1>1. /\ Len(d) \in Nat /\ Len(d2) = Len(d) + 1
      /\ \A i \in 1 .. Len(d) + 1 : d2[i] = IF i <= Len(d) THEN d[i] ELSE n
      /\ \A i \in 1 .. Len(d) : d[i] \in Nat
  OBVIOUS
<1> HIDE DEF d2
<1> SUFFICES ASSUME NEW i \in 1 .. Len(d2), NEW j \in 1 .. Len(d2), i < j
             PROVE  d2[i] < d2[j]
  BY DEF d2
<1>2. i \in 1 .. Len(d) /\ d2[i] = d[i]
  BY <1>1
<1>3. CASE j <= Len(d)
  <2>1. j \in 1 .. Len(d) /\ d2[j] = d[j]
    BY <1>1, <1>3
  <2> QED
    BY <1>2, <2>1
<1>4. CASE ~(j <= Len(d))
  <2>1. d2[j] = n
    BY <1>1, <1>4
  <2>2. d # <<>>
    BY <1>2
  <2>3. i < Len(d) \/ i = Len(d)
    BY <1>1, <1>2
  <2>4. d[i] <= LastOf(d)
    <3>1. Len(d) \in 1 .. Len(d)
      BY <1>1, <1>2
    <3> QED
      BY <1>1, <1>2, <2>3, <3>1 DEF LastOf
  <2>5. LastOf(d) < n /\ LastOf(d) \in Nat /\ d[i] \in Nat
    BY <1>1, <1>2, <2>2 DEF LastOf
  <2> QED
    BY <1>2, <2>1, <2>4, <2>5
<1> QED
  BY <1>3, <1>4

\* A step of the receive loop, but that of a reset peer, keeps the order.
LEMMA ReceiveKeepsOrder ==
  ASSUME TypeOK, NEW e \in End, Receive(e), ~ReceivePeerReset(e), DeliveredInOrder,
         StreamsInOrder
  PROVE  DeliveredInOrder' /\ StreamsInOrder'
<1> DEFINE o == Other(e)
           f == Head(line[e])
<1>1. /\ o \in End /\ o # e /\ Other(o) = e
      /\ \A y \in End : y = e \/ y = o
      /\ line[e] \in Seq(Frame) /\ line[o] \in Seq(Frame)
      /\ config[e].sending \in Frame /\ config[o].sending \in Frame
      /\ config[o].send_packet \in Packet
      /\ config[o].sequence_number \in 0 .. SeqModulus - 1
      /\ config[e].ack_number \in 0 .. SeqModulus - 1
      /\ delivered[e] \in Seq(Nat) /\ packets[o] \in Nat
      /\ \A y \in End : PacketsInOrder(y) /\ EngineInStep(y)
  BY WindowTypes, Ends DEF TypeOK, StreamsInOrder
<1>2. /\ line[e] # <<>> /\ f \in Frame
      /\ line'[e] = Tail(line[e])
      /\ config'[o] = config[o] /\ poll'[o] = poll[o]
      /\ config[e].receive_packet
      /\ Received(e) /\ Buffered(e)
      /\ packets' = packets
      /\ delivered'[e] = IF Delivers(e) THEN Append(delivered[e], f.packet.id)
                         ELSE delivered[e]
      /\ delivered'[o] = delivered[o]
  BY <1>1, ReceiveOut
<1>3. /\ Trims(line[o], config[e].sending, line'[o], config'[e].sending)
      /\ Trims(line[e], config[o].sending, line'[e], config'[o].sending)
  BY <1>2 DEF Received, Trims
<1>4. EngineInStep(e)' /\ EngineInStep(o)'
  <2>1. "RECEIVED" \in poll'[e].activity => ~config'[e].receive_packet
    BY <1>1, <1>2 DEF Buffered, EngineInStep
  <2>2. "RECEIVED" \in poll'[o].activity => ~config'[o].receive_packet
    BY <1>1, <1>2 DEF EngineInStep
  <2> DEFINE S == LeFrames \cap NotAcking(0)
  <2>3. NoFrame \notin S /\ BadFrame \notin S
    BY MeaningOf
  <2>4. Without(line[o], config[e].sending, S) /\ Without(line[e], config[o].sending, S)
    BY <1>1 DEF EngineInStep
  <2> HIDE DEF S
  <2>5. /\ Without(line'[o], config'[e].sending, S)
        /\ Without(line'[e], config'[o].sending, S)
    BY <1>1, <1>3, <2>3, <2>4, TrimKeepsWithout
  <2> QED
    BY <1>1, <2>1, <2>2, <2>5 DEF EngineInStep, S
<1>5. PacketsInOrder(e)'
  <2> DEFINE l == line[o]
             x == config[e].sending
             p == config[e].send_packet
             s == config[e].sequence_number
             a == config[o].ack_number
             d == delivered[o]
             n == packets[e]
  <2>1. PacketOrder(l, x, p, s, a, d, n)
    BY <1>1, PacketOrderIs
  <2>2. PacketOrder(line'[o], config'[e].sending, p, s, a, d, n)
    BY <1>1, <1>3, <2>1, TrimKeepsOrder
  <2>3. \/ config'[e].send_packet = p /\ config'[e].sequence_number = s
        \/ config'[e].send_packet = NoPacket
    BY <1>2 DEF Received
  <2> HIDE DEF l, x, p, s, a, d, n
  <2>4. PacketOrder(line'[o], config'[e].sending, config'[e].send_packet,
                    config'[e].sequence_number, a, d, n)
    BY <2>2, <2>3, ClearKeepsOrder
  <2>5. config'[o].ack_number = a /\ delivered'[o] = d /\ packets'[e] = n
    BY <1>2 DEF a, d, n
  <2> QED
    BY <2>4, <2>5, Zenon DEF PacketsInOrder, PacketOrder
<1>6. PacketsInOrder(o)' /\ DeliveredInOrder'
  <2> DEFINE l == line[e]
             x == config[o].sending
             p == config[o].send_packet
             s == config[o].sequence_number
             a == config[e].ack_number
             d == delivered[e]
             n == packets[o]
  <2>1. PacketOrder(l, x, p, s, a, d, n)
    BY <1>1, PacketOrderIs
  <2>2. \A i, j \in 1 .. Len(d) : i < j => d[i] < d[j]
    BY DEF DeliveredInOrder
  <2>3. CASE Delivers(e)
    <3>1. Head(l) \in Fresh(a) /\ config'[e].ack_number = (a + 1) % SeqModulus
      BY <1>2, <2>3 DEF Delivers, Received
    <3>2. delivered'[e] = Append(d, f.packet.id)
      BY <1>2, <2>3
    <3> HIDE DEF l, x, p, s, a, d, n
    <3>3. /\ PacketOrder(Tail(l), x, p, s, (a + 1) % SeqModulus, Append(d, Head(l).packet.id), n)
          /\ d # <<>> => LastOf(d) < Head(l).packet.id
      BY <1>1, <1>2, <2>1, <3>1, DeliverKeepsOrder DEF l, x, p, s, a, d, n
    <3>4. PacketOrder(line'[e], config'[o].sending, config'[o].send_packet,
                      config'[o].sequence_number, config'[e].ack_number, delivered'[e],
                      packets'[o])
      BY <1>2, <3>1, <3>2, <3>3 DEF l, x, p, s, n
    <3>5. f.packet.id \in Nat
      BY <1>2 DEF Frame, Packet
    <3>6. \A i, j \in 1 .. Len(delivered'[e]) : i < j => delivered'[e][i] < delivered'[e][j]
      <4>1. d \in Seq(Nat) /\ (d # <<>> => LastOf(d) < f.packet.id)
        BY <1>1, <3>3 DEF l, d
      <4>2. \A i, j \in 1 .. Len(Append(d, f.packet.id)) :
              i < j => Append(d, f.packet.id)[i] < Append(d, f.packet.id)[j]
        BY <2>2, <3>5, <4>1, AppendKeepsAscent
      <4> QED
        BY <3>2, <4>2
    <3>7. DeliveredInOrder'
      BY <1>1, <1>2, <3>6 DEF DeliveredInOrder
    <3> QED
      BY <1>1, <3>4, <3>7, Zenon DEF PacketsInOrder, PacketOrder
  <2>4. CASE ~Delivers(e)
    <3>1. delivered'[e] = d /\ config'[e].ack_number = a /\ packets'[o] = n
      BY <1>2, <2>4 DEF Received
    <3>2. PacketOrder(line'[e], config'[o].sending, p, s, a, d, n)
      BY <1>1, <1>3, <2>1, TrimKeepsOrder
    <3>3. config'[o].send_packet = p /\ config'[o].sequence_number = s
      BY <1>2
    <3>4. DeliveredInOrder'
      <4>1. \A y \in End : delivered'[y] = delivered[y]
        BY <1>1, <1>2, <3>1
      <4> QED
        BY <4>1 DEF DeliveredInOrder
    <3> HIDE DEF l, x, p, s, a, d, n
    <3>5. PacketOrder(line'[e], config'[o].sending, config'[o].send_packet,
                      config'[o].sequence_number, config'[e].ack_number, delivered'[e],
                      packets'[o])
      BY <3>1, <3>2, <3>3
    <3> QED
      BY <1>1, <3>4, <3>5, Zenon DEF PacketsInOrder, PacketOrder
  <2> QED
    BY <2>3, <2>4
<1> QED
  BY <1>1, <1>4, <1>5, <1>6 DEF StreamsInOrder

\* A transmit step from c and w, of which the order holds, keeps it.
LEMMA TransmitKeepsOrder ==
  ASSUME TypeOK, NEW e \in End, NEW c \in Config, NEW w \in Seq(Frame),
         TransmitStep(e, c, w), NEW n \in Nat, packets'[e] = n,
         PacketOrder(w, c.sending, c.send_packet, c.sequence_number,
                     config[Other(e)].ack_number, delivered[Other(e)], n),
         Without(w, c.sending, LeFrames \cap NotAcking(0)),
         c.ack_number = config[e].ack_number,
         delivered' = delivered, packets'[Other(e)] = packets[Other(e)],
         PacketsInOrder(Other(e)), EngineInStep(Other(e))
  PROVE  StreamsInOrder'
<1> DEFINE o == Other(e)
           d == config'[e]
           p == c.send_packet
           s == c.sequence_number
           a == config[o].ack_number
           dd == delivered[o]
           S == LeFrames \cap NotAcking(0)
<1>1. /\ o \in End /\ Other(o) = e /\ EngineType
      /\ \A y \in End : y = e \/ y = o
      /\ dd \in Seq(Nat)
      /\ c.sending \in Frame /\ p \in Packet
  BY WindowTypes, Ends DEF TypeOK, Config
<1>2. /\ d.sequence_number = s
      /\ d.ack_number = c.ack_number
      /\ config'[o] = config[o]
      /\ line'[e] = line[e]
      /\ poll'[o] = poll[o]
      /\ "RECEIVED" \notin poll'[e].activity
      /\ Continues(e, c, w) \/ \E y \in Frame : Starts(e, c, w, y)
  BY <1>1, TransmitEffect
<1>3. PacketsInOrder(o)'
  BY <1>1, <1>2 DEF PacketsInOrder
<1>4. EngineInStep(o)'
  BY <1>1, <1>2 DEF EngineInStep
<1>5. NoFrame \notin S /\ BadFrame \notin S
  BY MeaningOf
<1>6. /\ PacketOrder(line'[o], d.sending, d.send_packet, s, a, dd, n)
      /\ Without(line'[o], d.sending, S)
  <2> HIDE DEF d, p, s, a, dd, S, o
  <2>1. CASE Continues(e, c, w)
    <3>1. Trims(w, c.sending, line'[o], d.sending)
      BY <2>1 DEF Continues, o, d
    <3>2. d.send_packet = p \/ d.send_packet = NoPacket
      BY <2>1 DEF Continues, p, d
    <3>3. PacketOrder(line'[o], d.sending, p, s, a, dd, n)
      BY <1>1, <3>1, TrimKeepsOrder DEF p, s, a, dd, o
    <3>4. PacketOrder(line'[o], d.sending, d.send_packet, s, a, dd, n)
      BY <3>2, <3>3, ClearKeepsOrder
    <3>5. Without(line'[o], d.sending, S)
      BY <1>1, <1>5, <3>1, TrimKeepsWithout DEF S
    <3> QED
      BY <3>4, <3>5
  <2>2. ASSUME NEW y \in Frame, Starts(e, c, w, y)
        PROVE  /\ PacketOrder(line'[o], d.sending, d.send_packet, s, a, dd, n)
               /\ Without(line'[o], d.sending, S)
    <3>1. /\ c.sending = NoFrame /\ line'[o] = w /\ d.sending = y /\ d.send_packet = p
      BY <2>2 DEF Starts, o, d, p
    <3>2. \/ y \in {LeFrame(k) : k \in LeMessage}
          \/ y = AckFrame(c)
          \/ y = DataFrame(c) /\ p # NoPacket
      BY <2>2 DEF Starts, p
    <3>3. y \notin ReliableFrames \/ (y.packet = p /\ y.seq = s /\ p # NoPacket)
      BY <3>2 DEF ReliableFrames, DataFrames, LeFrame, LeMessage, AckFrame, DataFrame, p, s
    <3>4. y \notin S
      BY <3>2 DEF S, LeFrames, NotAcking, LeFrame, LeMessage, AckFrame, DataFrame
    <3>5. PacketOrder(w, NoFrame, p, s, a, dd, n) /\ Without(w, NoFrame, S)
      BY <3>1 DEF p, s, a, dd, S, o
    <3>6. PacketOrder(w, y, p, s, a, dd, n)
      BY <1>1, <3>3, <3>5, StartKeepsOrder
    <3>7. Without(w, y, S)
      BY <3>4, <3>5, StartKeeps
    <3> QED
      BY <3>1, <3>6, <3>7
  <2> QED
    BY <1>2, <2>1, <2>2
<1>7. PacketsInOrder(e)'
  <2>1. /\ d.sequence_number = s /\ config'[o].ack_number = a
        /\ delivered'[o] = dd /\ packets'[e] = n
    BY <1>2
  <2> HIDE DEF s, a, dd
  <2>2. PacketOrder(line'[o], config'[e].sending, config'[e].send_packet,
                    config'[e].sequence_number, config'[o].ack_number, delivered'[o], packets'[e])
    BY <1>6, <2>1
  <2> QED
    BY <2>2, Zenon DEF PacketsInOrder, PacketOrder
<1>8. EngineInStep(e)'
  BY <1>2, <1>6 DEF EngineInStep
<1> QED
  BY <1>1, <1>3, <1>4, <1>7, <1>8 DEF StreamsInOrder

\* A poll that submits nothing keeps the order.
LEMMA NextPollKeepsOrder ==
  ASSUME TypeOK, NEW e \in End, NextPoll(e), StreamsInOrder
  PROVE  StreamsInOrder'
<1> DEFINE o == Other(e)
           c == Returned(e)
           w == line[o]
<1>1. /\ o \in End /\ EngineType /\ w \in Seq(Frame) /\ packets[e] \in Nat
      /\ PacketsInOrder(e) /\ EngineInStep(e) /\ PacketsInOrder(o) /\ EngineInStep(o)
  BY WindowTypes, Ends DEF TypeOK, StreamsInOrder
<1>2. /\ c \in Config
      /\ c.sequence_number = config[e].sequence_number
      /\ c.ack_number = config[e].ack_number
      /\ c.send_packet = config[e].send_packet
      /\ c.sending = config[e].sending
  BY <1>1, ReturnedIs
<1> HIDE DEF c
<1>3. PacketOrder(w, c.sending, c.send_packet, c.sequence_number,
                  config[o].ack_number, delivered[o], packets[e])
  BY <1>1, <1>2, PacketOrderIs
<1>4. Without(w, c.sending, LeFrames \cap NotAcking(0))
  BY <1>1, <1>2 DEF EngineInStep
<1>5. TransmitStep(e, c, w) /\ delivered' = delivered /\ packets' = packets
  BY DEF NextPoll, c
<1> QED
  BY <1>1, <1>2, <1>3, <1>4, <1>5, TransmitKeepsOrder

\* A poll that submits a packet keeps the order, whatever became of the last one.
LEMMA SubmitKeepsStreams ==
  ASSUME TypeOK, NEW e \in End, Submit(e), StreamsInOrder
  PROVE  StreamsInOrder'
<1> DEFINE o == Other(e)
           n == packets[e]
           p == config[e].send_packet
           s == config[e].sequence_number
           a == config[o].ack_number
           d == delivered[o]
           S == LeFrames \cap NotAcking(0)
<1>1. /\ o \in End /\ o # e /\ EngineType /\ n \in Nat /\ d \in Seq(Nat)
      /\ line[o] \in Seq(Frame) /\ config[e].sending \in Frame
      /\ PacketsInOrder(e) /\ EngineInStep(e) /\ PacketsInOrder(o) /\ EngineInStep(o)
  BY WindowTypes, Ends DEF TypeOK, StreamsInOrder
<1>2. PICK r \in BOOLEAN, w \in Seq(Frame), c \in Config :
        /\ TransmitStep(e, c, w)
        /\ Trims(line[o], config[e].sending, w, c.sending)
        /\ c.sequence_number = s
        /\ c.ack_number = config[e].ack_number
        /\ c.sending = NoFrame
        /\ c.send_packet = [id |-> n + 1, reliable |-> r]
  BY SubmitPoll, ZenonT(30)
<1>3. packets'[e] = n + 1 /\ packets'[o] = packets[o] /\ delivered' = delivered
  BY <1>1 DEF Submit, TypeOK
<1>4. PacketOrder(line[o], config[e].sending, p, s, a, d, n)
  BY <1>1, PacketOrderIs
<1>5. NoFrame \notin S /\ BadFrame \notin S
  BY MeaningOf
<1>6. Without(line[o], config[e].sending, S)
  BY <1>1 DEF EngineInStep
<1> HIDE DEF n, p, s, a, d, S
<1>7. PacketOrder(w, NoFrame, p, s, a, d, n)
  BY <1>1, <1>2, <1>4, TrimKeepsOrder
<1>8. PacketOrder(w, NoFrame, [id |-> n + 1, reliable |-> r], s, a, d, n + 1)
  BY <1>1, <1>7, SubmitKeepsOrder
<1>9. Without(w, c.sending, S)
  BY <1>1, <1>2, <1>5, <1>6, TrimKeepsWithout
<1>10. n + 1 \in Nat
  BY <1>1
<1>11. PacketOrder(w, c.sending, c.send_packet, c.sequence_number, a, d, n + 1)
  BY <1>2, <1>8
<1> QED
  BY <1>1, <1>2, <1>3, <1>9, <1>10, <1>11, TransmitKeepsOrder DEF a, d, S

\* A frame damaged or lost keeps the order.
LEMMA NoiseKeepsOrder ==
  ASSUME TypeOK, NEW e \in End, Noise(e), StreamsInOrder
  PROVE  StreamsInOrder'
<1> DEFINE o == Other(e)
           x == config[o].sending
           S == LeFrames \cap NotAcking(0)
<1>1. /\ o \in End /\ o # e /\ Other(o) = e /\ \A y \in End : y = e \/ y = o
      /\ line[e] \in Seq(Frame) /\ x \in Frame
      /\ PacketsInOrder(e) /\ EngineInStep(e) /\ PacketsInOrder(o) /\ EngineInStep(o)
  BY WindowTypes, Ends DEF StreamsInOrder
<1>2. /\ config' = config /\ poll' = poll /\ packets' = packets /\ delivered' = delivered
      /\ line'[o] = line[o]
      /\ Trims(line[e], x, line'[e], x)
  BY <1>1 DEF Noise, callerVars, TypeOK, Trims
<1>3. PacketsInOrder(e)' /\ EngineInStep(e)'
  BY <1>1, <1>2 DEF PacketsInOrder, EngineInStep
<1>4. PacketsInOrder(o)'
  <2> DEFINE p == config[o].send_packet
             s == config[o].sequence_number
             a == config[e].ack_number
             d == delivered[e]
             n == packets[o]
  <2>1. PacketOrder(line[e], x, p, s, a, d, n)
    BY <1>1, PacketOrderIs
  <2> HIDE DEF x, p, s, a, d, n
  <2>2. PacketOrder(line'[e], x, p, s, a, d, n)
    BY <1>1, <1>2, <2>1, TrimKeepsOrder
  <2>3. /\ config'[o].sending = x /\ config'[o].send_packet = p
        /\ config'[o].sequence_number = s /\ config'[e].ack_number = a
        /\ delivered'[e] = d /\ packets'[o] = n
    BY <1>2 DEF x, p, s, a, d, n
  <2>4. PacketOrder(line'[e], config'[o].sending, config'[o].send_packet,
                    config'[o].sequence_number, config'[e].ack_number, delivered'[e],
                    packets'[o])
    BY <2>2, <2>3
  <2> QED
    BY <1>1, <2>4, Zenon DEF PacketsInOrder, PacketOrder
<1>5. EngineInStep(o)'
  <2>1. NoFrame \notin S /\ BadFrame \notin S
    BY MeaningOf
  <2>2. Without(line[e], x, S)
    BY <1>1 DEF EngineInStep
  <2> HIDE DEF S
  <2>3. Without(line'[e], x, S)
    BY <1>1, <1>2, <2>1, <2>2, TrimKeepsWithout
  <2> QED
    BY <1>1, <1>2, <2>3 DEF EngineInStep, S
<1> QED
  BY <1>1, <1>3, <1>4, <1>5 DEF StreamsInOrder

\* What an active end does with a SYNC: it begins again, and loses its packet only
\* if the header's ACK, which is 0, is not its sequence number.
LEMMA ResetEffect ==
  ASSUME TypeOK, NEW e \in End, Receive(e), ReceivePeerReset(e),
         EngineInStep(e), EngineInStep(Other(e))
  PROVE  LET o == Other(e)
             c == config[e]
             d == config'[e]
         IN  /\ line[e] # <<>> /\ Head(line[e]) \in SyncFrames
             /\ c.link_establishment_state = active
             /\ d.link_establishment_state = uninitialized
             /\ d.link_establishment_packet = "sync"
             /\ d.link_establishment_resp = c.link_establishment_resp
             /\ d.sending = NoFrame
             /\ d.sequence_number = 0 /\ d.ack_number = 0
             /\ \/ d.send_packet = NoPacket
                \/ /\ d.send_packet = c.send_packet
                   /\ c.send_packet.reliable => c.sequence_number = 0
             /\ d.receive_packet
             /\ "RECEIVED" \notin poll'[e].activity
             /\ config'[o] = config[o] /\ poll'[o] = poll[o]
             /\ line'[e] = Tail(line[e])
             /\ line'[o] \in Seq(Frame)
             /\ \A x : Trims(line[o], x, line'[o], NoFrame)
             /\ packets' = packets /\ delivered' = delivered
             /\ mayCall' = mayCall
<1> DEFINE o == Other(e)
           c == config[e]
           f == Head(line[e])
           g == AfterAck(c, f)
<1>1. /\ o \in End /\ o # e /\ Other(o) = e /\ EngineType /\ c \in Config
      /\ poll \in [End -> Poll] /\ config \in [End -> Config] /\ line \in [End -> Seq(Frame)]
  BY WindowTypes, Ends DEF TypeOK
<1>2. /\ Receiving(e, {"sync"}) /\ c.link_establishment_state = active
      /\ config' = [config EXCEPT ![e] = ubcsp_initialize(g)]
      /\ poll' = [poll EXCEPT ![e].activity = @ \cup {"PEER_RESET"}]
      /\ \E rest \in Abandoned(e) : line' = [line EXCEPT ![e] = Tail(@), ![o] = @ \o rest]
  BY DEF ReceivePeerReset, Take
<1>3. /\ line[e] # <<>> /\ f \in Frame /\ f.kind = "sync" /\ f \in SyncFrames
      /\ g \in Config /\ c.receive_packet
  BY <1>1, <1>2, ReceivingType DEF Receiving, SyncFrames
<1>4. f.ack = 0
  <2>1. f \notin LeFrames \cap NotAcking(0)
    BY <1>1, <1>3, HeadOf DEF EngineInStep
  <2> QED
    BY <1>3, <2>1 DEF LeFrames, NotAcking, Headers, LeMessage
<1>5. /\ g.send_packet = IF Acknowledged(c, f) THEN NoPacket ELSE c.send_packet
      /\ g.link_establishment_resp = c.link_establishment_resp
      /\ g.receive_packet = c.receive_packet
  BY <1>1 DEF AfterAck, Config
<1> HIDE DEF g, f
<1>6. /\ config'[e].link_establishment_state = uninitialized
      /\ config'[e].link_establishment_packet = "sync"
      /\ config'[e].link_establishment_resp = c.link_establishment_resp
      /\ config'[e].sending = NoFrame
      /\ config'[e].sequence_number = 0 /\ config'[e].ack_number = 0
      /\ config'[e].send_packet = g.send_packet
      /\ config'[e].receive_packet
  <2> DEFINE i == ubcsp_initialize(g)
  <2>1. /\ i.link_establishment_state = uninitialized
        /\ i.link_establishment_packet = "sync"
        /\ i.link_establishment_resp = g.link_establishment_resp
        /\ i.sending = NoFrame
        /\ i.sequence_number = 0 /\ i.ack_number = 0
        /\ i.send_packet = g.send_packet
        /\ i.receive_packet = g.receive_packet
    BY <1>3 DEF ubcsp_initialize, Config
  <2>2. config'[e] = i
    BY <1>1, <1>2
  <2> HIDE DEF i
  <2> QED
    BY <1>3, <1>5, <2>1, <2>2
<1>7. \/ g.send_packet = NoPacket
      \/ g.send_packet = c.send_packet /\ (c.send_packet.reliable => c.sequence_number = 0)
  BY <1>4, <1>5 DEF Acknowledged
<1>8. /\ config'[o] = config[o] /\ poll'[o] = poll[o]
      /\ poll'[e].activity = poll[e].activity \cup {"PEER_RESET"}
  BY <1>1, <1>2 DEF Poll
<1>9. "RECEIVED" \notin poll'[e].activity
  BY <1>3, <1>8 DEF EngineInStep
<1>10. /\ line'[e] = Tail(line[e]) /\ line'[o] \in Seq(Frame)
       /\ \A x : Trims(line[o], x, line'[o], NoFrame)
  <2>1. PICK rest \in Abandoned(e) : line' = [line EXCEPT ![e] = Tail(@), ![o] = @ \o rest]
    BY <1>2
  <2>2. line'[e] = Tail(line[e]) /\ line'[o] = line[o] \o rest
    BY <1>1, <2>1
  <2> QED
    BY <1>1, <2>2, AbandonedTrims
<1>11. packets' = packets /\ delivered' = delivered /\ mayCall' = mayCall
  <2>1. delivered' = [delivered EXCEPT ![e] = delivered[e]]
    BY <1>9 DEF Receive
  <2> QED
    BY <2>1 DEF Receive, callerVars, TypeOK
<1> QED
  BY <1>2, <1>3, <1>6, <1>7, <1>8, <1>9, <1>10, <1>11 DEF f

\* An active end that learns that the other has begun again keeps the order: its
\* own packet keeps its number or goes, and behind the SYNC there is no data.
LEMMA ResetKeepsOrder ==
  ASSUME TypeOK, NEW e \in End, Receive(e), ReceivePeerReset(e), StreamsInOrder,
         config[Other(e)].send_packet = NoPacket,
         NeverBehind(line[e], config[Other(e)].sending, SyncFrames, DataFrames)
  PROVE  StreamsInOrder' /\ delivered' = delivered
<1> DEFINE o == Other(e)
           c == config[e]
           d == config'[e]
           S == LeFrames \cap NotAcking(0)
<1>1. /\ o \in End /\ o # e /\ Other(o) = e /\ \A y \in End : y = e \/ y = o
      /\ line[e] \in Seq(Frame) /\ line[o] \in Seq(Frame)
      /\ c.sending \in Frame /\ config[o].sending \in Frame
      /\ PacketsInOrder(e) /\ EngineInStep(e) /\ PacketsInOrder(o) /\ EngineInStep(o)
  BY WindowTypes, Ends DEF StreamsInOrder
<1>2. /\ line[e] # <<>> /\ Head(line[e]) \in SyncFrames
      /\ d.sending = NoFrame
      /\ d.sequence_number = 0 /\ d.ack_number = 0
      /\ \/ d.send_packet = NoPacket
         \/ /\ d.send_packet = c.send_packet
            /\ c.send_packet.reliable => c.sequence_number = 0
      /\ "RECEIVED" \notin poll'[e].activity
      /\ config'[o] = config[o] /\ poll'[o] = poll[o]
      /\ line'[e] = Tail(line[e])
      /\ line'[o] \in Seq(Frame)
      /\ Trims(line[o], c.sending, line'[o], NoFrame)
      /\ packets' = packets /\ delivered' = delivered
  BY <1>1, ResetEffect
<1>3. Trims(line[e], config[o].sending, line'[e], config[o].sending)
  BY <1>2 DEF Trims
<1>4. NoFrame \notin S /\ BadFrame \notin S
  BY MeaningOf
<1>5. Without(line[o], c.sending, S) /\ Without(line[e], config[o].sending, S)
  BY <1>1 DEF EngineInStep
<1>6. EngineInStep(e)' /\ EngineInStep(o)'
  <2> HIDE DEF S, c, d
  <2>1. Without(line'[o], NoFrame, S) /\ Without(line'[e], config[o].sending, S)
    BY <1>1, <1>2, <1>3, <1>4, <1>5, TrimKeepsWithout DEF c
  <2> QED
    BY <1>1, <1>2, <2>1 DEF EngineInStep, S, d
<1>7. PacketsInOrder(e)'
  <2> DEFINE p == c.send_packet
             s == c.sequence_number
             a == config[o].ack_number
             dd == delivered[o]
             n == packets[e]
  <2>1. PacketOrder(line[o], c.sending, p, s, a, dd, n)
    BY <1>1, PacketOrderIs
  <2> HIDE DEF p, s, a, dd, n, c
  <2>2. PacketOrder(line'[o], NoFrame, p, s, a, dd, n)
    BY <1>1, <1>2, <2>1, TrimKeepsOrder
  <2>3. PacketOrder(line'[o], NoFrame, d.send_packet, 0, a, dd, n)
    <3>1. CASE d.send_packet = NoPacket
      BY <2>2, <3>1, ClearKeepsOrder
    <3>2. CASE d.send_packet = p /\ (p.reliable => s = 0)
      BY <2>2, <3>2 DEF PacketOrder
    <3> QED
      BY <1>2, <3>1, <3>2 DEF c, p, s
  <2>4. PacketOrder(line'[o], config'[e].sending, config'[e].send_packet,
                    config'[e].sequence_number, config'[o].ack_number, delivered'[o], packets'[e])
    BY <1>2, <2>3 DEF a, dd, n
  <2> QED
    BY <2>4, Zenon DEF PacketsInOrder, PacketOrder
<1>8. PacketsInOrder(o)'
  <2> DEFINE x == config[o].sending
             s == config[o].sequence_number
             a == c.ack_number
             dd == delivered[e]
             n == packets[o]
  <2>1. PacketOrder(line[e], x, NoPacket, s, a, dd, n)
    BY <1>1, PacketOrderIs
  <2>2. Without(Tail(line[e]), x, DataFrames)
    BY <1>1, <1>2, HeadOf
  <2> HIDE DEF x, s, a, dd, n, c
  <2>3. PacketOrder(line'[e], x, NoPacket, s, a, dd, n)
    BY <1>1, <1>3, <2>1, TrimKeepsOrder DEF x
  <2>4. NotAgain(line'[e], x, 0, dd)
    <3>1. Numbered(LastOf(dd), 0) \subseteq DataFrames
      BY DEF Numbered, ReliableFrames
    <3>2. Without(line'[e], x, Numbered(LastOf(dd), 0))
      BY <1>2, <2>2, <3>1, Zenon DEF Without, Has
    <3> QED
      BY <2>3, <3>2 DEF PacketOrder, NotAgain
  <2>5. PacketOrder(line'[e], x, NoPacket, s, 0, dd, n)
    <3>1. ~NoPacket.reliable
      BY DEF NoPacket
    <3> QED
      BY <2>3, <2>4, <3>1 DEF PacketOrder
  <2>6. PacketOrder(line'[e], config'[o].sending, config'[o].send_packet,
                    config'[o].sequence_number, config'[e].ack_number, delivered'[e], packets'[o])
    BY <1>2, <2>5 DEF x, s, dd, n
  <2> QED
    BY <1>1, <2>6, Zenon DEF PacketsInOrder, PacketOrder
<1> QED
  BY <1>1, <1>2, <1>6, <1>7, <1>8 DEF StreamsInOrder

\* What is lost with the buffer of an end that restarts leaves no disorder.
LEMMA LostKeepsOrder ==
  ASSUME NEW l \in Seq(Frame), NEW x, NEW l2 \in {<<>>, l}, NEW S, NEW T
  PROVE  /\ Without(l, x, S) => Without(l2, x, S)
         /\ NeverBehind(l, x, S, T) => NeverBehind(l2, x, S, T)
BY DEF Without, NeverBehind, Has

\* What an end that restarts begins with.
LEMMA FirstIs ==
  /\ FirstConfig.link_establishment_state = uninitialized
  /\ FirstConfig.link_establishment_packet = "sync"
  /\ FirstConfig.link_establishment_resp = 0
  /\ FirstConfig.sending = LeFrame("sync")
  /\ FirstConfig.send_packet = NoPacket
  /\ FirstConfig.sequence_number = 0
  /\ FirstConfig.ack_number = 0
  /\ FirstConfig.receive_packet
  /\ FirstPoll.activity = {}
BY DEF FirstConfig, FirstPoll, Established, Boot, NextLePacket, next_le_packet,
       uninitialized

\* What a restart of e changes.
LEMMA RestartEffect ==
  ASSUME TypeOK, NEW e \in End, Restart(e)
  PROVE  LET o == Other(e)
         IN  /\ config'[e] = FirstConfig /\ poll'[e] = FirstPoll
             /\ config'[o] = config[o] /\ poll'[o] = poll[o]
             /\ line'[e] \in {<<>>, line[e]}
             /\ line'[o] \in Seq(Frame)
             /\ \A x : Trims(line[o], x, line'[o], NoFrame)
             /\ ~mayCall'[e]
             /\ delivered'[e] = <<>> /\ delivered'[o] = delivered[o]
             /\ packets' = packets
<1>1. /\ Other(e) \in End /\ Other(e) # e /\ EngineType
      /\ line \in [End -> Seq(Frame)] /\ config \in [End -> Config] /\ poll \in [End -> Poll]
      /\ delivered \in [End -> Seq(Nat)] /\ mayCall \in [End -> BOOLEAN]
  BY WindowTypes, Ends DEF TypeOK
<1>2. PICK kept \in {<<>>, line[e]}, rest \in Abandoned(e) :
        line' = [line EXCEPT ![e] = kept, ![Other(e)] = @ \o rest]
  BY DEF Restart
<1>3. line'[e] = kept /\ line'[Other(e)] = line[Other(e)] \o rest
  BY <1>1, <1>2
<1>4. /\ line'[Other(e)] \in Seq(Frame)
      /\ \A x : Trims(line[Other(e)], x, line'[Other(e)], NoFrame)
  BY <1>1, <1>3, AbandonedTrims
<1>5. /\ config'[e] = FirstConfig /\ poll'[e] = FirstPoll
      /\ config'[Other(e)] = config[Other(e)] /\ poll'[Other(e)] = poll[Other(e)]
      /\ delivered'[e] = <<>> /\ delivered'[Other(e)] = delivered[Other(e)]
      /\ packets' = packets
  BY <1>1 DEF Restart
<1>6. ~mayCall'[e]
  BY <1>1, Zenon DEF Restart
<1> QED
  BY <1>3, <1>4, <1>5, <1>6

\* A restart keeps the order: nothing has come out at that end, and it has no packet.
LEMMA RestartKeepsOrder ==
  ASSUME TypeOK, NEW e \in End, Restart(e), StreamsInOrder, DeliveredInOrder
  PROVE  StreamsInOrder' /\ DeliveredInOrder'
<1> DEFINE o == Other(e)
           S == LeFrames \cap NotAcking(0)
           y == LeFrame("sync")
<1>1. /\ o \in End /\ o # e /\ Other(o) = e /\ \A z \in End : z = e \/ z = o
      /\ line[e] \in Seq(Frame) /\ line[o] \in Seq(Frame)
      /\ config[e].sending \in Frame
      /\ delivered[o] \in Seq(Nat) /\ packets[e] \in Nat
      /\ PacketsInOrder(e) /\ EngineInStep(e) /\ PacketsInOrder(o) /\ EngineInStep(o)
  BY WindowTypes, Ends DEF StreamsInOrder, TypeOK
<1>2. /\ config'[e] = FirstConfig /\ poll'[e] = FirstPoll
      /\ config'[o] = config[o] /\ poll'[o] = poll[o]
      /\ line'[e] \in {<<>>, line[e]}
      /\ line'[o] \in Seq(Frame)
      /\ Trims(line[o], config[e].sending, line'[o], NoFrame)
      /\ delivered'[e] = <<>> /\ delivered'[o] = delivered[o]
      /\ packets' = packets
  BY RestartEffect
<1>3. y \in Frame /\ y \notin ReliableFrames /\ y \notin S
  BY FrameTypes DEF LeFrame, LeMessage, ReliableFrames, DataFrames, LeFrames, NotAcking
<1>4. NoFrame \notin S /\ BadFrame \notin S
  BY MeaningOf
<1>5. EngineInStep(e)' /\ EngineInStep(o)'
  <2>1. Without(line[o], config[e].sending, S) /\ Without(line[e], config[o].sending, S)
    BY <1>1 DEF EngineInStep
  <2> HIDE DEF S, y
  <2>2. Without(line'[o], NoFrame, S)
    BY <1>1, <1>2, <1>4, <2>1, TrimKeepsWithout
  <2>3. Without(line'[o], y, S)
    BY <1>3, <2>2, StartKeeps
  <2>4. Without(line'[e], config[o].sending, S)
    BY <1>1, <1>2, <2>1, LostKeepsOrder
  <2> QED
    BY <1>1, <1>2, <2>3, <2>4, FirstIs DEF EngineInStep, S, y
<1>6. PacketsInOrder(e)'
  <2> DEFINE p == config[e].send_packet
             s == config[e].sequence_number
             a == config[o].ack_number
             d == delivered[o]
             n == packets[e]
  <2>1. PacketOrder(line[o], config[e].sending, p, s, a, d, n)
    BY <1>1, PacketOrderIs
  <2> HIDE DEF p, s, a, d, n, y
  <2>2. PacketOrder(line'[o], NoFrame, p, s, a, d, n)
    BY <1>1, <1>2, <2>1, TrimKeepsOrder
  <2>3. PacketOrder(line'[o], NoFrame, NoPacket, 0, a, d, n)
    BY <2>2, ClearKeepsOrder
  <2>4. PacketOrder(line'[o], y, NoPacket, 0, a, d, n)
    BY <1>1, <1>2, <1>3, <2>3, StartKeepsOrder, FrameTypes DEF d, n
  <2>5. PacketOrder(line'[o], config'[e].sending, config'[e].send_packet,
                    config'[e].sequence_number, config'[o].ack_number, delivered'[o], packets'[e])
    BY <1>2, <2>4, FirstIs DEF a, d, n, y
  <2> QED
    BY <2>5, Zenon DEF PacketsInOrder, PacketOrder
<1>7. PacketsInOrder(o)'
  <2> DEFINE x == config[o].sending
             p == config[o].send_packet
             s == config[o].sequence_number
             a == config[e].ack_number
             d == delivered[e]
             n == packets[o]
  <2>1. PacketOrder(line[e], x, p, s, a, d, n)
    BY <1>1, PacketOrderIs
  <2> HIDE DEF x, p, s, a, d, n
  <2>2. Ascending(line'[e], x, n)
    BY <1>1, <1>2, <2>1, LostKeepsOrder DEF PacketOrder, Ascending
  <2>3. p.reliable => Without(line'[e], x, Renumbered(p.id, s))
    BY <1>1, <1>2, <2>1, LostKeepsOrder DEF PacketOrder
  <2>4. p # NoPacket => p.id = n
    BY <2>1 DEF PacketOrder
  <2>5. PacketOrder(line'[e], x, p, s, 0, <<>>, n)
    BY <2>2, <2>3, <2>4 DEF PacketOrder, NotAgain
  <2>6. PacketOrder(line'[e], config'[o].sending, config'[o].send_packet,
                    config'[o].sequence_number, config'[e].ack_number, delivered'[e], packets'[o])
    BY <1>2, <2>5, FirstIs DEF x, p, s, n
  <2> QED
    BY <1>1, <2>6, Zenon DEF PacketsInOrder, PacketOrder
<1>8. DeliveredInOrder'
  <2>1. Len(delivered'[e]) = 0
    BY <1>2
  <2>2. ASSUME NEW z \in End, NEW i \in 1 .. Len(delivered'[z]), NEW j \in 1 .. Len(delivered'[z]), i < j
        PROVE  delivered'[z][i] < delivered'[z][j]
    <3>1. z # e
      BY <2>1, <2>2
    <3>2. delivered'[z] = delivered[z]
      BY <1>1, <1>2, <3>1
    <3> QED
      BY <2>2, <3>2 DEF DeliveredInOrder
  <2> QED
    BY <2>2 DEF DeliveredInOrder
<1> QED
  BY <1>1, <1>5, <1>6, <1>7, <1>8 DEF StreamsInOrder

-----------------------------------------------------------------------------
(* A restart that the other end has not noticed.                           *)

\* A frame that is none of an establishment leaves what the engine decides alone.
LEMMA OtherFrames ==
  ASSUME TypeOK, NEW e \in End, Receive(e), Head(line[e]).kind \notin LeMessage
  PROVE  LET c == config[e]
             d == config'[e]
         IN  /\ line[e] # <<>>
             /\ ~ReceivePeerReset(e)
             /\ d.link_establishment_state = c.link_establishment_state
             /\ d.link_establishment_packet = c.link_establishment_packet
             /\ d.link_establishment_resp = c.link_establishment_resp
             /\ d.sending = c.sending
             /\ c.send_packet = NoPacket
                  => d.send_packet = NoPacket /\ (Sent(e)' <=> Sent(e))
             /\ config'[Other(e)] = config[Other(e)]
             /\ poll'[Other(e)] = poll[Other(e)]
             /\ line'[e] = Tail(line[e]) /\ line'[Other(e)] = line[Other(e)]
             /\ mayCall' = mayCall
<1> DEFINE o == Other(e)
           c == config[e]
           f == Head(line[e])
           g == AfterAck(c, f)
           b == AckActivity(c, f)
           Same(d) == /\ d.link_establishment_state = c.link_establishment_state
                      /\ d.link_establishment_packet = c.link_establishment_packet
                      /\ d.link_establishment_resp = c.link_establishment_resp
                      /\ d.sending = c.sending
                      /\ c.send_packet = NoPacket => d.send_packet = NoPacket
<1>1. /\ o \in End /\ o # e /\ EngineType /\ c \in Config /\ ReceiveStep(e)
      /\ poll \in [End -> Poll] /\ config \in [End -> Config] /\ line \in [End -> Seq(Frame)]
  BY WindowTypes, Ends DEF TypeOK, Receive
<1>2. \A k : Receiving(e, k) => f \in Frame /\ f.kind \in k /\ line[e] # <<>> /\ g \in Config
  BY <1>1, ReceivingType DEF Receiving
<1>3. "sync" \in LeMessage /\ "sync_resp" \in LeMessage /\ "conf" \in LeMessage
      /\ "conf_resp" \in LeMessage
  BY DEF LeMessage
<1>4. ReceiveBad(e) \/ ReceiveAck(e) \/ ReceiveDuplicate(e) \/ ReceivePacket(e)
  <2>1. ~Receiving(e, {"sync"}) /\ ~Receiving(e, {"sync_resp"}) /\ ~Receiving(e, {"conf"})
        /\ ~Receiving(e, {"conf_resp"})
    BY <1>3 DEF Receiving
  <2> QED
    BY <1>1, <2>1
    DEF ReceiveStep, ReceiveSync, ReceivePeerReset, ReceiveSyncResp, ReceiveConf, ReceiveConfResp
<1>5. ~ReceivePeerReset(e)
  BY <1>3 DEF ReceivePeerReset, Receiving
<1>6. /\ Same(g)
      /\ c.send_packet = NoPacket => b = {}
  BY <1>1 DEF AfterAck, AckActivity, Acknowledged, Config
<1>7. /\ Same(config'[e])
      /\ config'[o] = config[o] /\ poll'[o] = poll[o]
      /\ line[e] # <<>> /\ line' = [line EXCEPT ![e] = Tail(@)]
      /\ \E a \in SUBSET {"RECEIVED", "ACK"} :
           \/ poll'[e].activity = poll[e].activity \cup a
           \/ poll'[e].activity = poll[e].activity \cup b \cup a
  <2> HIDE DEF f, g, b, o, c
  <2>1. \A d, a : Take(e, d, a)
          => /\ config'[e] = d /\ config'[o] = config[o] /\ poll'[o] = poll[o]
             /\ poll'[e].activity = poll[e].activity \cup a
    BY <1>1 DEF Take, Poll
  <2>2. {} \in SUBSET {"RECEIVED", "ACK"}
    OBVIOUS
  <2>3. CASE ReceiveBad(e)
    <3> DEFINE d == [c EXCEPT !.send_ack = TRUE]
    <3>1. /\ Take(e, d, {}) /\ line[e] # <<>> /\ line' = [line EXCEPT ![e] = Tail(@)]
      BY <2>3 DEF ReceiveBad, Receiving, c
    <3>2. Same(d)
      BY <1>1 DEF Config
    <3> HIDE DEF d, Same
    <3>3. config'[e] = d /\ poll'[e].activity = poll[e].activity \cup {}
      BY <2>1, <3>1
    <3> QED
      BY <2>1, <2>2, <3>1, <3>2, <3>3
  <2>4. CASE ReceiveAck(e)
    <3>1. /\ Take(e, g, b) /\ line[e] # <<>> /\ line' = [line EXCEPT ![e] = Tail(@)]
      BY <2>4 DEF ReceiveAck, Receiving, g, b, f, c
    <3> HIDE DEF Same
    <3>2. poll'[e].activity = poll[e].activity \cup b \cup {}
      BY <2>1, <3>1
    <3> QED
      BY <1>6, <2>1, <2>2, <3>1, <3>2
  <2>5. CASE ReceiveDuplicate(e)
    <3> DEFINE d == [g EXCEPT !.send_ack = TRUE]
    <3>1. /\ Take(e, d, b) /\ line[e] # <<>> /\ line' = [line EXCEPT ![e] = Tail(@)]
      BY <2>5 DEF ReceiveDuplicate, Receiving, g, b, f, c
    <3>2. g \in Config
      BY <1>2, <2>5 DEF ReceiveDuplicate
    <3>3. Same(d)
      BY <1>6, <3>2 DEF Config
    <3> HIDE DEF d, Same
    <3>4. poll'[e].activity = poll[e].activity \cup b \cup {}
      BY <2>1, <3>1
    <3> QED
      BY <2>1, <2>2, <3>1, <3>3, <3>4
  <2>6. CASE ReceivePacket(e)
    <3> DEFINE d == [g EXCEPT !.receive_packet = FALSE]
               h == [d EXCEPT !.send_ack = TRUE,
                              !.ack_number = (@ + 1) % SeqModulus,
                              !.delay = 0]
               a == b \cup {"RECEIVED"}
    <3>1. /\ line[e] # <<>> /\ line' = [line EXCEPT ![e] = Tail(@)]
          /\ \/ /\ config' = [config EXCEPT ![e] = h]
                /\ poll' = [poll EXCEPT ![e].activity = @ \cup a \cup {"ACK"},
                                        ![e].packet = f.packet]
             \/ /\ config' = [config EXCEPT ![e] = d]
                /\ poll' = [poll EXCEPT ![e].activity = @ \cup a, ![e].packet = f.packet]
      BY <2>6 DEF ReceivePacket, Receiving, g, b, f, c
    <3>2. g \in Config
      BY <1>2, <2>6 DEF ReceivePacket
    <3>3. Same(d) /\ d \in Config
      BY <1>6, <3>2 DEF Config
    <3>4. Same(h)
      <4> HIDE DEF d
      <4> QED
        BY <3>3 DEF Config
    <3> HIDE DEF d, h, Same
    <3>5. /\ config'[e] = h \/ config'[e] = d
          /\ config'[o] = config[o] /\ poll'[o] = poll[o]
      BY <1>1, <3>1
    <3>6. \/ poll'[e].activity = poll[e].activity \cup a \cup {"ACK"}
          \/ poll'[e].activity = poll[e].activity \cup a
      BY <1>1, <3>1 DEF Poll
    <3>7. \/ poll'[e].activity = poll[e].activity \cup b \cup {"RECEIVED", "ACK"}
          \/ poll'[e].activity = poll[e].activity \cup b \cup {"RECEIVED"}
      BY <3>6
    <3>8. {"RECEIVED", "ACK"} \in SUBSET {"RECEIVED", "ACK"} /\ {"RECEIVED"} \in SUBSET {"RECEIVED", "ACK"}
      OBVIOUS
    <3> QED
      BY <3>1, <3>3, <3>4, <3>5, <3>7, <3>8
  <2> QED
    BY <1>4, <2>3, <2>4, <2>5, <2>6
<1>8. c.send_packet = NoPacket => (Sent(e)' <=> Sent(e))
  <2> HIDE DEF b, c
  <2>1. PICK a \in SUBSET {"RECEIVED", "ACK"} :
           \/ poll'[e].activity = poll[e].activity \cup a
           \/ poll'[e].activity = poll[e].activity \cup b \cup a
    BY <1>7
  <2>2. "SENT" \notin a
    BY <2>1
  <2> QED
    BY <1>6, <2>1, <2>2 DEF Sent
<1>9. line'[e] = Tail(line[e]) /\ line'[o] = line[o]
  BY <1>1, <1>7
<1>10. mayCall' = mayCall
  BY DEF Receive, callerVars
<1> HIDE DEF f, g, b
<1> QED
  BY <1>5, <1>7, <1>8, <1>9, <1>10

\* While it is not noticed, what e sends is SYNC.
LEMMA UnnoticedSends ==
  ASSUME TypeOK, NEW e \in End, NextPoll(e), BeginsAgain(e)
  PROVE  LET c == config[e]
             d == config'[e]
         IN  /\ d.link_establishment_state = uninitialized
             /\ d.link_establishment_packet = "sync"
             /\ d.link_establishment_resp = 0
             /\ d.send_packet = NoPacket
             /\ ~Sent(e)'
             /\ config'[Other(e)] = config[Other(e)]
             /\ line'[e] = line[e]
             /\ \/ Trims(line[Other(e)], c.sending, line'[Other(e)], d.sending)
                \/ /\ c.sending = NoFrame /\ line'[Other(e)] = line[Other(e)]
                   /\ d.sending = LeFrame("sync")
             /\ d.sending \in {NoFrame, LeFrame("sync")}
<1> DEFINE o == Other(e)
           c == Returned(e)
           w == line[o]
<1>1. /\ o \in End /\ o # e /\ EngineType
      /\ config \in [End -> Config] /\ poll \in [End -> Poll] /\ line \in [End -> Seq(Frame)]
  BY WindowTypes, Ends DEF TypeOK
<1>2. /\ c \in Config
      /\ c.link_establishment_state = uninitialized
      /\ c.link_establishment_packet = "sync"
      /\ c.link_establishment_resp = 0
      /\ c.send_packet = NoPacket
      /\ c.sending = config[e].sending
      /\ c.sending \in {NoFrame, LeFrame("sync")}
  BY <1>1, ReturnedIs DEF BeginsAgain
<1>3. \A d, t, x, a : EnterReceive(e, d, t, x, a)
        => /\ config'[e] = d
           /\ config'[o] = config[o]
           /\ line'[e] = line[e]
           /\ line'[o] = t
           /\ Sent(e)' <=> "SENT" \in a
  BY <1>1 DEF EnterReceive, Sent
<1> HIDE DEF c, o
<1>4. \/ SendDelayed(e, c, w) \/ SendOctet(e, c, w) \/ SendLast(e, c, w) \/ StartLe(e, c, w)
  <2>1. ~Ready(c) /\ TransmitStep(e, c, w)
    BY <1>2 DEF Ready, NextPoll, c, o
  <2> QED
    BY <2>1 DEF TransmitStep, StartConfResp, StartData, StartAck, SendNothing
<1>5. CASE SendDelayed(e, c, w) \/ SendOctet(e, c, w)
  <2>1. config'[e] = c /\ line'[o] = w /\ line'[e] = line[e] /\ config'[o] = config[o]
        /\ ~Sent(e)'
    BY <1>3, <1>5 DEF SendDelayed, SendOctet
  <2> QED
    BY <1>2, <2>1 DEF Trims, o
<1>6. CASE SendLast(e, c, w)
  <2>1. ~SentUnreliable(c)
    BY <1>2 DEF SentUnreliable
  <2> DEFINE d == [c EXCEPT !.sending = NoFrame, !.send_packet = c.send_packet]
             t == Append(w, c.sending)
  <2>2. EnterReceive(e, d, t, PollDelay, {})
    BY <1>6, <2>1 DEF SendLast
  <2>3. /\ d.link_establishment_state = uninitialized
        /\ d.link_establishment_packet = "sync"
        /\ d.link_establishment_resp = 0
        /\ d.send_packet = NoPacket
        /\ d.sending = NoFrame
    BY <1>2 DEF Config
  <2> HIDE DEF d, t
  <2>4. config'[e] = d /\ line'[o] = t /\ line'[e] = line[e]
        /\ config'[o] = config[o] /\ ~Sent(e)'
    BY <1>3, <2>2
  <2> QED
    BY <1>2, <2>3, <2>4 DEF Trims, o, t
<1>7. CASE StartLe(e, c, w)
  <2> DEFINE d == Established(c)
  <2>1. EnterReceive(e, d, w, 0, {}) /\ c.sending = NoFrame
    BY <1>7 DEF StartLe
  <2>2. NextLePacket(c) = "sync"
    BY <1>2 DEF NextLePacket, next_le_packet, uninitialized
  <2>3. /\ d.link_establishment_state = uninitialized
        /\ d.link_establishment_packet = "sync"
        /\ d.link_establishment_resp = 0
        /\ d.send_packet = NoPacket
        /\ d.sending = LeFrame("sync")
    BY <1>2, <2>2 DEF Config, Established
  <2> HIDE DEF d
  <2>4. config'[e] = d /\ line'[o] = w /\ line'[e] = line[e]
        /\ config'[o] = config[o] /\ ~Sent(e)'
    BY <1>3, <2>1
  <2> QED
    BY <1>2, <2>1, <2>3, <2>4 DEF o
<1> QED
  BY <1>4, <1>5, <1>6, <1>7

\* Neither finishing nor dropping nor losing a frame tells of the restart.
LEMMA TrimKeepsUnnoticed ==
  ASSUME TypeOK, NEW e \in End, Unnoticed(e), NEW o \in End, o = Other(e),
         Trims(line[e], config[o].sending, line'[e], config'[o].sending),
         Trims(line[o], config[e].sending, line'[o], config'[e].sending)
  PROVE  /\ Without(line'[e], config'[o].sending, LeFrames)
         /\ Without(line'[o], config'[e].sending, LeFrames \ SyncFrames)
         /\ NeverBehind(line'[o], config'[e].sending, SyncFrames, DataFrames)
         /\ config'[e].sending \in {NoFrame, LeFrame("sync")}
<1> DEFINE S == LeFrames \ SyncFrames
<1>1. /\ line[e] \in Seq(Frame) /\ line[o] \in Seq(Frame)
      /\ config[e].sending \in Frame /\ config[o].sending \in Frame
  BY WindowTypes
<1>2. /\ NoFrame \notin LeFrames /\ BadFrame \notin LeFrames
      /\ NoFrame \notin S /\ BadFrame \notin S
      /\ NoFrame \notin DataFrames /\ BadFrame \notin DataFrames
  BY MeaningOf
<1>3. NoFrame \notin SyncFrames /\ BadFrame \notin SyncFrames
  BY DEF SyncFrames, NoFrame, BadFrame, LeFrame
<1>4. /\ Without(line[e], config[o].sending, LeFrames)
      /\ Without(line[o], config[e].sending, S)
      /\ NeverBehind(line[o], config[e].sending, SyncFrames, DataFrames)
      /\ config[e].sending \in {NoFrame, LeFrame("sync")}
  BY Zenon DEF Unnoticed, BeginsAgain
<1>5. config'[e].sending \in {config[e].sending, NoFrame}
  BY DEF Trims
<1> HIDE DEF S
<1>6. Without(line'[e], config'[o].sending, LeFrames)
  BY <1>1, <1>2, <1>4, TrimKeepsWithout
<1>7. Without(line'[o], config'[e].sending, S)
  BY <1>1, <1>2, <1>4, TrimKeepsWithout
<1>8. NeverBehind(line'[o], config'[e].sending, SyncFrames, DataFrames)
  BY <1>1, <1>2, <1>3, <1>4, TrimKeepsBehind
<1> QED
  BY <1>4, <1>5, <1>6, <1>7, <1>8 DEF S

\* e itself takes nothing that it would answer.
LEMMA ReceiveUnnoticed ==
  ASSUME TypeOK, NEW e \in End, Unnoticed(e), Receive(e)
  PROVE  Unnoticed(e)'
<1> DEFINE o == Other(e)
<1>1. o \in End /\ line[e] \in Seq(Frame) /\ line[e] # <<>> /\ Head(line[e]) \in Frame
  <2>1. line[e] # <<>>
    BY DEF Receive, ReceiveStep, ReceiveBad, ReceiveSync, ReceivePeerReset, ReceiveSyncResp,
           ReceiveConf, ReceiveConfResp, ReceiveAck, ReceiveDuplicate, ReceivePacket, Receiving
  <2> QED
    BY <2>1, WindowTypes, Ends
<1>2. Head(line[e]).kind \notin LeMessage
  <2>1. Head(line[e]) \notin LeFrames
    BY <1>1, HeadOf DEF Unnoticed, BeginsAgain
  <2> QED
    BY <1>1, <2>1 DEF LeFrames
<1>3. /\ config'[e].link_establishment_state = config[e].link_establishment_state
      /\ config'[e].link_establishment_packet = config[e].link_establishment_packet
      /\ config'[e].link_establishment_resp = config[e].link_establishment_resp
      /\ config'[e].sending = config[e].sending
      /\ config[e].send_packet = NoPacket
           => config'[e].send_packet = NoPacket /\ (Sent(e)' <=> Sent(e))
      /\ config'[o] = config[o]
      /\ line'[e] = Tail(line[e]) /\ line'[o] = line[o]
      /\ mayCall' = mayCall
  BY <1>2, OtherFrames
<1>4. /\ Trims(line[e], config[o].sending, line'[e], config'[o].sending)
      /\ Trims(line[o], config[e].sending, line'[o], config'[e].sending)
  BY <1>1, <1>3 DEF Trims
<1>5. /\ Without(line'[e], config'[o].sending, LeFrames)
      /\ Without(line'[o], config'[e].sending, LeFrames \ SyncFrames)
      /\ NeverBehind(line'[o], config'[e].sending, SyncFrames, DataFrames)
      /\ config'[e].sending \in {NoFrame, LeFrame("sync")}
  BY <1>1, <1>4, TrimKeepsUnnoticed
<1> QED
  BY <1>3, <1>5, Zenon DEF Unnoticed, BeginsAgain

\* The other end takes a SYNC for a reset, and then both are at the beginning of one
\* establishment; any other frame tells it nothing.
LEMMA ReceiveNotices ==
  ASSUME TypeOK, StreamsInOrder, NEW e \in End, Unnoticed(e), NEW o \in End, o = Other(e),
         Receive(o)
  PROVE  IF Head(line[o]) \in SyncFrames THEN Handshake' ELSE Unnoticed(e)'
<1>1. /\ Other(o) = e /\ e # o /\ \A y \in End : y = e \/ y = o
      /\ line[o] \in Seq(Frame) /\ config[e].sending \in Frame
      /\ line[e] \in Seq(Frame) /\ config[o].sending \in Frame
      /\ EngineInStep(e) /\ EngineInStep(o)
  BY WindowTypes, Ends DEF StreamsInOrder
<1>2. line[o] # <<>> /\ Head(line[o]) \in Frame
  <2>1. line[o] # <<>>
    BY DEF Receive, ReceiveStep, ReceiveBad, ReceiveSync, ReceivePeerReset, ReceiveSyncResp,
           ReceiveConf, ReceiveConfResp, ReceiveAck, ReceiveDuplicate, ReceivePacket, Receiving
  <2> QED
    BY <1>1, <2>1
<1>3. Head(line[o]).kind \in LeMessage => Head(line[o]).kind = "sync"
  <2>1. Head(line[o]) \notin LeFrames \ SyncFrames
    BY <1>1, <1>2, HeadOf DEF Unnoticed, BeginsAgain
  <2> QED
    BY <1>2, <2>1 DEF LeFrames, SyncFrames
<1>4. ASSUME Head(line[o]).kind \notin LeMessage PROVE Unnoticed(e)'
  <2>1. /\ config'[o].link_establishment_state = config[o].link_establishment_state
        /\ config'[o].link_establishment_packet = config[o].link_establishment_packet
        /\ config'[o].link_establishment_resp = config[o].link_establishment_resp
        /\ config'[o].sending = config[o].sending
        /\ config'[e] = config[e] /\ poll'[e] = poll[e]
        /\ line'[o] = Tail(line[o]) /\ line'[e] = line[e]
        /\ mayCall' = mayCall
    BY <1>1, <1>4, OtherFrames
  <2>2. /\ Trims(line[e], config[o].sending, line'[e], config'[o].sending)
        /\ Trims(line[o], config[e].sending, line'[o], config'[e].sending)
    BY <1>2, <2>1 DEF Trims
  <2>3. /\ Without(line'[e], config'[o].sending, LeFrames)
        /\ Without(line'[o], config'[e].sending, LeFrames \ SyncFrames)
        /\ NeverBehind(line'[o], config'[e].sending, SyncFrames, DataFrames)
        /\ config'[e].sending \in {NoFrame, LeFrame("sync")}
    BY <2>2, TrimKeepsUnnoticed
  <2>4. Sent(e)' <=> Sent(e)
    BY <2>1 DEF Sent
  <2> QED
    BY <2>1, <2>3, <2>4, Zenon DEF Unnoticed, BeginsAgain
<1>5. ASSUME Head(line[o]).kind = "sync" PROVE Handshake'
  <2>1. ReceivePeerReset(o)
    <3>1. config[o].link_establishment_state = active
      BY DEF Unnoticed, BeginsAgain
    <3>2. ~(config[o].link_establishment_state < active)
      BY <3>1 DEF active
    <3> QED
      BY <1>5, <3>1, <3>2
      DEF Receive, ReceiveStep, ReceiveBad, ReceiveSync, ReceiveSyncResp, ReceiveConf,
          ReceiveConfResp, ReceiveAck, ReceiveDuplicate, ReceivePacket, Receiving
  <2>2. /\ config'[o].link_establishment_state = uninitialized
        /\ config'[o].link_establishment_packet = "sync"
        /\ config'[o].link_establishment_resp = config[o].link_establishment_resp
        /\ config'[o].sending = NoFrame
        /\ config'[e] = config[e]
        /\ line'[o] = Tail(line[o]) /\ line'[e] \in Seq(Frame)
        /\ Trims(line[e], config[o].sending, line'[e], config'[o].sending)
    BY <1>1, <2>1, ResetEffect, ZenonT(30)
  <2>3. Trims(line[o], config[e].sending, line'[o], config'[e].sending)
    BY <1>2, <2>2 DEF Trims
  <2>4. /\ Without(line'[e], config'[o].sending, LeFrames)
        /\ Without(line'[o], config'[e].sending, LeFrames \ SyncFrames)
    BY <2>2, <2>3, TrimKeepsUnnoticed
  <2>5. line'[e] \in Seq(Frame) /\ line'[o] \in Seq(Frame)
    BY <1>1, <1>2, <2>2
  <2>6. ~Carries(line'[e], "conf_resp") /\ ~Carries(line'[o], "conf_resp")
        /\ ~Carries(line'[e], "sync")
    BY <2>4, <2>5 DEF Carries, Without, Has, LeFrames, SyncFrames, LeMessage
  <2>7. SyncsFirst(line'[e]) /\ SyncsFirst(line'[o])
    BY <2>6 DEF SyncsFirst, Carries
  <2>8. /\ config[e].link_establishment_state = uninitialized
        /\ config[e].link_establishment_packet = "sync"
        /\ config[e].link_establishment_resp = 0
        /\ config[o].link_establishment_resp = 0
        /\ config[e].sending \in {NoFrame, LeFrame("sync")}
    BY DEF Unnoticed, BeginsAgain
  <2>9. config'[o].sending.kind = "none" /\ config[e].sending.kind \in {"none", "sync"}
    BY <2>2, <2>8 DEF NoFrame, LeFrame
  <2>10. LeSuitsState(config'[e]) /\ LeSuitsState(config'[o])
    BY <2>2, <2>8, <2>9 DEF LeSuitsState
  <2>11. /\ config'[e].link_establishment_state # active
         /\ config'[o].link_establishment_state # active
    BY <2>2, <2>8 DEF uninitialized, active
  <2> QED
    BY <1>1, <2>6, <2>7, <2>10, <2>11 DEF Handshake
<1>6. Head(line[o]) \in SyncFrames <=> Head(line[o]).kind = "sync"
  BY <1>2 DEF SyncFrames
<1> QED
  BY <1>3, <1>4, <1>5, <1>6 DEF LeMessage

\* A poll at e starts or finishes a SYNC.
LEMMA PollUnnoticed ==
  ASSUME TypeOK, NEW e \in End, Unnoticed(e), NextPoll(e)
  PROVE  Unnoticed(e)'
<1> DEFINE o == Other(e)
           d == config'[e]
           y == LeFrame("sync")
<1>1. o \in End /\ mayCall \in [End -> BOOLEAN]
  BY Ends DEF TypeOK
<1>2. /\ d.link_establishment_state = uninitialized
      /\ d.link_establishment_packet = "sync"
      /\ d.link_establishment_resp = 0
      /\ d.send_packet = NoPacket
      /\ ~Sent(e)'
      /\ config'[o] = config[o]
      /\ line'[e] = line[e]
      /\ \/ Trims(line[o], config[e].sending, line'[o], d.sending)
         \/ config[e].sending = NoFrame /\ line'[o] = line[o] /\ d.sending = y
      /\ d.sending \in {NoFrame, y}
  BY UnnoticedSends DEF Unnoticed
<1>3. ~mayCall'[e]
  <2>1. mayCall' = [mayCall EXCEPT ![e] = @ \/ Sent(e)] /\ ~mayCall[e] /\ ~Sent(e)
    BY DEF NextPoll, Unnoticed, BeginsAgain
  <2> QED
    BY <1>1, <2>1, Zenon
<1>4. /\ Without(line'[e], config'[o].sending, LeFrames)
      /\ Without(line'[o], d.sending, LeFrames \ SyncFrames)
      /\ NeverBehind(line'[o], d.sending, SyncFrames, DataFrames)
  <2>1. Without(line'[e], config'[o].sending, LeFrames)
    BY <1>2 DEF Unnoticed, BeginsAgain
  <2>2. CASE Trims(line[o], config[e].sending, line'[o], d.sending)
    <3>1. Trims(line[e], config[o].sending, line'[e], config'[o].sending)
      BY <1>2 DEF Trims
    <3> QED
      BY <1>1, <2>2, <3>1, TrimKeepsUnnoticed
  <2>3. CASE config[e].sending = NoFrame /\ line'[o] = line[o] /\ d.sending = y
    <3>1. y \notin LeFrames \ SyncFrames /\ y \notin DataFrames
      BY FrameTypes DEF LeFrame, LeFrames, SyncFrames, DataFrames
    <3>2. /\ Without(line[o], NoFrame, LeFrames \ SyncFrames)
          /\ NeverBehind(line[o], NoFrame, SyncFrames, DataFrames)
      BY <2>3 DEF Unnoticed, BeginsAgain
    <3> QED
      BY <2>1, <2>3, <3>1, <3>2, StartKeeps
  <2> QED
    BY <1>2, <2>2, <2>3
<1>5. /\ config[o].link_establishment_state = active
      /\ config[o].link_establishment_packet = "none"
      /\ config[o].link_establishment_resp = 0
  BY DEF Unnoticed, BeginsAgain
<1> QED
  BY <1>2, <1>3, <1>4, <1>5, Zenon DEF Unnoticed, BeginsAgain

\* A transmit step of the other end starts no message of an establishment.
LEMMA TransmitUnnoticed ==
  ASSUME TypeOK, NEW e \in End, Unnoticed(e), NEW o \in End, o = Other(e),
         NEW c \in Config, NEW w \in Seq(Frame), TransmitStep(o, c, w),
         Trims(line[e], config[o].sending, w, c.sending),
         c.link_establishment_state = active,
         c.link_establishment_packet = "none",
         c.link_establishment_resp = 0,
         mayCall'[e] = mayCall[e]
  PROVE  Unnoticed(e)'
<1>1. /\ Other(o) = e /\ o # e /\ EngineType
      /\ line[e] \in Seq(Frame) /\ config[o].sending \in Frame /\ c.sending \in Frame
  BY WindowTypes, Ends DEF Config
<1>2. /\ config'[o].link_establishment_state = active
      /\ config'[e] = config[e]
      /\ line'[o] = line[o]
      /\ poll'[e] = poll[e]
      /\ Continues(o, c, w) \/ \E y \in Frame : Starts(o, c, w, y)
  BY <1>1, TransmitEffect
<1>3. Quiet(c)
  BY DEF Quiet
<1>4. /\ config'[o].link_establishment_packet = "none"
      /\ config'[o].link_establishment_resp = 0
  BY <1>2, <1>3 DEF Continues, Starts
<1>5. NoFrame \notin LeFrames /\ BadFrame \notin LeFrames
  BY MeaningOf
<1>6. Without(w, c.sending, LeFrames)
  <2>1. Without(line[e], config[o].sending, LeFrames)
    BY DEF Unnoticed, BeginsAgain
  <2> QED
    BY <1>1, <1>5, <2>1, TrimKeepsWithout
<1>7. Without(line'[e], config'[o].sending, LeFrames)
  <2>1. CASE Continues(o, c, w)
    <3>1. Trims(w, c.sending, line'[e], config'[o].sending)
      BY <1>1, <2>1 DEF Continues
    <3> QED
      BY <1>1, <1>5, <1>6, <3>1, TrimKeepsWithout
  <2>2. ASSUME NEW y \in Frame, Starts(o, c, w, y)
        PROVE  Without(line'[e], config'[o].sending, LeFrames)
    <3>1. /\ c.sending = NoFrame /\ line'[e] = w /\ config'[o].sending = y
          /\ y = AckFrame(c) \/ y = DataFrame(c)
      BY <1>1, <1>3, <2>2 DEF Starts
    <3>2. y \notin LeFrames
      BY <3>1 DEF LeFrames, LeMessage, AckFrame, DataFrame
    <3> QED
      BY <1>6, <3>1, <3>2, StartKeeps
  <2> QED
    BY <1>2, <2>1, <2>2
<1>8. Sent(e)' <=> Sent(e)
  BY <1>2 DEF Sent
<1> QED
  BY <1>1, <1>2, <1>4, <1>7, <1>8, Zenon DEF Unnoticed, BeginsAgain

\* Until the other end takes a SYNC, nothing happens that tells it.
LEMMA UnnoticedStep ==
  ASSUME TypeOK, StreamsInOrder, NEW e \in End, Unnoticed(e), [Next]_vars
  PROVE  \/ Unnoticed(e)'
         \/ /\ Receive(Other(e)) /\ Head(line[Other(e)]) \in SyncFrames
            /\ Handshake'
<1> DEFINE o == Other(e)
<1>1. /\ o \in End /\ o # e /\ Other(o) = e /\ \A y \in End : y = e \/ y = o
      /\ EngineType /\ line[e] \in Seq(Frame) /\ line[o] \in Seq(Frame)
      /\ mayCall \in [End -> BOOLEAN]
      /\ config[o].link_establishment_state = active
      /\ config[o].link_establishment_packet = "none"
      /\ config[o].link_establishment_resp = 0
  BY WindowTypes, Ends DEF Unnoticed, BeginsAgain, TypeOK
<1>2. CASE Receive(e)
  BY <1>2, ReceiveUnnoticed
<1>3. CASE Receive(o)
  BY <1>1, <1>3, ReceiveNotices
<1>4. CASE NextPoll(e)
  BY <1>4, PollUnnoticed
<1>5. CASE NextPoll(o)
  <2> DEFINE c == Returned(o)
             w == line[e]
  <2>1. /\ c \in Config
        /\ c.link_establishment_state = active
        /\ c.link_establishment_packet = "none"
        /\ c.link_establishment_resp = 0
        /\ c.sending = config[o].sending
    BY <1>1, ReturnedIs
  <2>2. TransmitStep(o, c, w)
    BY <1>1, <1>5 DEF NextPoll
  <2>3. mayCall'[e] = mayCall[e]
    BY <1>1, <1>5, Zenon DEF NextPoll
  <2> HIDE DEF c
  <2>4. Trims(line[e], config[o].sending, w, c.sending)
    BY <2>1 DEF Trims
  <2> QED
    BY <1>1, <2>1, <2>2, <2>3, <2>4, TransmitUnnoticed
<1>6. CASE Submit(e)
  BY <1>6 DEF Submit, Unnoticed, BeginsAgain
<1>7. CASE Submit(o)
  <2>1. PICK r \in BOOLEAN, w \in Seq(Frame), c \in Config :
          /\ TransmitStep(o, c, w)
          /\ Trims(line[e], config[o].sending, w, c.sending)
          /\ c.link_establishment_state = config[o].link_establishment_state
          /\ c.link_establishment_packet = config[o].link_establishment_packet
          /\ c.link_establishment_resp = config[o].link_establishment_resp
    BY <1>1, <1>7, SubmitPoll, ZenonT(30)
  <2>2. mayCall'[e] = mayCall[e]
    BY <1>1, <1>7, Zenon DEF Submit
  <2> QED
    BY <1>1, <2>1, <2>2, TransmitUnnoticed
<1>8. ASSUME NEW y \in End, Noise(y)
      PROVE  Unnoticed(e)'
  <2>1. /\ config' = config /\ poll' = poll /\ mayCall' = mayCall
        /\ \A x \in Frame : Trims(line[y], x, line'[y], x)
        /\ \A z \in End : z # y => line'[z] = line[z]
    BY <1>8 DEF Noise, callerVars, TypeOK, Trims
  <2>2. config[e].sending \in Frame /\ config[o].sending \in Frame
    BY <1>1, WindowTypes
  <2>3. /\ Trims(line[e], config[o].sending, line'[e], config'[o].sending)
        /\ Trims(line[o], config[e].sending, line'[o], config'[e].sending)
    BY <1>1, <2>1, <2>2 DEF Trims
  <2>4. /\ Without(line'[e], config'[o].sending, LeFrames)
        /\ Without(line'[o], config'[e].sending, LeFrames \ SyncFrames)
        /\ NeverBehind(line'[o], config'[e].sending, SyncFrames, DataFrames)
    BY <1>1, <2>3, TrimKeepsUnnoticed
  <2>5. Sent(e)' <=> Sent(e)
    BY <2>1 DEF Sent
  <2> QED
    BY <2>1, <2>4, <2>5, Zenon DEF Unnoticed, BeginsAgain
<1>9. CASE UNCHANGED vars
  <2>1. config' = config /\ poll' = poll /\ mayCall' = mayCall /\ line' = line
    BY <1>9 DEF vars
  <2>2. Sent(e)' <=> Sent(e)
    BY <2>1 DEF Sent
  <2> QED
    BY <2>1, <2>2, Zenon DEF Unnoticed, BeginsAgain
<1> QED
  BY <1>1, <1>2, <1>3, <1>4, <1>5, <1>6, <1>7, <1>8, <1>9 DEF Next, Step

\* The end that restarts on a settled link leaves the other to notice it.
LEMMA RestartUnnoticed ==
  ASSUME TypeOK, Settled, NEW e \in End, Restart(e)
  PROVE  Unnoticed(e)'
<1> DEFINE o == Other(e)
           y == LeFrame("sync")
           S == LeFrames \ SyncFrames
<1>1. /\ o \in End /\ Other(o) = e
      /\ line[e] \in Seq(Frame) /\ line[o] \in Seq(Frame)
      /\ config[e].sending \in Frame /\ config[o].sending \in Frame
  BY WindowTypes, Ends
<1>2. /\ config'[e] = FirstConfig /\ poll'[e] = FirstPoll
      /\ config'[o] = config[o]
      /\ line'[e] \in {<<>>, line[e]}
      /\ Trims(line[o], config[e].sending, line'[o], NoFrame)
      /\ ~mayCall'[e]
  BY RestartEffect
<1>3. \A z \in End : /\ config[z].sending \notin LeFrames
                     /\ ~Has(line[z], LeFrames)
  BY DEF Settled, Carries, Has, LeFrames
<1>4. Without(line[e], config[o].sending, LeFrames) /\ Without(line[o], config[e].sending, LeFrames)
  BY <1>1, <1>3 DEF Without
<1>5. Without(line'[e], config'[o].sending, LeFrames)
  BY <1>1, <1>2, <1>4, LostKeepsOrder
<1>6. Without(line'[o], NoFrame, LeFrames)
  BY <1>1, <1>2, <1>4, MeaningOf, TrimKeepsWithout
<1>7. y \in SyncFrames /\ y \notin S /\ y \notin DataFrames
  BY FrameTypes DEF LeFrame, LeMessage, SyncFrames, DataFrames
<1>8. Without(line'[o], y, S)
  <2>1. S \subseteq LeFrames
    OBVIOUS
  <2>2. Without(line'[o], NoFrame, S)
    BY <1>6, <2>1, Zenon DEF Without, Has
  <2> QED
    BY <1>7, <2>2, StartKeeps
<1>9. NeverBehind(line'[o], y, SyncFrames, DataFrames)
  <2>1. SyncFrames \subseteq LeFrames
    BY DEF SyncFrames, LeFrames, LeMessage
  <2>2. ~Has(line'[o], SyncFrames)
    BY <1>6, <2>1, Zenon DEF Without, Has
  <2> QED
    BY <2>2, Zenon DEF NeverBehind, Has
<1>10. ~Sent(e)'
  BY <1>2, FirstIs DEF Sent
<1>11. /\ config[o].link_establishment_state = active
       /\ config[o].link_establishment_packet = "none"
       /\ config[o].link_establishment_resp = 0
  BY <1>1 DEF Settled
<1>12. config'[e].sending = y
  BY <1>2, FirstIs
<1> QED
  BY <1>2, <1>5, <1>8, <1>9, <1>10, <1>11, <1>12, FirstIs, Zenon DEF Unnoticed, BeginsAgain

\* RestartInStep is so in the first poll, and every step keeps it.
LEMMA RestartInductive ==
  /\ RestartInit => RestartInStep
  /\ OnlySettled /\ RestartTypeOK /\ RestartInStep /\ [RestartNext]_restartVars
       => RestartInStep'
<1>1. ASSUME RestartInit PROVE RestartInStep
  <2>1. Init /\ Handshake
    BY <1>1, HandshakeInductive DEF RestartInit
  <2> SUFFICES ASSUME NEW e \in End PROVE PacketsInOrder(e) /\ EngineInStep(e)
    BY <2>1 DEF RestartInStep, DeliveredInOrder, Init
  <2> DEFINE o == Other(e)
             y == LeFrame("sync")
  <2>2. /\ config[e] = FirstConfig /\ config[o] = FirstConfig
        /\ poll[e] = FirstPoll /\ line[o] = <<>>
        /\ delivered[o] = <<>> /\ packets[e] = 0
    BY <2>1, Ends DEF Init
  <2>3. y \in Frame /\ y \notin ReliableFrames /\ y \notin LeFrames \cap NotAcking(0)
    BY FrameTypes DEF LeFrame, LeMessage, ReliableFrames, DataFrames, LeFrames, NotAcking
  <2> HIDE DEF y
  <2>4. \A S, T : (y \notin S => Without(<<>>, y, S)) /\ NeverBehind(<<>>, y, S, T)
    BY DEF Without, NeverBehind, Has
  <2>5. \A i, q : /\ y \notin Since(i) /\ y \notin Before(i)
                  /\ y \notin Numbered(i, q) /\ y \notin Renumbered(i, q)
    BY <2>3 DEF Since, Before, Numbered, Renumbered
  <2>6. Ascending(<<>>, y, 0)
    BY <2>4, <2>5 DEF Ascending
  <2>7. ~NoPacket.reliable
    BY DEF NoPacket
  <2>8. PacketsInOrder(e)
    BY <2>2, <2>6, <2>7, FirstIs DEF PacketsInOrder, NotAgain, y
  <2>9. EngineInStep(e)
    BY <2>2, <2>3, <2>4, FirstIs DEF EngineInStep, y
  <2> QED
    BY <2>8, <2>9
<1>2. ASSUME OnlySettled, RestartTypeOK, RestartInStep, [RestartNext]_restartVars
      PROVE  RestartInStep'
  <2>1. TypeOK /\ StreamsInOrder /\ DeliveredInOrder
    BY <1>2 DEF RestartTypeOK, RestartInStep, StreamsInOrder
  <2>2. CASE \E e \in End : Restart(e)
    <3>1. PICK e \in End : Restart(e)
      BY <2>2
    <3>2. Settled
      BY <1>2, <3>1 DEF Restart
    <3>3. Unnoticed(e)'
      BY <2>1, <3>1, <3>2, RestartUnnoticed
    <3>4. StreamsInOrder' /\ DeliveredInOrder'
      BY <2>1, <3>1, RestartKeepsOrder
    <3> QED
      BY <3>1, <3>3, <3>4 DEF RestartInStep, StreamsInOrder
  <2>3. ASSUME [Next]_vars, Handshake \/ \E e \in End : Unnoticed(e)
        PROVE  Handshake' \/ \E e \in End : Unnoticed(e)'
    BY <2>1, <2>3, HandshakeInductive, UnnoticedStep
  <2>4. ASSUME [Next]_vars PROVE StreamsInOrder' /\ DeliveredInOrder'
    <3>1. CASE delivered' = delivered /\ StreamsInOrder'
      BY <2>1, <3>1 DEF DeliveredInOrder
    <3>2. ASSUME NEW y \in End, Receive(y) PROVE StreamsInOrder' /\ DeliveredInOrder'
      <4>1. CASE ~ReceivePeerReset(y)
        BY <2>1, <3>2, <4>1, ReceiveKeepsOrder
      <4>2. CASE ReceivePeerReset(y)
        <5>1. EngineType /\ config[y].link_establishment_state = active
          BY <2>1, <4>2, WindowTypes DEF ReceivePeerReset
        <5>2. ~Handshake
          BY <4>2, <5>1, NoResetAtActive DEF Handshake
        <5>3. PICK e \in End : Unnoticed(e)
          BY <1>2, <5>2 DEF RestartInStep
        <5>4. config[e].link_establishment_state # active
          BY <5>3 DEF Unnoticed, BeginsAgain, uninitialized, active
        <5>5. e = Other(y) /\ Other(e) = y
          BY <5>1, <5>4, Ends
        <5>6. /\ config[Other(y)].send_packet = NoPacket
              /\ NeverBehind(line[y], config[Other(y)].sending, SyncFrames, DataFrames)
          BY <5>3, <5>5 DEF Unnoticed, BeginsAgain
        <5> QED
          BY <2>1, <3>1, <3>2, <4>2, <5>6, ResetKeepsOrder
      <4> QED
        BY <4>1, <4>2
    <3>3. ASSUME NEW y \in End, NextPoll(y) PROVE StreamsInOrder' /\ DeliveredInOrder'
      BY <2>1, <3>1, <3>3, NextPollKeepsOrder DEF NextPoll
    <3>4. ASSUME NEW y \in End, Submit(y) PROVE StreamsInOrder' /\ DeliveredInOrder'
      BY <2>1, <3>1, <3>4, SubmitKeepsStreams DEF Submit
    <3>5. ASSUME NEW y \in End, Noise(y) PROVE StreamsInOrder' /\ DeliveredInOrder'
      BY <2>1, <3>1, <3>5, NoiseKeepsOrder DEF Noise
    <3>6. CASE UNCHANGED vars
      <4>1. /\ config' = config /\ poll' = poll /\ line' = line /\ packets' = packets
            /\ delivered' = delivered
        BY <3>6 DEF vars
      <4>2. \A e \in End : PacketsInOrder(e)' /\ EngineInStep(e)'
        BY <2>1, <4>1 DEF StreamsInOrder, PacketsInOrder, EngineInStep
      <4> QED
        BY <3>1, <4>1, <4>2 DEF StreamsInOrder
    <3> QED
      BY <2>4, <3>2, <3>3, <3>4, <3>5, <3>6 DEF Next, Step
  <2>5. CASE [Next]_vars
    BY <1>2, <2>3, <2>4, <2>5 DEF RestartInStep, StreamsInOrder
  <2>6. Next \/ UNCHANGED vars \/ \E e \in End : Restart(e)
    BY <1>2 DEF RestartNext, restartVars
  <2> QED
    BY <2>2, <2>5, <2>6
<1> QED
  BY <1>1, <1>2

\* When an end restarts only on a settled link, whatever of the old frames still
\* arrives, the packets in flight keep their order and numbers, and what has come out
\* is never taken for new; the restart is noticed before anything else of the new
\* establishment (ubcsp_recevied_packet and ubcsp_initialize).
THEOREM RestartOrderHolds ==
  ASSUME OnlySettled
  PROVE  RestartSpec => []RestartInStep
<1>1. RestartInit => RestartInStep
  BY RestartInductive
<1>2. RestartTypeOK /\ RestartInStep /\ [RestartNext]_restartVars => RestartInStep'
  BY RestartInductive
<1> QED
  BY <1>1, <1>2, RestartTypeCorrect, PTL DEF RestartSpec

\* No packet comes out twice, or after a later one, at an end that did not restart in
\* between, although both ends begin their sequence numbers again.
THEOREM NoPacketAgain ==
  ASSUME OnlySettled
  PROVE  RestartSpec => []DeliveredInOrder
<1>1. RestartInStep => DeliveredInOrder
  BY DEF RestartInStep
<1> QED
  BY <1>1, RestartOrderHolds, PTL

=============================================================================
