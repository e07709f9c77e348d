--------------------------- MODULE BcspLossProof ---------------------------
(***************************************************************************)
(* Proof of what BcspRestart says about loss: NothingUnpaid of             *)
(* BcspRestartLoss is inductive.                                           *)
(***************************************************************************)
EXTENDS BcspRestartLoss, BcspRestartProof, FiniteSetTheorems

-----------------------------------------------------------------------------
(* Streams of frames under the numbers of the two engines.                 *)

\* No frame and a damaged frame are in none of the sets of frames used here.
LEMMA MeaningOfLoss ==
  /\ NoFrame \notin SyncFrames /\ BadFrame \notin SyncFrames
  /\ NoFrame \notin Headers /\ BadFrame \notin Headers
  /\ NoFrame \notin Former /\ BadFrame \notin Former
  /\ NoFrame \notin Headers \ LeFrames /\ BadFrame \notin Headers \ LeFrames
BY DEF Former, Headers, SyncFrames, NoFrame, BadFrame, LeFrame

\* What is not among the frames of a stream.
LEMMA WithoutStream ==
  ASSUME NEW l, NEW x, NEW S, NEW f \in S, Without(l, x, S)
  PROVE  f \notin Stream(l, x)
<1>1. SUFFICES ASSUME f \in Range(l) PROVE FALSE
  BY DEF Stream, Without
<1>2. \E i \in DOMAIN l : l[i] = f
  BY <1>1 DEF Range
<1> QED
  BY <1>2 DEF Without, Has

\* Finishing, dropping, losing and damaging frames brings no other frame.
LEMMA TrimBringsNoFrame ==
  ASSUME NEW l \in Seq(Frame), NEW x \in Frame, NEW l2, NEW x2, Trims(l, x, l2, x2),
         NEW f, f \notin {NoFrame, BadFrame}, f \in Stream(l2, x2)
  PROVE  f \in Stream(l, x)
<1> DEFINE S == {f}
<1>1. NoFrame \notin S /\ BadFrame \notin S
  OBVIOUS
<1>2. ~Without(l2, x2, S)
  BY DEF Without, Has, Stream, Range
<1>3. ~Without(l, x, S)
  <2> HIDE DEF S
  <2> QED
    BY <1>1, <1>2, TrimKeepsWithout
<1> QED
  BY <1>3 DEF Without, Has, Stream, Range

\* Finishing, dropping, losing and damaging frames keeps what the numbers tell.
LEMMA TrimKeepsAgreement ==
  ASSUME NEW l \in Seq(Frame), NEW x \in Frame, NEW l2, NEW x2, Trims(l, x, l2, x2)
  PROVE  /\ \A a, p : DataAgrees(l, x, a, p) => DataAgrees(l2, x2, a, p)
         /\ \A s, a, q, r : AnswersAgree(l, x, s, a, q) /\ (q => r)
                              => AnswersAgree(l2, x2, s, a, r)
         /\ \A n, m, b : ConfsFirst(l, x, n, b) /\ (n => m) => ConfsFirst(l2, x2, m, b)
<1>1. \A S : NoFrame \notin S /\ BadFrame \notin S
        => /\ Without(l, x, S) => Without(l2, x2, S)
           /\ x2 \in S => x \in S
  BY TrimKeeps
<1>2. \A S, T : /\ NoFrame \notin S /\ BadFrame \notin S
                /\ NoFrame \notin T /\ BadFrame \notin T
                /\ NeverBehind(l, x, S, T)
        => NeverBehind(l2, x2, S, T)
  BY TrimKeepsBehind
<1>3. ASSUME NEW a, NEW p, DataAgrees(l, x, a, p) PROVE DataAgrees(l2, x2, a, p)
  <2>1. /\ NoFrame \notin Fresh(a) /\ BadFrame \notin Fresh(a)
        /\ NoFrame \notin Stale(a) /\ BadFrame \notin Stale(a)
    BY MeaningOf
  <2> QED
    BY <1>1, <1>2, <1>3, <2>1 DEF DataAgrees
<1>4. ASSUME NEW s, NEW a, NEW q, NEW r, AnswersAgree(l, x, s, a, q), q => r
      PROVE  AnswersAgree(l2, x2, s, a, r)
  <2>1. /\ NoFrame \notin Acking(a) /\ BadFrame \notin Acking(a)
        /\ NoFrame \notin NotAcking(a) /\ BadFrame \notin NotAcking(a)
        /\ NoFrame \notin NotAcking(s) \cap NotAcking(a)
        /\ BadFrame \notin NotAcking(s) \cap NotAcking(a)
        /\ NoFrame \notin LeFrames /\ BadFrame \notin LeFrames
    BY MeaningOf
  <2> QED
    BY <1>1, <1>2, <1>4, <2>1 DEF AnswersAgree
<1>5. ASSUME NEW n, NEW m, NEW b, ConfsFirst(l, x, n, b), n => m
      PROVE  ConfsFirst(l2, x2, m, b)
  <2>1. /\ NoFrame \notin DataFrames /\ BadFrame \notin DataFrames
        /\ NoFrame \notin ConfFrames /\ BadFrame \notin ConfFrames
    BY MeaningOf
  <2> QED
    BY <1>1, <1>2, <1>5, <2>1 DEF ConfsFirst
<1> QED
  BY <1>3, <1>4, <1>5

\* A frame starts that is the outstanding packet, or no reliable data.
LEMMA StartKeepsDataAgreed ==
  ASSUME NEW l, NEW y, NEW a, NEW p \in BOOLEAN, DataAgrees(l, NoFrame, a, p),
         y \in Fresh(a) => p, p => y \notin Stale(a)
  PROVE  DataAgrees(l, y, a, p)
BY StartKeeps DEF DataAgrees

\* A frame starts with the right ACK, or with ACK 0 while that harms nothing.
LEMMA StartKeepsAnswers ==
  ASSUME NEW l, NEW y \in Headers, NEW s, NEW a, NEW q \in BOOLEAN, NEW r \in BOOLEAN,
         AnswersAgree(l, NoFrame, s, a, q), q => r,
         IF q THEN y.ack = a /\ y \notin LeFrames ELSE y.ack = 0
  PROVE  AnswersAgree(l, y, s, a, r)
<1>1. y \notin NotAcking(s) \cap NotAcking(a)
  BY DEF AnswersAgree, NotAcking
<1>2. Without(l, y, NotAcking(s) \cap NotAcking(a))
  BY <1>1, StartKeeps DEF AnswersAgree
<1>3. ASSUME a # s
      PROVE  /\ NeverBehind(l, y, Acking(a), NotAcking(a))
             /\ r \/ Without(l, y, Acking(a))
  <2>1. CASE q
    <3>1. y \notin NotAcking(a)
      BY <2>1 DEF NotAcking
    <3> QED
      BY <1>3, <2>1, <3>1, StartKeeps DEF AnswersAgree
  <2>2. CASE ~q
    <3>1. Without(l, NoFrame, Acking(a)) /\ s = 0
      BY <1>3, <2>2 DEF AnswersAgree
    <3>2. y \notin Acking(a)
      BY <1>3, <2>2, <3>1 DEF Acking
    <3>3. ~Has(l, Acking(a))
      BY <3>1 DEF Without
    <3> QED
      BY <1>3, <3>1, <3>2, <3>3, StartKeeps DEF AnswersAgree
  <2> QED
    BY <2>1, <2>2
<1>4. ASSUME s # 0 PROVE r /\ Without(l, y, LeFrames)
  BY <1>4, StartKeeps DEF AnswersAgree
<1> QED
  BY <1>2, <1>3, <1>4 DEF AnswersAgree

\* A frame starts that is a CONF only before, and data only after, the establishment.
LEMMA StartKeepsConfs ==
  ASSUME NEW l, NEW y, NEW n \in BOOLEAN, NEW m \in BOOLEAN, NEW b,
         ConfsFirst(l, NoFrame, n, b), n => m,
         y \in ConfFrames => ~n, y \in DataFrames => n
  PROVE  ConfsFirst(l, y, m, b)
<1>1. y \in ConfFrames => ~Has(l, DataFrames)
  BY DEF ConfsFirst, Without
<1> QED
  BY <1>1, StartKeeps DEF ConfsFirst, Without

\* An acknowledgement that counts: the packet is delivered, and what follows tells
\* the same.
LEMMA TakeKeepsAnswers ==
  ASSUME NEW l \in Seq(Frame), l # <<>>, NEW x, NEW s, NEW a, NEW q \in BOOLEAN,
         AnswersAgree(l, x, s, a, q), Head(l) \in NotAcking(s),
         Without(l, x, LeFrames \cap NotAcking(0))
  PROVE  a # s /\ q /\ AnswersAgree(Tail(l), x, a, a, q)
<1>1. Head(l) \notin NotAcking(s) \cap NotAcking(a)
  BY HeadOf DEF AnswersAgree
<1>2. Head(l) \in Acking(a) /\ a # s
  BY <1>1 DEF Acking, NotAcking
<1>3. Has(l, Acking(a))
  BY <1>2, HeadOf
<1>4. q /\ NeverBehind(l, x, Acking(a), NotAcking(a))
  BY <1>2, <1>3 DEF AnswersAgree, Without
<1>5. Without(Tail(l), x, NotAcking(a))
  BY <1>2, <1>4, HeadOf
<1>6. ASSUME a # 0 PROVE Without(Tail(l), x, LeFrames)
  <2>1. \A f \in LeFrames : f \in Headers
    BY DEF LeFrames, Headers, LeMessage
  <2>2. x \in LeFrames => x \in NotAcking(a) \/ x \in NotAcking(0)
    BY <1>6, <2>1 DEF NotAcking
  <2>3. x \notin LeFrames
    BY <1>5, <2>2 DEF Without
  <2>4. ASSUME NEW i \in 1 .. Len(Tail(l)), Tail(l)[i] \in LeFrames PROVE FALSE
    <3>1. Tail(l)[i] \in NotAcking(a) \/ Tail(l)[i] \in NotAcking(0)
      BY <1>6, <2>1, <2>4 DEF NotAcking
    <3>2. i + 1 \in 1 .. Len(l) /\ l[i + 1] = Tail(l)[i]
      BY LineFrames
    <3> QED
      BY <1>5, <2>4, <3>1, <3>2 DEF Without, Has
  <2> QED
    BY <2>3, <2>4 DEF Without, Has
<1>7. Without(Tail(l), x, NotAcking(a) \cap NotAcking(a))
  BY <1>5 DEF Without, Has
<1> QED
  BY <1>2, <1>4, <1>6, <1>7 DEF AnswersAgree

\* The packet held is delivered: nothing is new any more.
LEMMA DeliverKeepsDataAgreed ==
  ASSUME NEW l \in Seq(Frame), l # <<>>, NEW x, NEW a \in 0 .. SeqModulus - 1,
         NEW p \in BOOLEAN, DataAgrees(l, x, a, p), Head(l) \in Fresh(a)
  PROVE  p /\ DataAgrees(Tail(l), x, (a + 1) % SeqModulus, FALSE)
<1> DEFINE b == (a + 1) % SeqModulus
<1>1. p
  BY HeadOf DEF DataAgrees
<1>2. Without(Tail(l), x, Stale(a))
  BY <1>1, HeadOf DEF DataAgrees
<1>3. Fresh(b) \subseteq Stale(a)
  BY NextNumber DEF Fresh, Stale
<1> HIDE DEF b
<1>4. Without(Tail(l), x, Fresh(b))
  BY <1>2, <1>3, WithoutSubset
<1> QED
  BY <1>1, <1>4 DEF DataAgrees, b

\* It has not been acknowledged yet.
LEMMA DeliverKeepsAnswers ==
  ASSUME NEW l, NEW x, NEW s \in 0 .. SeqModulus - 1, NEW q, AnswersAgree(l, x, s, s, q)
  PROVE  AnswersAgree(l, x, s, (s + 1) % SeqModulus, q)
<1> DEFINE a == (s + 1) % SeqModulus
<1>1. a # s
  BY NextNumber
<1> HIDE DEF a
<1>2. Without(l, x, NotAcking(s))
  <2>1. NotAcking(s) \cap NotAcking(s) = NotAcking(s)
    OBVIOUS
  <2> QED
    BY <2>1 DEF AnswersAgree
<1>3. Acking(a) \subseteq NotAcking(s)
  BY <1>1 DEF Acking, NotAcking
<1>4. Without(l, x, Acking(a)) /\ ~Has(l, Acking(a))
  BY <1>2, <1>3, WithoutSubset
<1>5. NeverBehind(l, x, Acking(a), NotAcking(a))
  BY <1>4 DEF NeverBehind, Has
<1>6. Without(l, x, NotAcking(s) \cap NotAcking(a))
  BY <1>2, WithoutSubset
<1> QED
  BY <1>4, <1>5, <1>6 DEF AnswersAgree, a

\* Behind data there is no CONF.
LEMMA DeliverKeepsConfs ==
  ASSUME NEW l \in Seq(Frame), l # <<>>, NEW x \in Frame, NEW n \in BOOLEAN, NEW b,
         ConfsFirst(l, x, n, b), Head(l) \in DataFrames
  PROVE  n /\ ConfsFirst(Tail(l), x, n, TRUE)
<1>1. n /\ Without(Tail(l), x, ConfFrames)
  BY HeadOf DEF ConfsFirst, Without
<1>2. Trims(l, x, Tail(l), x)
  BY DEF Trims
<1>3. NeverBehind(Tail(l), x, DataFrames, ConfFrames)
  BY <1>2, TrimKeepsBehind, MeaningOf DEF ConfsFirst
<1> QED
  BY <1>1, <1>3 DEF ConfsFirst

-----------------------------------------------------------------------------
(* What has to be paid for.                                                *)

\* The sizes of a finite set, of a part of it, and of both with and without i.
LEMMA SizesOf ==
  ASSUME NEW u, IsFiniteSet(u), NEW v, v \subseteq u, NEW i
  PROVE  /\ Cardinality(u) \in Nat /\ Cardinality(u \ {i}) \in Nat
         /\ Cardinality(u \cup {i}) = Cardinality(u \ {i}) + 1
         /\ Cardinality(u \ {i}) <= Cardinality(u)
         /\ Cardinality(u) <= Cardinality(u \cup {i})
         /\ i \notin u => Cardinality(u \cup {i}) = Cardinality(u) + 1
         /\ Cardinality(v) \in Nat /\ Cardinality(v \ {i}) \in Nat
         /\ Cardinality(v \cup {i}) \in Nat
         /\ Cardinality(v) <= Cardinality(u)
         /\ Cardinality(v \ {i}) <= Cardinality(u \ {i})
         /\ Cardinality(v \cup {i}) <= Cardinality(u \cup {i})
<1>1. /\ IsFiniteSet(u \cup {i}) /\ IsFiniteSet(u \ {i})
      /\ Cardinality(u \cup {i}) = IF i \in u THEN Cardinality(u) ELSE Cardinality(u) + 1
      /\ Cardinality(u \ {i}) = IF i \in u THEN Cardinality(u) - 1 ELSE Cardinality(u)
  BY FS_AddElement, FS_RemoveElement
<1>2. IsFiniteSet(v) /\ Cardinality(v) <= Cardinality(u)
  BY FS_Subset
<1>3. /\ IsFiniteSet(v \ {i}) /\ Cardinality(v \ {i}) <= Cardinality(u \ {i})
  <2>1. v \ {i} \in SUBSET (u \ {i})
    OBVIOUS
  <2> QED
    BY <1>1, <2>1, FS_Subset
<1>4. /\ IsFiniteSet(v \cup {i}) /\ Cardinality(v \cup {i}) <= Cardinality(u \cup {i})
  <2>1. v \cup {i} \in SUBSET (u \cup {i})
    OBVIOUS
  <2> QED
    BY <1>1, <2>1, FS_Subset
<1>5. /\ Cardinality(u) \in Nat /\ Cardinality(u \ {i}) \in Nat
      /\ Cardinality(v) \in Nat /\ Cardinality(v \ {i}) \in Nat
      /\ Cardinality(v \cup {i}) \in Nat
  BY <1>1, <1>2, <1>3, <1>4, FS_CardinalityType
<1> QED
  BY <1>1, <1>2, <1>3, <1>4, <1>5

\* What is missing is finite, and a step of the link that submits nothing adds nothing.
LEMMA UnreachedIs ==
  ASSUME RestartTypeOK, NEW e \in End
  PROVE  /\ IsFiniteSet(Unreached(e))
         /\ \A i \in Unreached(e) : i \in 1 .. packets[e]
         /\ packets[e] \in Nat
         /\ LinkStep /\ packets'[e] = packets[e] => Unreached(e)' \subseteq Unreached(e)
<1> DEFINE o == Other(e)
<1>1. packets[e] \in Nat /\ o \in End
  BY Ends DEF RestartTypeOK, TypeOK
<1>2. IsFiniteSet(1 .. packets[e])
  BY <1>1, FS_Interval
<1>3. IsFiniteSet(Unreached(e))
  BY <1>2, FS_Subset DEF Unreached
<1>4. ASSUME LinkStep, packets'[e] = packets[e]
      PROVE  Unreached(e)' \subseteq Unreached(e)
  <2>1. reached'[o] = reached[o] \cup Range(delivered'[o])
    BY <1>1, <1>4 DEF LinkStep
  <2> QED
    BY <1>4, <2>1 DEF Unreached, o
<1> QED
  BY <1>1, <1>3, <1>4 DEF Unreached

\* Nothing of what Paid is about changes, or a packet arrives.
LEMMA PaidKept ==
  ASSUME NEW e \in End, NEW CONSTANT b \in Nat, IsFiniteSet(Unreached(e)), Paid(e, b),
         Unreached(e)' \subseteq Unreached(e), packets'[e] = packets[e],
         Held(e)' <=> Held(e), Free(e)' <=> Free(e), IsActive(e)' <=> IsActive(e),
         config'[e].send_packet = config[e].send_packet,
         ~Sent(e) => outstanding'[e] = outstanding[e]
  PROVE  Paid(e, b)'
<1> DEFINE u == Unreached(e)
           v == Unreached(e)'
           n == packets[e]
<1>1. /\ Cardinality(u) \in Nat /\ Cardinality(v) \in Nat
      /\ Cardinality(v) <= Cardinality(u)
      /\ Cardinality(v \ {n}) <= Cardinality(u \ {n})
      /\ Cardinality(v \cup {n}) <= Cardinality(u \cup {n})
      /\ Cardinality(v \ {n}) \in Nat /\ Cardinality(u \ {n}) \in Nat
      /\ Cardinality(v \cup {n}) \in Nat /\ Cardinality(u \cup {n}) \in Nat
  BY SizesOf
<1>2. u \cup {} = u /\ v \cup {} = v
  OBVIOUS
<1>3. Early(e)' <=> Early(e)
  BY DEF Early
<1> HIDE DEF u, v
<1>4. /\ ~Held(e) => Cardinality(v) <= b
      /\ Held(e) /\ ~Early(e) => Cardinality(v \ {n}) <= b
      /\ Early(e) => Cardinality(v \cup {n}) <= b
  BY <1>1 DEF Paid, u
<1>5. Free(e) /\ ~IsActive(e) => Cardinality(v \cup IF Held(e) THEN {n} ELSE {}) < b
  <2>1. Free(e) /\ ~IsActive(e) => Cardinality(u \cup IF Held(e) THEN {n} ELSE {}) < b
    BY DEF Paid, u
  <2>2. CASE Held(e)
    BY <1>1, <2>1, <2>2
  <2>3. CASE ~Held(e)
    BY <1>1, <1>2, <2>1, <2>3
  <2> QED
    BY <2>2, <2>3
<1>6. Held(e) /\ ~Free(e) => outstanding'[e] = config'[e].send_packet
  BY DEF Paid, Free
<1> QED
  BY <1>3, <1>4, <1>5, <1>6 DEF Paid, v

\* Nothing of what PaidInFlight is about changes, but for new data that is late, lost or
\* damaged, and for a packet that arrives.
LEMMA PaidInFlightKept ==
  ASSUME NEW e \in End, NEW CONSTANT b \in Nat, IsFiniteSet(Unreached(e)), PaidInFlight(e, b),
         Unreached(e)' \subseteq Unreached(e), packets'[e] = packets[e],
         Held(e)' <=> Held(e), Early(e)' => Early(e),
         config'[e].sequence_number = config[e].sequence_number,
         config'[Other(e)].ack_number = config[Other(e)].ack_number,
         \A f \in Fresh(config[Other(e)].ack_number) :
           f \in Stream(line'[Other(e)], config'[e].sending)
             => f \in Stream(line[Other(e)], config[e].sending)
  PROVE  PaidInFlight(e, b)'
<1> DEFINE u == Unreached(e)
           v == Unreached(e)'
           F == Fresh(config[Other(e)].ack_number)
<1>1. /\ Cardinality(u) \in Nat /\ Cardinality(v) \in Nat
      /\ Cardinality(v) <= Cardinality(u)
      /\ \A i : /\ Cardinality(v \ {i}) <= Cardinality(u \ {i})
                /\ Cardinality(v \ {i}) \in Nat /\ Cardinality(u \ {i}) \in Nat
  BY SizesOf
<1> HIDE DEF u, v, F
<1>2. /\ Early(e) => \A f \in Stream(line[Other(e)], config[e].sending) \cap F :
                       f.packet.id = packets[e]
      /\ Held(e) => \A f \in Stream(line[Other(e)], config[e].sending) \cap F :
                      Cardinality(u \ {f.packet.id}) <= b
      /\ Held(e) /\ config[Other(e)].ack_number # config[e].sequence_number
           => Cardinality(u) <= b /\ (Early(e) => packets[e] \notin u)
  BY DEF PaidInFlight, u, F
<1>3. \A f \in F : f \in Stream(line'[Other(e)], config'[e].sending)
             => f \in Stream(line[Other(e)], config[e].sending)
  BY DEF F
<1>4. v \subseteq u /\ F' = F
  BY DEF u, v, F, Fresh
<1>5. /\ Early(e)' => \A f \in Stream(line'[Other(e)], config'[e].sending) \cap F :
                        f.packet.id = packets'[e]
      /\ Held(e)' => \A f \in Stream(line'[Other(e)], config'[e].sending) \cap F :
                       Cardinality(v \ {f.packet.id}) <= b
      /\ Held(e)' /\ config'[Other(e)].ack_number # config'[e].sequence_number
           => Cardinality(v) <= b /\ (Early(e)' => packets'[e] \notin v)
  <2>1. Early(e)' => \A f \in Stream(line'[Other(e)], config'[e].sending) \cap F :
                       f.packet.id = packets'[e]
    BY <1>2, <1>3
  <2>2. ASSUME Held(e)', NEW f \in Stream(line'[Other(e)], config'[e].sending) \cap F
        PROVE  Cardinality(v \ {f.packet.id}) <= b
    <3>1. Cardinality(u \ {f.packet.id}) <= b
      BY <1>2, <1>3, <2>2
    <3> DEFINE i == f.packet.id
    <3>2. /\ Cardinality(v \ {i}) <= Cardinality(u \ {i})
          /\ Cardinality(v \ {i}) \in Nat /\ Cardinality(u \ {i}) \in Nat
      BY <1>1
    <3> HIDE DEF i
    <3> QED
      BY <3>1, <3>2 DEF i
  <2>3. ASSUME Held(e)', config'[Other(e)].ack_number # config'[e].sequence_number
        PROVE  Cardinality(v) <= b /\ (Early(e)' => packets'[e] \notin v)
    BY <1>1, <1>2, <1>4, <2>3
  <2> QED
    BY <2>1, <2>2, <2>3
<1> QED
  BY <1>4, <1>5 DEF PaidInFlight, v, F

-----------------------------------------------------------------------------
(* While the numbers agree, every step keeps it so.                        *)

\* What a frame taken leaves, but that of a reset peer, and what it acknowledges.
LEMMA TakenIs ==
  ASSUME TypeOK, NEW e \in End, Receive(e), ~ReceivePeerReset(e), EngineInStep(e)
  PROVE  /\ line[e] # <<>> /\ Head(line[e]) \in Frame /\ Head(line[e]).kind # "none"
         /\ line'[e] = Tail(line[e])
         /\ config'[Other(e)] = config[Other(e)]
         /\ poll'[Other(e)] = poll[Other(e)]
         /\ Received(e)
         /\ packets' = packets /\ mayCall' = mayCall /\ outstanding' = outstanding
         /\ Delivers(e) => delivered'[e] = Append(delivered[e], Head(line[e]).packet.id)
         /\ Acks(e) => /\ Head(line[e]) \in NotAcking(config[e].sequence_number)
                       /\ Held(e)
<1>1. EngineType /\ ReceiveStep(e)
  BY WindowTypes DEF Receive
<1>2. Head(line[e]).kind # "none"
  BY <1>1, ReceiveEffect
<1>3. /\ line[e] # <<>> /\ Head(line[e]) \in Frame
      /\ line'[e] = Tail(line[e])
      /\ config'[Other(e)] = config[Other(e)]
      /\ poll'[Other(e)] = poll[Other(e)]
      /\ Received(e)
      /\ packets' = packets
      /\ Delivers(e) => delivered'[e] = Append(delivered[e], Head(line[e]).packet.id)
  BY ReceiveOut
<1>4. mayCall' = mayCall /\ outstanding' = outstanding
  BY DEF Receive, callerVars
<1>5. Acks(e) => /\ Head(line[e]) \in NotAcking(config[e].sequence_number)
                 /\ Held(e)
  BY <1>2, <1>3 DEF Acks, Acknowledged, NotAcking, Headers, Held
<1> QED
  BY <1>2, <1>3, <1>4, <1>5

\* A frame taken at e keeps the direction from e, whose acknowledgements it may carry.
LEMMA ReceiveKeepsNumbersOwn ==
  ASSUME TypeOK, StreamsInOrder, NEW e \in End, NEW o \in End, o = Other(e),
         Receive(e), ~ReceivePeerReset(e), NumbersAgree(e)
  PROVE  /\ NumbersAgree(e)'
         /\ Acks(e) => /\ config[o].ack_number # config[e].sequence_number
                       /\ IsActive(e) /\ Held(e)
<1> DEFINE s == config[e].sequence_number
           a == config[o].ack_number
           t == config'[e].sequence_number
           x == config[e].sending
           z == config[o].sending
           q == Quiet(config[o])
           n == config[e].link_establishment_packet = "none"
<1>1. /\ Other(e) = o /\ Other(o) = e /\ EngineInStep(e) /\ EngineInStep(o)
      /\ line[e] \in Seq(Frame) /\ line[o] \in Seq(Frame) /\ x \in Frame /\ z \in Frame
      /\ s \in 0 .. SeqModulus - 1 /\ q \in BOOLEAN
  BY WindowTypes, Ends DEF StreamsInOrder
<1>2. /\ line[e] # <<>> /\ line'[e] = Tail(line[e])
      /\ config'[o] = config[o]
      /\ Received(e)
      /\ Acks(e) => Head(line[e]) \in NotAcking(s) /\ Held(e)
  BY <1>1, TakenIs
<1>3. /\ Trims(line[o], x, line'[o], config'[e].sending)
      /\ Trims(line[e], z, line'[e], z)
      /\ config'[e].link_establishment_packet = config[e].link_establishment_packet
      /\ IsActive(e) => IsActive(e)'
  BY <1>1, <1>2 DEF Received, Trims, IsActive
<1>4. /\ a # s => a = (s + 1) % SeqModulus /\ Held(e)
      /\ DataAgrees(line[o], x, a, Held(e) /\ a = s)
      /\ AnswersAgree(line[e], z, s, a, q)
      /\ ConfsFirst(line[o], x, n, a # 0 \/ s # 0)
      /\ ~IsActive(e) => a = 0 /\ s = 0 /\ Without(line[o], x, DataFrames)
  BY <1>1 DEF NumbersAgree
<1>5. ~IsActive(e)' => Without(line'[o], config'[e].sending, DataFrames)
  BY <1>1, <1>3, <1>4, MeaningOf, TrimKeepsWithout
<1>6. CASE Acks(e)
  <2>1. Without(line[e], z, LeFrames \cap NotAcking(0))
    BY <1>1 DEF EngineInStep
  <2>2. a # s /\ AnswersAgree(Tail(line[e]), z, a, a, q)
    <3> DEFINE l == line[e]
    <3>1. /\ l \in Seq(Frame) /\ l # <<>> /\ Head(l) \in NotAcking(s)
          /\ AnswersAgree(l, z, s, a, q) /\ Without(l, z, LeFrames \cap NotAcking(0))
      BY <1>1, <1>2, <1>4, <1>6, <2>1
    <3> HIDE DEF s, a, z, q, l
    <3>2. a # s /\ AnswersAgree(Tail(l), z, a, a, q)
      BY <1>1, <3>1, TakeKeepsAnswers
    <3> QED
      BY <3>2 DEF l
  <2>3. t = a /\ ~Held(e)'
    BY <1>2, <1>4, <1>6, <2>2 DEF Received, Held
  <2>4. ~IsActive(e) => FALSE
    BY <1>4, <2>2
  <2> HIDE DEF s, a, x, z, q, n, t
  <2>5. DataAgrees(line[o], x, a, FALSE)
    BY <1>4, <2>2 DEF DataAgrees
  <2>6. DataAgrees(line'[o], config'[e].sending, a, Held(e)' /\ a = t)
    <3>1. DataAgrees(line'[o], config'[e].sending, a, FALSE)
      BY <1>1, <1>3, <2>5, TrimKeepsAgreement
    <3> QED
      BY <2>3, <3>1 DEF DataAgrees
  <2>7. ConfsFirst(line'[o], config'[e].sending, n, a # 0 \/ t # 0)
    <3>1. ConfsFirst(line[o], x, n, a # 0 \/ t # 0)
      BY <1>4, <2>2, <2>3 DEF ConfsFirst
    <3> QED
      BY <1>1, <1>3, <3>1, TrimKeepsAgreement
  <2> QED
    BY <1>1, <1>2, <1>3, <1>6, <2>2, <2>3, <2>4, <2>6, <2>7
    DEF NumbersAgree, s, a, z, q, n, t
<1>7. CASE ~Acks(e)
  <2>1. t = s /\ (Held(e)' <=> Held(e))
    BY <1>2, <1>7 DEF Received, Held
  <2> HIDE DEF s, a, x, z, q, n, t
  <2>2. DataAgrees(line'[o], config'[e].sending, a, Held(e)' /\ a = t)
    <3>1. DataAgrees(line[o], x, a, Held(e)' /\ a = t)
      BY <1>4, <2>1 DEF DataAgrees
    <3> QED
      BY <1>1, <1>3, <3>1, TrimKeepsAgreement
  <2>3. AnswersAgree(line'[e], z, t, a, q)
    BY <1>1, <1>3, <1>4, <2>1, TrimKeepsAgreement
  <2>4. ConfsFirst(line'[o], config'[e].sending, n, a # 0 \/ t # 0)
    <3>1. ConfsFirst(line[o], x, n, a # 0 \/ t # 0)
      BY <1>4, <2>1 DEF ConfsFirst
    <3> QED
      BY <1>1, <1>3, <3>1, TrimKeepsAgreement
  <2> QED
    BY <1>1, <1>2, <1>3, <1>4, <1>5, <1>7, <2>1, <2>2, <2>3, <2>4
    DEF NumbersAgree, s, a, z, q, n, t
<1> QED
  BY <1>6, <1>7

\* A frame taken at e keeps the direction to e, whose packet it may be.
LEMMA ReceiveKeepsNumbersOther ==
  ASSUME TypeOK, StreamsInOrder, NEW e \in End, NEW o \in End, o = Other(e),
         Receive(e), ~ReceivePeerReset(e), NumbersAgree(o)
  PROVE  /\ NumbersAgree(o)'
         /\ Delivers(e) => Held(o) /\ config[o].sequence_number = config[e].ack_number
<1> DEFINE s == config[o].sequence_number
           a == config[e].ack_number
           b == config'[e].ack_number
           l == line[e]
           x == config[o].sending
           z == config[e].sending
           q == Quiet(config[e])
           r == Quiet(config'[e])
           n == config[o].link_establishment_packet = "none"
           f == Head(line[e])
<1>1. /\ Other(e) = o /\ Other(o) = e /\ EngineInStep(e)
      /\ l \in Seq(Frame) /\ line[o] \in Seq(Frame) /\ x \in Frame /\ z \in Frame
      /\ s \in 0 .. SeqModulus - 1 /\ a \in 0 .. SeqModulus - 1
      /\ q \in BOOLEAN /\ n \in BOOLEAN
  BY WindowTypes, Ends DEF StreamsInOrder
<1>2. /\ l # <<>> /\ f \in Frame /\ line'[e] = Tail(l)
      /\ config'[o] = config[o]
      /\ Received(e)
  BY <1>1, TakenIs
<1>3. /\ Trims(line[o], z, line'[o], config'[e].sending)
      /\ Trims(l, x, line'[e], x)
      /\ q /\ f \notin ConfFrames => r
  BY <1>1, <1>2 DEF Received, Trims, Quiet, ConfFrames
<1>4. /\ a # s => a = (s + 1) % SeqModulus /\ Held(o)
      /\ DataAgrees(l, x, a, Held(o) /\ a = s)
      /\ AnswersAgree(line[o], z, s, a, q)
      /\ ConfsFirst(l, x, n, a # 0 \/ s # 0)
      /\ ~IsActive(o) => a = 0 /\ s = 0 /\ Without(l, x, DataFrames)
  BY <1>1 DEF NumbersAgree
<1>5. (Held(o)' <=> Held(o)) /\ (IsActive(o)' <=> IsActive(o))
  BY <1>2 DEF Held, IsActive
<1>6. CASE Delivers(e)
  <2>1. f \in Fresh(a) /\ b = (a + 1) % SeqModulus /\ f \in DataFrames /\ f \notin ConfFrames
    BY <1>2, <1>6 DEF Delivers, Received, Fresh, ReliableFrames, DataFrames, ConfFrames
  <2> DEFINE p == Held(o) /\ a = s
  <2>2. p \in BOOLEAN /\ DataAgrees(l, x, a, p) /\ Head(l) \in Fresh(a) /\ Head(l) \in DataFrames
    BY <1>4, <2>1
  <2>3. p /\ DataAgrees(Tail(l), x, b, FALSE)
    <3> HIDE DEF s, a, b, l, x, z, q, r, n, f, p
    <3> QED
      BY <1>1, <1>2, <2>1, <2>2, DeliverKeepsDataAgreed
  <2>4. b # s /\ b = (s + 1) % SeqModulus
    <3> HIDE DEF s, b
    <3> QED
      BY <1>1, <2>1, <2>3, NextNumber
  <2> HIDE DEF s, a, b, l, x, z, q, r, n, f
  <2>5. AnswersAgree(line'[o], config'[e].sending, s, b, r)
    <3>1. AnswersAgree(line[o], z, s, b, q)
      BY <1>1, <1>4, <2>3, <2>4, DeliverKeepsAnswers DEF p
    <3> QED
      BY <1>1, <1>3, <2>1, <3>1, TrimKeepsAgreement
  <2>6. n /\ ConfsFirst(line'[e], x, n, TRUE)
    BY <1>1, <1>2, <1>4, <2>2, DeliverKeepsConfs
  <2>7. ConfsFirst(line'[e], x, n, b # 0 \/ s # 0)
    BY <2>6 DEF ConfsFirst
  <2>8. IsActive(o)
    <3>1. ~Without(l, x, DataFrames)
      BY <1>1, <1>2, <2>2, HeadOf
    <3> QED
      BY <1>4, <3>1
  <2> QED
    BY <1>1, <1>2, <1>5, <2>3, <2>4, <2>5, <2>7, <2>8
    DEF NumbersAgree, DataAgrees, p, s, a, b, x, r, n
<1>7. CASE ~Delivers(e)
  <2>1. b = a
    BY <1>2, <1>7 DEF Received
  <2> HIDE DEF s, a, b, l, x, z, q, r, n, f
  <2>2. DataAgrees(line'[e], x, a, Held(o) /\ a = s)
    BY <1>1, <1>3, <1>4, TrimKeepsAgreement
  <2>3. AnswersAgree(line'[o], config'[e].sending, s, a, r)
    <3>1. CASE f \in ConfFrames
      <4>1. a = 0 /\ s = 0
        <5>1. ~Without(l, x, ConfFrames)
          BY <1>1, <1>2, <3>1, HeadOf DEF f, l
        <5> QED
          BY <1>4, <5>1 DEF ConfsFirst
      <4>2. AnswersAgree(line[o], z, s, a, r)
        BY <1>4, <4>1 DEF AnswersAgree
      <4> QED
        BY <1>1, <1>3, <4>2, TrimKeepsAgreement
    <3>2. CASE f \notin ConfFrames
      BY <1>1, <1>3, <1>4, <3>2, TrimKeepsAgreement
    <3> QED
      BY <3>1, <3>2
  <2>4. ConfsFirst(line'[e], x, n, a # 0 \/ s # 0)
    BY <1>1, <1>3, <1>4, TrimKeepsAgreement
  <2>5. ~IsActive(o) => Without(line'[e], x, DataFrames)
    BY <1>1, <1>3, <1>4, MeaningOf, TrimKeepsWithout
  <2>6. Held(o)' /\ b = s <=> Held(o) /\ a = s
    BY <1>5, <2>1
  <2>7. DataAgrees(line'[e], x, b, Held(o)' /\ b = s)
    BY <2>1, <2>2, <2>6 DEF DataAgrees
  <2> QED
    BY <1>1, <1>2, <1>4, <1>5, <1>7, <2>1, <2>3, <2>4, <2>5, <2>7
    DEF NumbersAgree, s, a, b, x, r, n
<1> QED
  BY <1>6, <1>7

\* A transmit step from c and w, with the packet held in c, keeps both directions.
LEMMA TransmitKeepsNumbers ==
  ASSUME TypeOK, Handshake, NEW e \in End, NEW o \in End, o = Other(e),
         NumbersAgree(e), NumbersAgree(o),
         NEW c \in Config, NEW w \in Seq(Frame), TransmitStep(e, c, w),
         Trims(line[o], config[e].sending, w, c.sending),
         c.sequence_number = config[e].sequence_number,
         c.ack_number = config[e].ack_number,
         c.link_establishment_state = config[e].link_establishment_state,
         c.link_establishment_packet = config[e].link_establishment_packet,
         c.link_establishment_resp = config[e].link_establishment_resp,
         ~SentUnreliable(c),
         Held(e) => c.send_packet # NoPacket,
         DataAgrees(w, c.sending, config[o].ack_number,
                    c.send_packet # NoPacket /\ config[o].ack_number = c.sequence_number)
  PROVE  /\ NumbersAgree(e)' /\ NumbersAgree(o)'
         /\ \A f \in Fresh(config[o].ack_number) :
              f \in Stream(line'[o], config'[e].sending)
                => \/ f \in Stream(line[o], config[e].sending)
                   \/ f.packet = c.send_packet /\ Held(e)'
                      /\ config[o].ack_number = c.sequence_number
<1> DEFINE d == config'[e]
           s == c.sequence_number
           a == config[o].ack_number
           n == c.link_establishment_packet = "none"
           m == d.link_establishment_packet = "none"
           q == Quiet(c)
           r == Quiet(d)
           v == line'[o]
           x == config[e].sending
           p == c.send_packet # NoPacket /\ a = s
<1>1. /\ Other(e) = o /\ Other(o) = e /\ EngineType
      /\ line[o] \in Seq(Frame) /\ x \in Frame /\ c.sending \in Frame
      /\ q \in BOOLEAN /\ r \in BOOLEAN /\ n \in BOOLEAN /\ m \in BOOLEAN
      /\ n => IsActive(e)
      /\ q <=> Quiet(config[e])
  BY WindowTypes, Ends DEF Handshake, LeSuitsState, IsActive, Quiet, Config
<1>2. /\ p \in BOOLEAN
      /\ p <=> c.send_packet # NoPacket /\ a = s
      /\ DataAgrees(w, c.sending, a, p)
  OBVIOUS
<1> HIDE DEF p
<1>3. /\ d.sequence_number = s
      /\ d.ack_number = c.ack_number
      /\ d.link_establishment_state = c.link_establishment_state
      /\ config'[o] = config[o]
      /\ line'[e] = line[e]
      /\ Continues(e, c, w) \/ \E y \in Frame : Starts(e, c, w, y)
  BY <1>1, TransmitEffect
<1>4. d.send_packet = c.send_packet
  BY <1>3 DEF Continues, Starts
<1>5. /\ a # s => a = (s + 1) % SeqModulus /\ c.send_packet # NoPacket
      /\ ConfsFirst(line[o], x, n, a # 0 \/ s # 0)
      /\ ~IsActive(e) => a = 0 /\ s = 0 /\ Without(line[o], x, DataFrames)
  BY <1>1 DEF NumbersAgree
<1>6. AnswersAgree(line[o], x, config[o].sequence_number, c.ack_number, q)
  BY <1>1 DEF NumbersAgree, AnswersAgree
<1>7. /\ ConfsFirst(w, c.sending, n, a # 0 \/ s # 0)
      /\ AnswersAgree(w, c.sending, config[o].sequence_number, c.ack_number, q)
      /\ ~IsActive(e) => Without(w, c.sending, DataFrames)
  <2> HIDE DEF s, a, x, n, q
  <2> QED
    BY <1>1, <1>5, <1>6, MeaningOf, TrimKeepsAgreement, TrimKeepsWithout DEF x
<1>8. /\ DataAgrees(v, d.sending, a, p)
      /\ ConfsFirst(v, d.sending, m, a # 0 \/ s # 0)
      /\ AnswersAgree(v, d.sending, config[o].sequence_number, c.ack_number, r)
      /\ ~IsActive(e) => Without(v, d.sending, DataFrames)
  <2>1. CASE Continues(e, c, w)
    <3> DEFINE x2 == d.sending
    <3>1. Trims(w, c.sending, v, x2) /\ m = n /\ r = q
      BY <1>1, <2>1 DEF Continues, Quiet
    <3> HIDE DEF s, a, x, n, q, d, v, m, r, x2
    <3>2. /\ DataAgrees(v, x2, a, p)
          /\ ConfsFirst(v, x2, n, a # 0 \/ s # 0)
          /\ AnswersAgree(v, x2, config[o].sequence_number, c.ack_number, q)
          /\ ~IsActive(e) => Without(v, x2, DataFrames)
      BY <1>1, <1>7, <1>2, <3>1, MeaningOf, TrimKeepsAgreement, TrimKeepsWithout DEF a
    <3> QED
      BY <3>1, <3>2 DEF x2
  <2>2. ASSUME NEW y \in Frame, Starts(e, c, w, y)
        PROVE  /\ DataAgrees(v, d.sending, a, p)
               /\ ConfsFirst(v, d.sending, m, a # 0 \/ s # 0)
               /\ AnswersAgree(v, d.sending, config[o].sequence_number, c.ack_number, r)
               /\ ~IsActive(e) => Without(v, d.sending, DataFrames)
    <3>1. c.sending = NoFrame /\ v = w /\ d.sending = y
      BY <1>1, <2>2 DEF Starts
    <3>2. /\ y \in Headers
          /\ y \in ReliableFrames => y.seq = s /\ y.packet = c.send_packet
          /\ q => y.ack = c.ack_number /\ y \notin LeFrames /\ r
          /\ ~q => y.ack = 0
          /\ y \in ConfFrames => ~n
          /\ y \in DataFrames => n
          /\ n => m
      BY <2>2, StartedFrame
    <3>3. y \in ReliableFrames => c.send_packet # NoPacket
      <4>1. y \in ReliableFrames => c.send_packet.reliable
        BY <2>2, StartedFrame
      <4> QED
        BY <4>1 DEF NoPacket
    <3>4. (y \in Fresh(a) => p) /\ (p => y \notin Stale(a))
      BY <1>2, <3>2, <3>3 DEF Fresh, Stale
    <3> HIDE DEF s, a, x, n, q, d, v, m, r
    <3>5. DataAgrees(w, y, a, p)
      BY <1>2, <3>1, <3>4, StartKeepsDataAgreed DEF a
    <3>6. ConfsFirst(w, y, m, a # 0 \/ s # 0)
      BY <1>1, <1>7, <3>1, <3>2, StartKeepsConfs
    <3>7. AnswersAgree(w, y, config[o].sequence_number, c.ack_number, r)
      BY <1>1, <1>7, <3>1, <3>2, StartKeepsAnswers
    <3>8. ~IsActive(e) => Without(w, y, DataFrames)
      BY <1>1, <1>7, <3>1, <3>2, StartKeeps
    <3> QED
      BY <3>1, <3>5, <3>6, <3>7, <3>8
  <2> QED
    BY <1>3, <2>1, <2>2
<1>9. NumbersAgree(e)'
  <2>1. /\ Held(e)' <=> c.send_packet # NoPacket
        /\ IsActive(e)' <=> IsActive(e)
    BY <1>3, <1>4 DEF Held, IsActive
  <2>2. DataAgrees(v, d.sending, a, Held(e)' /\ a = s)
    BY <1>8, <1>2, <2>1 DEF DataAgrees
  <2>3. AnswersAgree(line[e], config[o].sending, s, a, Quiet(config[o]))
    BY <1>1 DEF NumbersAgree
  <2>4. /\ d.sequence_number = s /\ config'[o].ack_number = a /\ config'[o] = config[o]
        /\ line'[e] = line[e]
        /\ ~IsActive(e) => a = 0 /\ s = 0 /\ Without(v, d.sending, DataFrames)
        /\ a # s => a = (s + 1) % SeqModulus /\ Held(e)'
    BY <1>3, <1>5, <1>8, <2>1
  <2>5. ConfsFirst(v, d.sending, m, a # 0 \/ s # 0)
    BY <1>8
  <2>6. a # d.sequence_number => a = (d.sequence_number + 1) % SeqModulus /\ Held(e)'
    BY <2>4
  <2> QED
    BY <1>1, <2>1, <2>2, <2>3, <2>4, <2>5, <2>6, Zenon DEF NumbersAgree
<1>10. NumbersAgree(o)'
  <2>1. (Held(o)' <=> Held(o)) /\ (IsActive(o)' <=> IsActive(o))
    BY <1>3 DEF Held, IsActive
  <2>2. DataAgrees(line[e], config[o].sending, c.ack_number,
                   Held(o)' /\ c.ack_number = config[o].sequence_number)
    BY <1>1, <2>1 DEF NumbersAgree, DataAgrees
  <2> QED
    BY <1>1, <1>3, <1>8, <2>1, <2>2 DEF NumbersAgree
<1>11. ASSUME NEW f \in Fresh(a), f \in Stream(v, d.sending)
       PROVE  \/ f \in Stream(line[o], x)
              \/ f.packet = c.send_packet /\ Held(e)' /\ a = s
  <2>1. CASE f = d.sending /\ f # c.sending /\ \E y \in Frame : Starts(e, c, w, y)
    <3>1. PICK y \in Frame : Starts(e, c, w, y)
      BY <2>1
    <3>2. d.sending = y
      BY <3>1 DEF Starts
    <3>3. /\ f \in ReliableFrames /\ f.seq = a
          /\ f \in ReliableFrames => /\ c.send_packet.reliable
                                     /\ f.seq = s /\ f.packet = c.send_packet
      BY <2>1, <3>1, <3>2, StartedFrame DEF Fresh
    <3> QED
      BY <1>4, <3>3 DEF Held, NoPacket
  <2>2. CASE ~(f = d.sending /\ f # c.sending /\ \E y \in Frame : Starts(e, c, w, y))
    <3>1. f \notin {NoFrame, BadFrame}
      BY MeaningOf
    <3>2. f \in Stream(w, c.sending)
      <4>1. CASE Continues(e, c, w)
        <5>1. Trims(w, c.sending, v, d.sending)
          BY <1>1, <4>1 DEF Continues
        <5> HIDE DEF v, d
        <5> QED
          BY <1>1, <1>11, <3>1, <5>1, TrimBringsNoFrame
      <4>2. CASE \E y \in Frame : Starts(e, c, w, y)
        <5>1. v = w /\ (f = d.sending => f = c.sending)
          BY <1>1, <2>2, <4>2 DEF Starts
        <5> QED
          BY <1>11, <5>1 DEF Stream
      <4> QED
        BY <1>3, <4>1, <4>2
    <3> QED
      BY <1>1, <3>1, <3>2, TrimBringsNoFrame
  <2> QED
    BY <2>1, <2>2
<1> QED
  BY <1>9, <1>10, <1>11

-----------------------------------------------------------------------------
(* While the numbers agree, every step keeps what is paid for.             *)

\* A frame taken at e keeps what is paid for of the packets from e.
LEMMA ReceiveKeepsPaidOwn ==
  ASSUME RestartTypeOK, StreamsInOrder, NEW e \in End, NEW o \in End, o = Other(e),
         Receive(e), LinkStep, ~ReceivePeerReset(e), NEW CONSTANT b \in Nat,
         NumbersAgree(e), Paid(e, b), PaidInFlight(e, b)
  PROVE  Paid(e, b)' /\ PaidInFlight(e, b)'
<1> DEFINE u == Unreached(e)
           v == Unreached(e)'
           n == packets[e]
           a == config[o].ack_number
           s == config[e].sequence_number
<1>1. /\ Other(e) = o /\ Other(o) = e /\ TypeOK /\ EngineInStep(e) /\ EngineInStep(o)
      /\ line[e] \in Seq(Frame) /\ line[o] \in Seq(Frame) /\ config[e].sending \in Frame
  BY WindowTypes, Ends DEF RestartTypeOK, StreamsInOrder
<1>2. /\ line[e] # <<>> /\ config'[o] = config[o] /\ Received(e)
      /\ packets' = packets /\ mayCall' = mayCall /\ outstanding' = outstanding
      /\ Acks(e) => Head(line[e]) \in NotAcking(s)
  BY <1>1, TakenIs
<1>3. Acks(e) => a # s /\ IsActive(e) /\ Held(e)
  BY <1>1, ReceiveKeepsNumbersOwn
<1>4. /\ Free(e)' <=> Free(e) \/ Acks(e) \/ Activates(e)
      /\ IsActive(e)' <=> IsActive(e) \/ Activates(e)
      /\ Activates(e) => ~IsActive(e)
      /\ config'[e].send_packet = IF Acks(e) THEN NoPacket ELSE config[e].send_packet
      /\ ~Acks(e) => config'[e].sequence_number = s
  BY <1>2 DEF Received, Free, IsActive, Activates
<1>5. /\ IsFiniteSet(u) /\ v \subseteq u /\ packets'[e] = n
      /\ Cardinality(u) \in Nat /\ Cardinality(v) \in Nat
      /\ Cardinality(v) <= Cardinality(u)
      /\ Cardinality(v \cup {n}) <= Cardinality(u \cup {n})
      /\ Cardinality(v \cup {n}) \in Nat /\ Cardinality(u \cup {n}) \in Nat
  BY <1>2, UnreachedIs, SizesOf
<1>6. \A f \in Fresh(a) : f \in Stream(line'[o], config'[e].sending)
        => f \in Stream(line[o], config[e].sending)
  <2>1. Trims(line[o], config[e].sending, line'[o], config'[e].sending)
    BY <1>1, <1>2 DEF Received
  <2> QED
    BY <1>1, <2>1, MeaningOf, TrimBringsNoFrame
<1>7. CASE Acks(e)
  <2>1. Cardinality(u) <= b
    BY <1>1, <1>3, <1>7 DEF PaidInFlight
  <2>2. ~Held(e)' /\ ~Early(e)' /\ IsActive(e)'
    BY <1>3, <1>4, <1>7 DEF Held, Early
  <2>3. Cardinality(v) <= b
    <3> HIDE DEF u, v
    <3> QED
      BY <1>5, <2>1
  <2> QED
    BY <2>2, <2>3 DEF Paid, PaidInFlight
<1>8. CASE ~Acks(e)
  <2>1. (Held(e)' <=> Held(e)) /\ config'[e].send_packet = config[e].send_packet
    BY <1>4, <1>8 DEF Held
  <2>2. Early(e)' => Early(e)
    BY <1>4, <1>8, <2>1 DEF Early
  <2>3. PaidInFlight(e, b)'
    BY <1>1, <1>2, <1>4, <1>5, <1>6, <1>8, <2>1, <2>2, PaidInFlightKept
  <2>4. CASE Activates(e)
    <3>1. Free(e)' /\ IsActive(e)' /\ (Early(e)' <=> Held(e))
      BY <1>4, <2>1, <2>4 DEF Early
    <3>2. ~Held(e) => Cardinality(v) <= b
      <4>1. ~Held(e) => Cardinality(u) <= b
        BY DEF Paid
      <4> HIDE DEF u, v
      <4> QED
        BY <1>5, <4>1
    <3>3. Held(e) => Cardinality(v \cup {n}) <= b
      <4>1. Held(e) => Cardinality(u \cup {n}) <= b
        BY <1>4, <2>4 DEF Paid, Early
      <4> HIDE DEF u, v, n
      <4> QED
        BY <1>5, <4>1
    <3> QED
      BY <1>5, <2>1, <2>3, <3>1, <3>2, <3>3 DEF Paid
  <2>5. CASE ~Activates(e)
    <3>1. /\ Free(e)' <=> Free(e)
          /\ IsActive(e)' <=> IsActive(e)
          /\ outstanding'[e] = outstanding[e]
      BY <1>2, <1>4, <1>8, <2>5
    <3> QED
      BY <1>5, <2>1, <2>3, <3>1, PaidKept
  <2> QED
    BY <2>4, <2>5
<1> QED
  BY <1>7, <1>8

\* A frame taken at e keeps what is paid for of the packets to e: whichever packet
\* it delivers, the rest was paid for.
LEMMA ReceiveKeepsPaidOther ==
  ASSUME RestartTypeOK, StreamsInOrder, NEW e \in End, NEW o \in End, o = Other(e),
         Receive(e), LinkStep, ~ReceivePeerReset(e), NEW CONSTANT b \in Nat,
         NumbersAgree(o), Paid(o, b), PaidInFlight(o, b)
  PROVE  Paid(o, b)' /\ PaidInFlight(o, b)'
<1> DEFINE u == Unreached(o)
           v == Unreached(o)'
           n == packets[o]
           a == config[e].ack_number
           f == Head(line[e])
           i == f.packet.id
<1>1. /\ Other(e) = o /\ Other(o) = e /\ TypeOK /\ EngineInStep(e) /\ EngineInStep(o)
      /\ line[e] \in Seq(Frame) /\ config[o].sending \in Frame
      /\ a \in 0 .. SeqModulus - 1
  BY WindowTypes, Ends DEF RestartTypeOK, StreamsInOrder
<1>2. /\ line[e] # <<>> /\ line'[e] = Tail(line[e])
      /\ config'[o] = config[o] /\ poll'[o] = poll[o] /\ Received(e)
      /\ packets' = packets /\ mayCall' = mayCall /\ outstanding' = outstanding
      /\ Delivers(e) => delivered'[e] = Append(delivered[e], i)
  BY <1>1, TakenIs
<1>3. /\ (Held(o)' <=> Held(o)) /\ (Free(o)' <=> Free(o))
      /\ (IsActive(o)' <=> IsActive(o)) /\ (Early(o)' <=> Early(o))
      /\ config'[o].send_packet = config[o].send_packet
      /\ config'[o].sequence_number = config[o].sequence_number
  BY <1>2 DEF Held, Free, IsActive, Early, Sent
<1>4. /\ IsFiniteSet(u) /\ v \subseteq u /\ packets'[o] = n
  BY <1>2, UnreachedIs
<1>5. Paid(o, b)'
  BY <1>2, <1>3, <1>4, PaidKept
<1>6. CASE Delivers(e)
  <2>1. /\ NumbersAgree(o)'
        /\ Held(o) /\ config[o].sequence_number = a
    BY <1>1, <1>6, ReceiveKeepsNumbersOther
  <2>2. f \in Fresh(a) /\ f \in Stream(line[e], config[o].sending)
    <3>1. line[e][1] = f /\ 1 \in 1 .. Len(line[e])
      BY <1>1, <1>2
    <3> QED
      BY <1>6, <3>1 DEF Delivers, Stream, Range
  <2>3. /\ Cardinality(u \ {i}) <= b
        /\ Early(o) => i = n
    BY <1>1, <2>1, <2>2 DEF PaidInFlight
  <2>4. i \notin v
    <3>1. delivered[e] \in Seq(Nat) /\ delivered'[e] = Append(delivered[e], i)
      BY <1>1, <1>2, <1>6, WindowTypes
    <3>2. i \in Range(delivered'[e])
      <4>1. /\ Append(delivered[e], i)[Len(delivered[e]) + 1] = i
            /\ Len(delivered[e]) + 1 \in 1 .. Len(Append(delivered[e], i))
        BY <3>1
      <4> QED
        BY <3>1, <4>1 DEF Range
    <3>3. reached'[e] = reached[e] \cup Range(delivered'[e])
      BY DEF LinkStep
    <3> QED
      BY <1>1, <3>2, <3>3 DEF Unreached
  <2>5. v \subseteq u \ {i}
    BY <1>4, <2>4
  <2>6. Cardinality(v) <= b
    <3>1. IsFiniteSet(u \ {i})
      BY <1>4, FS_RemoveElement
    <3> HIDE DEF u, v, i
    <3>2. /\ Cardinality(v) <= Cardinality(u \ {i})
          /\ Cardinality(v) \in Nat /\ Cardinality(u \ {i}) \in Nat
      BY <2>5, <3>1, SizesOf
    <3> QED
      BY <2>3, <3>2
  <2>7. \A g \in Stream(line'[e], config'[o].sending) : g \notin Fresh(config'[e].ack_number)
    <3>1. config'[e].ack_number # config'[o].sequence_number
      <4>1. config'[e].ack_number = (a + 1) % SeqModulus
        BY <1>2, <1>6 DEF Received
      <4> HIDE DEF a
      <4> QED
        BY <1>1, <1>3, <2>1, <4>1, NextNumber
    <3>2. Without(line'[e], config'[o].sending, Fresh(config'[e].ack_number))
      BY <1>1, <2>1, <3>1 DEF NumbersAgree, DataAgrees
    <3> QED
      BY <3>2 DEF Without, Has, Stream, Range
  <2>8. Early(o)' => packets'[o] \notin v
    BY <1>3, <1>4, <2>3, <2>4
  <2> QED
    BY <1>1, <1>5, <2>6, <2>7, <2>8 DEF PaidInFlight
<1>7. CASE ~Delivers(e)
  <2>1. config'[e].ack_number = a
    BY <1>2, <1>7 DEF Received
  <2>2. Trims(line[e], config[o].sending, line'[e], config'[o].sending)
    BY <1>2 DEF Trims
  <2>3. \A g \in Fresh(a) : g \in Stream(line'[e], config'[o].sending)
          => g \in Stream(line[e], config[o].sending)
    BY <1>1, <2>2, MeaningOf, TrimBringsNoFrame
  <2>4. PaidInFlight(o, b)'
    BY <1>1, <1>3, <1>4, <2>1, <2>3, PaidInFlightKept
  <2> QED
    BY <1>5, <2>4
<1> QED
  BY <1>6, <1>7

\* A transmit step from c keeps the packet, unless that is unreliable.
LEMMA TransmitHolds ==
  ASSUME EngineType, NEW e \in End, NEW c \in Config, NEW w \in Seq(Frame),
         TransmitStep(e, c, w), ~SentUnreliable(c)
  PROVE  /\ config'[e].send_packet = c.send_packet
         /\ config'[e].sequence_number = c.sequence_number
         /\ config'[e].ack_number = c.ack_number
         /\ config'[e].link_establishment_state = c.link_establishment_state
         /\ ~Sent(e)'
         /\ config'[Other(e)] = config[Other(e)]
         /\ poll'[Other(e)] = poll[Other(e)]
         /\ line'[e] = line[e]
<1>1. Continues(e, c, w) \/ \E y \in Frame : Starts(e, c, w, y)
  BY TransmitEffect
<1>2. config'[e].send_packet = c.send_packet /\ ~Sent(e)'
  BY <1>1 DEF Continues, Starts
<1> QED
  BY <1>2, TransmitEffect

\* What a poll that submits nothing leaves alone.
LEMMA NextPollHolds ==
  ASSUME TypeOK, HoldsReliable, NEW e \in End, NEW o \in End, o = Other(e), NextPoll(e)
  PROVE  /\ ~SentUnreliable(Returned(e))
         /\ config'[e].send_packet = config[e].send_packet
         /\ config'[e].sequence_number = config[e].sequence_number
         /\ config'[e].ack_number = config[e].ack_number
         /\ config'[o] = config[o] /\ line'[e] = line[e]
         /\ packets' = packets
         /\ Held(e)' <=> Held(e)
         /\ Free(e)' <=> Free(e)
         /\ IsActive(e)' <=> IsActive(e)
         /\ ~Sent(e) => outstanding'[e] = outstanding[e]
         /\ Held(o)' <=> Held(o)
         /\ Free(o)' <=> Free(o)
         /\ IsActive(o)' <=> IsActive(o)
         /\ outstanding'[o] = outstanding[o]
<1> DEFINE c == Returned(e)
<1>1. o # e /\ EngineType /\ line[o] \in Seq(Frame)
  BY WindowTypes, Ends
<1>2. /\ c \in Config
      /\ c.sequence_number = config[e].sequence_number
      /\ c.ack_number = config[e].ack_number
      /\ c.link_establishment_state = config[e].link_establishment_state
      /\ c.send_packet = config[e].send_packet
  BY <1>1, ReturnedIs
<1>3. TransmitStep(e, c, line[o]) /\ ~SentUnreliable(c) /\ packets' = packets
  BY <1>2 DEF NextPoll, HoldsReliable, Held, SentUnreliable
<1> HIDE DEF c
<1>4. /\ config'[e].send_packet = c.send_packet
      /\ config'[e].sequence_number = c.sequence_number
      /\ config'[e].ack_number = c.ack_number
      /\ config'[e].link_establishment_state = c.link_establishment_state
      /\ ~Sent(e)'
      /\ config'[o] = config[o] /\ poll'[o] = poll[o] /\ line'[e] = line[e]
  BY <1>1, <1>2, <1>3, TransmitHolds
<1>5. mayCall'[e] <=> mayCall[e] \/ Sent(e)
  <2>1. mayCall \in [End -> BOOLEAN] /\ mayCall' = [mayCall EXCEPT ![e] = @ \/ Sent(e)]
    BY DEF NextPoll, TypeOK
  <2> QED
    BY <2>1
<1>6. mayCall'[o] = mayCall[o]
  BY <1>1 DEF NextPoll, TypeOK
<1>7. /\ ~Sent(e) => outstanding'[e] = outstanding[e]
      /\ outstanding'[o] = outstanding[o]
  BY <1>1 DEF NextPoll, TypeOK
<1> QED
  BY <1>2, <1>3, <1>4, <1>5, <1>6, <1>7 DEF Held, Free, IsActive, Sent, c

\* A poll that submits nothing keeps what is paid for: the frame that starts carries
\* the packet held.
LEMMA NextPollKeepsAgreed ==
  ASSUME RestartTypeOK, Handshake, StreamsInOrder, HoldsReliable, NEW e \in End,
         NextPoll(e), LinkStep, NEW CONSTANT b \in Nat, Agreed(b)
  PROVE  Agreed(b)'
<1> DEFINE o == Other(e)
           c == Returned(e)
           w == line[o]
           u == Unreached(e)
           n == packets[e]
           a == config[o].ack_number
           s == config[e].sequence_number
<1>1. /\ o \in End /\ Other(o) = e /\ \A y \in End : y = e \/ y = o
      /\ TypeOK /\ EngineType /\ w \in Seq(Frame) /\ config[e].sending \in Frame
      /\ PacketsInOrder(e)
  BY WindowTypes, Ends DEF RestartTypeOK, StreamsInOrder
<1>2. /\ c \in Config
      /\ c.sequence_number = s
      /\ c.ack_number = config[e].ack_number
      /\ c.link_establishment_state = config[e].link_establishment_state
      /\ c.link_establishment_packet = config[e].link_establishment_packet
      /\ c.link_establishment_resp = config[e].link_establishment_resp
      /\ c.send_packet = config[e].send_packet
      /\ c.sending = config[e].sending
  BY <1>1, ReturnedIs
<1>3. TransmitStep(e, c, w)
  BY DEF NextPoll
<1>4. /\ ~SentUnreliable(c)
      /\ config'[e].send_packet = config[e].send_packet
      /\ config'[e].sequence_number = s
      /\ config'[o] = config[o]
      /\ packets' = packets
      /\ Held(e)' <=> Held(e)
      /\ Free(e)' <=> Free(e)
      /\ IsActive(e)' <=> IsActive(e)
      /\ ~Sent(e) => outstanding'[e] = outstanding[e]
      /\ Held(o)' <=> Held(o)
      /\ Free(o)' <=> Free(o)
      /\ IsActive(o)' <=> IsActive(o)
      /\ outstanding'[o] = outstanding[o]
      /\ line'[e] = line[e]
  BY <1>1, NextPollHolds
<1>5. /\ NumbersAgree(e) /\ Paid(e, b) /\ PaidInFlight(e, b)
      /\ NumbersAgree(o) /\ Paid(o, b) /\ PaidInFlight(o, b)
  BY <1>1 DEF Agreed
<1> HIDE DEF c
<1>6. /\ NumbersAgree(e)' /\ NumbersAgree(o)'
      /\ \A f \in Fresh(a) :
           f \in Stream(line'[o], config'[e].sending)
             => \/ f \in Stream(line[o], config[e].sending)
                \/ f.packet = c.send_packet /\ Held(e)' /\ a = s
  <2>2. Trims(line[o], config[e].sending, w, c.sending)
    BY <1>2 DEF Trims
  <2>3. DataAgrees(w, c.sending, a, c.send_packet # NoPacket /\ a = c.sequence_number)
    BY <1>2, <1>5 DEF NumbersAgree, DataAgrees, Held
  <2>4. Held(e) => c.send_packet # NoPacket
    BY <1>2 DEF Held
  <2> QED
    BY <1>1, <1>2, <1>3, <1>4, <1>5, <2>2, <2>3, <2>4, TransmitKeepsNumbers
<1>7. /\ IsFiniteSet(u) /\ Unreached(e)' \subseteq u
      /\ IsFiniteSet(Unreached(o)) /\ Unreached(o)' \subseteq Unreached(o)
  BY <1>1, <1>4, UnreachedIs
<1>8. Paid(e, b)'
  BY <1>4, <1>5, <1>7, PaidKept
<1>9. Paid(o, b)'
  BY <1>1, <1>4, <1>5, <1>7, PaidKept
<1>10. PaidInFlight(o, b)'
  <2>1. /\ Early(o)' => Early(o)
        /\ config'[o].sequence_number = config[o].sequence_number
        /\ config'[e].ack_number = config[e].ack_number
    BY <1>1, <1>4, NextPollHolds DEF Early
  <2>2. \A f \in Fresh(config[e].ack_number) :
          f \in Stream(line'[e], config'[o].sending) => f \in Stream(line[e], config[o].sending)
    BY <1>4
  <2> QED
    BY <1>1, <1>4, <1>5, <1>7, <2>1, <2>2, PaidInFlightKept
<1>11. PaidInFlight(e, b)'
  <2>1. Early(e)' <=> Early(e)
    BY <1>4 DEF Early
  <2>2. Held(e) => config[e].send_packet.id = n
    BY <1>1 DEF PacketsInOrder, Held
  <2>3. Held(e) => Cardinality(u \ {n}) <= b
    <3>1. /\ Cardinality(u \ {n}) <= Cardinality(u)
          /\ Cardinality(u) <= Cardinality(u \cup {n})
          /\ Cardinality(u) \in Nat /\ Cardinality(u \ {n}) \in Nat
          /\ Cardinality(u \cup {n}) = Cardinality(u \ {n}) + 1
      BY <1>7, SizesOf
    <3>2. \/ ~Held(e)
          \/ Cardinality(u \ {n}) <= b
          \/ Cardinality(u \cup {n}) <= b
      BY <1>5 DEF Paid
    <3> HIDE DEF u, n
    <3> QED
      BY <3>1, <3>2
  <2>4. CASE \A f \in Fresh(a) : f \in Stream(line'[o], config'[e].sending)
               => f \in Stream(line[o], config[e].sending)
    BY <1>4, <1>5, <1>7, <2>1, <2>4, PaidInFlightKept
  <2>5. CASE Held(e) /\ a = s
    <3>1. /\ \A f \in Fresh(a) \cap Stream(line[o], config[e].sending) :
               /\ Early(e) => f.packet.id = n
               /\ Cardinality(u \ {f.packet.id}) <= b
      BY <1>5, <2>5 DEF PaidInFlight
    <3>2. ASSUME NEW f \in Fresh(a), f \in Stream(line'[o], config'[e].sending)
          PROVE  /\ Early(e) => f.packet.id = n
                 /\ Cardinality(Unreached(e)' \ {f.packet.id}) <= b
      <4> DEFINE i == f.packet.id
                 v == Unreached(e)'
      <4>1. /\ Cardinality(v \ {i}) <= Cardinality(u \ {i})
            /\ Cardinality(v \ {i}) \in Nat /\ Cardinality(u \ {i}) \in Nat
        BY <1>7, SizesOf
      <4>2. (Early(e) => i = n) /\ Cardinality(u \ {i}) <= b
        BY <1>2, <1>6, <2>2, <2>3, <2>5, <3>1, <3>2
      <4> HIDE DEF i, v, u
      <4>3. Cardinality(v \ {i}) <= b
        BY <4>1, <4>2
      <4> QED
        BY <4>2, <4>3 DEF i, v
    <3>3. config'[o].ack_number = a /\ packets'[e] = n
      BY <1>4
    <3>4. Fresh(a)' = Fresh(a)
      BY <3>3 DEF Fresh
    <3> QED
      BY <1>4, <2>1, <2>5, <3>2, <3>3, <3>4 DEF PaidInFlight
  <2> QED
    BY <1>4, <1>6, <2>4, <2>5
<1> QED
  BY <1>1, <1>6, <1>8, <1>9, <1>10, <1>11 DEF Agreed

\* What a poll that submits a packet, which is reliable, leaves to the transmit step
\* and to the other end.
LEMMA SubmitHolds ==
  ASSUME TypeOK, \A i \in End : Reliability[i] \subseteq {TRUE},
         NEW e \in End, NEW o \in End, o = Other(e), Submit(e)
  PROVE  /\ Free(e) /\ ~Free(e)'
         /\ Held(e)'
         /\ config'[e].send_packet = [id |-> packets[e] + 1, reliable |-> TRUE]
         /\ outstanding'[e] = config'[e].send_packet
         /\ config'[e].sequence_number = config[e].sequence_number
         /\ config'[e].ack_number = config[e].ack_number
         /\ config'[o] = config[o] /\ line'[e] = line[e]
         /\ packets'[e] = packets[e] + 1 /\ packets'[o] = packets[o]
         /\ IsActive(e)' <=> IsActive(e)
         /\ Held(o)' <=> Held(o)
         /\ Free(o)' <=> Free(o)
         /\ IsActive(o)' <=> IsActive(o)
         /\ outstanding'[o] = outstanding[o]
         /\ \E w \in Seq(Frame), c \in Config :
              /\ TransmitStep(e, c, w)
              /\ Trims(line[o], config[e].sending, w, c.sending)
              /\ c.sequence_number = config[e].sequence_number
              /\ c.ack_number = config[e].ack_number
              /\ c.link_establishment_state = config[e].link_establishment_state
              /\ c.link_establishment_packet = config[e].link_establishment_packet
              /\ c.link_establishment_resp = config[e].link_establishment_resp
              /\ c.sending = NoFrame
              /\ c.send_packet = config'[e].send_packet
              /\ ~SentUnreliable(c)
<1>1. o # e /\ EngineType /\ packets[e] \in Nat
  BY WindowTypes, Ends DEF TypeOK
<1>2. PICK r \in BOOLEAN, w \in Seq(Frame), c \in Config :
        /\ TransmitStep(e, c, w)
        /\ Trims(line[o], config[e].sending, w, c.sending)
        /\ c.sequence_number = config[e].sequence_number
        /\ c.ack_number = config[e].ack_number
        /\ c.link_establishment_state = config[e].link_establishment_state
        /\ c.link_establishment_packet = config[e].link_establishment_packet
        /\ c.link_establishment_resp = config[e].link_establishment_resp
        /\ c.sending = NoFrame
        /\ c.send_packet = [id |-> packets[e] + 1, reliable |-> r]
        /\ outstanding'[e] = c.send_packet
        /\ submitted'[e] = IF r THEN Append(submitted[e], packets[e] + 1)
                           ELSE submitted[e]
  BY SubmitPoll
<1>3. outstanding'[e].reliable = TRUE /\ outstanding'[o] = outstanding[o]
  <2>1. PICK q \in Reliability[e] :
          outstanding' = [outstanding EXCEPT ![e] = [id |-> packets[e] + 1, reliable |-> q]]
    BY DEF Submit
  <2>2. q = TRUE
    OBVIOUS
  <2> QED
    BY <1>1, <2>1, <2>2 DEF TypeOK
<1>4. c.send_packet = [id |-> packets[e] + 1, reliable |-> TRUE]
  BY <1>2, <1>3
<1>5. ~SentUnreliable(c) /\ c.send_packet # NoPacket
  BY <1>4 DEF SentUnreliable, NoPacket
<1>6. /\ config'[e].send_packet = c.send_packet
      /\ config'[e].sequence_number = c.sequence_number
      /\ config'[e].ack_number = c.ack_number
      /\ config'[e].link_establishment_state = c.link_establishment_state
      /\ ~Sent(e)'
      /\ config'[o] = config[o] /\ poll'[o] = poll[o] /\ line'[e] = line[e]
  BY <1>1, <1>2, <1>5, TransmitHolds
<1>7. /\ mayCall[e] \/ Sent(e)
      /\ ~mayCall'[e] /\ mayCall'[o] = mayCall[o]
      /\ packets'[e] = packets[e] + 1 /\ packets'[o] = packets[o]
  BY <1>1 DEF Submit, TypeOK
<1>8. \E w2 \in Seq(Frame), c2 \in Config :
        /\ TransmitStep(e, c2, w2)
        /\ Trims(line[o], config[e].sending, w2, c2.sending)
        /\ c2.sequence_number = config[e].sequence_number
        /\ c2.ack_number = config[e].ack_number
        /\ c2.link_establishment_state = config[e].link_establishment_state
        /\ c2.link_establishment_packet = config[e].link_establishment_packet
        /\ c2.link_establishment_resp = config[e].link_establishment_resp
        /\ c2.sending = NoFrame
        /\ c2.send_packet = config'[e].send_packet
        /\ ~SentUnreliable(c2)
  BY <1>2, <1>5, <1>6, Zenon
<1>9. Free(e) /\ ~Free(e)' /\ (Free(o)' <=> Free(o))
  BY <1>6, <1>7 DEF Free, Sent
<1>10. Held(e)' /\ (Held(o)' <=> Held(o))
  BY <1>5, <1>6 DEF Held
<1>11. (IsActive(e)' <=> IsActive(e)) /\ (IsActive(o)' <=> IsActive(o))
  BY <1>2, <1>6 DEF IsActive
<1> QED
  BY <1>2, <1>3, <1>4, <1>6, <1>7, <1>8, <1>9, <1>10, <1>11

\* One more packet is missing, at most.
LEMMA SubmitSizes ==
  ASSUME RestartTypeOK, LinkStep, NEW e \in End, packets'[e] = packets[e] + 1,
         Free(e), NEW CONSTANT b \in Nat, Paid(e, b)
  PROVE  /\ Unreached(e)' \subseteq Unreached(e) \cup {packets'[e]}
         /\ Unreached(e)' \ {packets'[e]} \subseteq Unreached(e)
         /\ IsFiniteSet(Unreached(e)') /\ IsFiniteSet(Unreached(e))
         /\ Cardinality(Unreached(e)) <= b
         /\ Cardinality(Unreached(e)' \ {packets'[e]}) <= b
         /\ ~IsActive(e) => Cardinality(Unreached(e)' \cup {packets'[e]}) <= b
         /\ Held(e) => Cardinality(Unreached(e)' \ {packets[e]}) <= b
         /\ Held(e) /\ packets[e] \notin Unreached(e) => Cardinality(Unreached(e)') <= b
<1> DEFINE o == Other(e)
           u == Unreached(e)
           v == Unreached(e)'
           n == packets[e]
           m == packets'[e]
<1>1. o \in End /\ n \in Nat /\ m = n + 1
  BY Ends DEF RestartTypeOK, TypeOK
<1>2. v \subseteq u \cup {m} /\ m \notin u /\ n # m
  <2>1. reached'[o] = reached[o] \cup Range(delivered'[o])
    BY <1>1 DEF LinkStep
  <2>2. 1 .. m = (1 .. n) \cup {m} /\ m \notin 1 .. n
    BY <1>1
  <2> HIDE DEF n, m
  <2>3. u = (1 .. n) \ reached[o] /\ v = (1 .. m) \ reached'[o]
    BY DEF Unreached, n, m
  <2> HIDE DEF u, v
  <2> QED
    BY <1>1, <2>1, <2>2, <2>3
<1>3. IsFiniteSet(u) /\ IsFiniteSet(u \cup {m}) /\ IsFiniteSet(u \cup {n})
  BY UnreachedIs, FS_AddElement
<1> HIDE DEF u, v, n, m
<1>4. /\ Cardinality(u) \in Nat /\ Cardinality(u \ {n}) \in Nat
      /\ Cardinality(u \cup {n}) = Cardinality(u \ {n}) + 1
      /\ Cardinality(u) <= Cardinality(u \cup {n})
      /\ n \notin u => Cardinality(u \cup {n}) = Cardinality(u) + 1
      /\ Cardinality(u \cup {m}) = Cardinality(u) + 1
  BY <1>2, <1>3, SizesOf
<1>5. v \ {m} \subseteq u /\ Cardinality(v \ {m}) <= Cardinality(u)
  <2>1. v \ {m} \subseteq u
    BY <1>2
  <2> QED
    BY <1>3, <2>1, SizesOf
<1>6. /\ Cardinality(v) <= Cardinality(u) + 1 /\ IsFiniteSet(v)
      /\ Cardinality(v \cup {m}) <= Cardinality(u) + 1
      /\ Cardinality(v) \in Nat /\ Cardinality(v \cup {m}) \in Nat
      /\ Cardinality(v \ {m}) \in Nat
  <2>1. v \cup {m} \in SUBSET (u \cup {m}) /\ v \in SUBSET (u \cup {m})
    BY <1>2
  <2>2. /\ Cardinality(v) <= Cardinality(u \cup {m}) /\ IsFiniteSet(v)
        /\ Cardinality(v \cup {m}) <= Cardinality(u \cup {m}) /\ IsFiniteSet(v \cup {m})
        /\ IsFiniteSet(v \ {m})
    BY <1>3, <2>1, FS_Subset, FS_RemoveElement
  <2> QED
    BY <1>4, <2>2, FS_CardinalityType
<1>7. /\ Cardinality(v \ {n}) <= Cardinality(u \ {n}) + 1
      /\ Cardinality(v \ {n}) \in Nat
  <2> DEFINE k == u \ {n}
  <2>1. IsFiniteSet(k) /\ m \notin k /\ v \ {n} \in SUBSET (k \cup {m})
    BY <1>2, <1>3, FS_RemoveElement
  <2> HIDE DEF k
  <2>2. IsFiniteSet(k \cup {m}) /\ Cardinality(k \cup {m}) = Cardinality(k) + 1
    BY <2>1, FS_AddElement
  <2>3. IsFiniteSet(v \ {n}) /\ Cardinality(v \ {n}) <= Cardinality(k \cup {m})
    BY <2>1, <2>2, FS_Subset
  <2> QED
    BY <2>2, <2>3, FS_CardinalityType DEF k
<1>8. /\ ~Held(e) => Cardinality(u) <= b
      /\ Held(e) => Cardinality(u \cup {n}) <= b
      /\ ~IsActive(e) => Cardinality(u \cup IF Held(e) THEN {n} ELSE {}) < b
  BY DEF Paid, Early, u, n
<1>9. ~IsActive(e) => Cardinality(u) < b
  <2>1. u \cup {} = u
    OBVIOUS
  <2> QED
    BY <1>4, <1>8, <2>1
<1>10. Cardinality(u) <= b
  BY <1>4, <1>8
<1>11. Cardinality(v \ {m}) <= b /\ (~IsActive(e) => Cardinality(v \cup {m}) <= b)
  BY <1>4, <1>5, <1>6, <1>9, <1>10
<1>12. Held(e) => Cardinality(v \ {n}) <= b
  BY <1>4, <1>7, <1>8
<1>13. Held(e) /\ n \notin u => Cardinality(v) <= b
  BY <1>4, <1>6, <1>8
<1> QED
  BY <1>2, <1>3, <1>5, <1>6, <1>10, <1>11, <1>12, <1>13 DEF u, v, n, m

\* After a packet was submitted, what Paid says of it.
LEMMA SubmitKeepsPaid ==
  ASSUME RestartTypeOK, \A i \in End : Reliability[i] \subseteq {TRUE},
         NEW e \in End, Submit(e), LinkStep, NEW CONSTANT b \in Nat, Paid(e, b)
  PROVE  Paid(e, b)' /\ (Early(e)' <=> ~IsActive(e))
<1> DEFINE v == Unreached(e)'
           m == packets'[e]
<1>1. /\ TypeOK /\ Free(e) /\ ~Free(e)' /\ Held(e)'
      /\ outstanding'[e] = config'[e].send_packet
      /\ packets'[e] = packets[e] + 1
      /\ IsActive(e)' <=> IsActive(e)
  BY SubmitHolds, Ends DEF RestartTypeOK
<1>2. /\ Cardinality(v \ {m}) <= b
      /\ ~IsActive(e) => Cardinality(v \cup {m}) <= b
  BY <1>1, SubmitSizes
<1>3. Early(e)' <=> ~IsActive(e)
  BY <1>1 DEF Early
<1> QED
  BY <1>1, <1>2, <1>3 DEF Paid

\* A poll that submits a packet keeps what is paid for, also when the last one was
\* not acknowledged and only reported SENT by the establishment.
LEMMA SubmitKeepsAgreed ==
  ASSUME RestartTypeOK, Handshake, StreamsInOrder,
         \A i \in End : Reliability[i] \subseteq {TRUE}, NEW e \in End,
         Submit(e), LinkStep, NEW CONSTANT b \in Nat, Agreed(b)
  PROVE  Agreed(b)'
<1> DEFINE o == Other(e)
           u == Unreached(e)
           v == Unreached(e)'
           n == packets[e]
           m == packets'[e]
           a == config[o].ack_number
           s == config[e].sequence_number
           x == config[e].sending
<1>1. /\ o \in End /\ Other(o) = e /\ \A y \in End : y = e \/ y = o
      /\ TypeOK /\ EngineType /\ line[o] \in Seq(Frame) /\ x \in Frame
  BY WindowTypes, Ends DEF RestartTypeOK
<1>2. /\ Free(e) /\ ~Free(e)'
      /\ Held(e)'
      /\ config'[e].send_packet = [id |-> n + 1, reliable |-> TRUE]
      /\ config'[e].sequence_number = s
      /\ config'[e].ack_number = config[e].ack_number
      /\ config'[o] = config[o] /\ line'[e] = line[e]
      /\ m = n + 1 /\ packets'[o] = packets[o]
      /\ IsActive(e)' <=> IsActive(e)
      /\ Held(o)' <=> Held(o)
      /\ Free(o)' <=> Free(o)
      /\ IsActive(o)' <=> IsActive(o)
      /\ outstanding'[o] = outstanding[o]
  BY <1>1, SubmitHolds
<1>3. PICK w \in Seq(Frame), c \in Config :
              /\ TransmitStep(e, c, w)
              /\ Trims(line[o], config[e].sending, w, c.sending)
              /\ c.sequence_number = config[e].sequence_number
              /\ c.ack_number = config[e].ack_number
              /\ c.link_establishment_state = config[e].link_establishment_state
              /\ c.link_establishment_packet = config[e].link_establishment_packet
              /\ c.link_establishment_resp = config[e].link_establishment_resp
              /\ c.sending = NoFrame
              /\ c.send_packet = config'[e].send_packet
              /\ ~SentUnreliable(c)
  BY <1>1, SubmitHolds, ZenonT(30)
<1>4. /\ NumbersAgree(e) /\ Paid(e, b) /\ PaidInFlight(e, b)
      /\ NumbersAgree(o) /\ Paid(o, b) /\ PaidInFlight(o, b)
  BY <1>1 DEF Agreed
<1>5. DataAgrees(w, NoFrame, a, a = s)
  <2>1. DataAgrees(line[o], x, a, Held(e) /\ a = s)
    BY <1>4 DEF NumbersAgree
  <2> HIDE DEF a, s, x
  <2>2. DataAgrees(w, NoFrame, a, Held(e) /\ a = s)
    BY <1>1, <1>3, <2>1, TrimKeepsAgreement DEF x
  <2>3. CASE Held(e)
    BY <2>2, <2>3 DEF DataAgrees
  <2>4. CASE ~Held(e)
    <3>1. Without(w, NoFrame, Fresh(a))
      BY <2>2, <2>4 DEF DataAgrees
    <3>2. ~Has(w, Fresh(a)) /\ NoFrame \notin Stale(a)
      BY <3>1, MeaningOf DEF Without
    <3>3. NeverBehind(w, NoFrame, Fresh(a), Stale(a))
      BY <3>2 DEF NeverBehind, Has
    <3> QED
      BY <3>1, <3>2, <3>3 DEF DataAgrees
  <2> QED
    BY <2>3, <2>4
<1>6. /\ NumbersAgree(e)' /\ NumbersAgree(o)'
      /\ \A f \in Fresh(a) :
           f \in Stream(line'[o], config'[e].sending)
             => \/ f \in Stream(line[o], x)
                \/ f.packet = c.send_packet /\ a = s
  <2>1. /\ c.send_packet # NoPacket
        /\ DataAgrees(w, c.sending, a, c.send_packet # NoPacket /\ a = c.sequence_number)
    BY <1>2, <1>3, <1>5 DEF DataAgrees, Held
  <2>2. TypeOK /\ Handshake /\ NumbersAgree(e) /\ NumbersAgree(o)
    BY <1>1, <1>4
  <2>3. TransmitStep(e, c, w) /\ Trims(line[o], x, w, c.sending) /\ ~SentUnreliable(c)
    BY <1>3
  <2>4. /\ c.sequence_number = s
        /\ c.ack_number = config[e].ack_number
        /\ c.link_establishment_state = config[e].link_establishment_state
        /\ c.link_establishment_packet = config[e].link_establishment_packet
        /\ c.link_establishment_resp = config[e].link_establishment_resp
    BY <1>3
  <2> QED
    BY <1>1, <2>1, <2>2, <2>3, <2>4, TransmitKeepsNumbers
<1>7. /\ v \subseteq u \cup {m}
      /\ v \ {m} \subseteq u
      /\ IsFiniteSet(v) /\ IsFiniteSet(u)
      /\ Cardinality(u) <= b
      /\ Cardinality(v \ {m}) <= b
      /\ Held(e) => Cardinality(v \ {n}) <= b
      /\ Held(e) /\ n \notin u => Cardinality(v) <= b
  BY <1>2, <1>4, SubmitSizes
<1>8. Paid(e, b)' /\ (Early(e)' <=> ~IsActive(e))
  BY <1>4, SubmitKeepsPaid
<1>9. Paid(o, b)' /\ PaidInFlight(o, b)'
  <2>1. IsFiniteSet(Unreached(o)) /\ Unreached(o)' \subseteq Unreached(o)
    BY <1>1, <1>2, UnreachedIs
  <2>2. /\ config'[e].ack_number = config[e].ack_number
        /\ Early(o)' => Early(o)
        /\ \A f \in Fresh(config[e].ack_number) :
             f \in Stream(line'[e], config'[o].sending)
               => f \in Stream(line[e], config[o].sending)
    BY <1>2 DEF Early
  <2>3. Paid(o, b)'
    BY <1>1, <1>2, <1>4, <2>1, PaidKept
  <2> QED
    BY <1>1, <1>2, <1>4, <2>1, <2>2, <2>3, PaidInFlightKept
<1>10. PaidInFlight(e, b)'
  <2>1. config'[o].ack_number = a /\ Fresh(a)' = Fresh(a)
    BY <1>2 DEF Fresh
  <2>2. ASSUME NEW f \in Fresh(a), f \in Stream(line'[o], config'[e].sending)
        PROVE  Cardinality(v \ {f.packet.id}) <= b
    <3>1. CASE f \in Stream(line[o], x)
      <4>1. Held(e)
        <5> SUFFICES ASSUME ~Held(e) PROVE FALSE
          OBVIOUS
        <5>1. Without(line[o], x, Fresh(a))
          BY <1>4 DEF NumbersAgree, DataAgrees
        <5> QED
          BY <2>2, <3>1, <5>1 DEF Without, Has, Stream, Range
      <4>2. f.packet.id = n
        BY <1>2, <1>4, <2>2, <3>1, <4>1 DEF PaidInFlight, Early
      <4> QED
        BY <1>7, <4>1, <4>2
    <3>2. CASE f.packet = c.send_packet
      <4>1. f.packet.id = m
        BY <1>2, <1>3, <3>2
      <4> QED
        BY <1>7, <4>1
    <3> QED
      BY <1>6, <2>2, <3>1, <3>2
  <2>3. ASSUME Early(e)', NEW f \in Fresh(a), f \in Stream(line'[o], config'[e].sending)
        PROVE  FALSE
    <3>1. ~IsActive(e)'
      BY <1>2, <1>8, <2>3
    <3>2. Without(line'[o], config'[e].sending, DataFrames)
      BY <1>1, <1>6, <3>1 DEF NumbersAgree
    <3>3. f \in DataFrames
      BY DEF Fresh, ReliableFrames
    <3> QED
      BY <2>3, <3>2, <3>3, WithoutStream
  <2>4. ASSUME a # s PROVE Cardinality(v) <= b /\ ~Early(e)'
    <3>1. Held(e) /\ IsActive(e)
      BY <1>4, <2>4 DEF NumbersAgree
    <3>2. n \notin u
      BY <1>2, <1>4, <2>4, <3>1 DEF PaidInFlight, Early
    <3> QED
      BY <1>7, <1>8, <3>1, <3>2
  <2> QED
    BY <1>2, <2>1, <2>2, <2>3, <2>4 DEF PaidInFlight
<1> QED
  BY <1>1, <1>6, <1>8, <1>9, <1>10 DEF Agreed

\* A frame damaged or lost keeps what the numbers tell and what is paid for.
LEMMA NoiseKeepsAgreed ==
  ASSUME RestartTypeOK, NEW y \in End, Noise(y), LinkStep, NEW CONSTANT b \in Nat, Agreed(b)
  PROVE  Agreed(b)'
<1> SUFFICES ASSUME NEW e \in End
             PROVE  NumbersAgree(e)' /\ Paid(e, b)' /\ PaidInFlight(e, b)'
  BY DEF Agreed
<1> DEFINE o == Other(e)
<1>1. /\ o \in End /\ o # e /\ TypeOK
      /\ line[e] \in Seq(Frame) /\ line[o] \in Seq(Frame)
      /\ config[e].sending \in Frame /\ config[o].sending \in Frame
      /\ NumbersAgree(e) /\ Paid(e, b) /\ PaidInFlight(e, b)
  BY WindowTypes, Ends DEF RestartTypeOK, Agreed
<1>2. /\ config' = config /\ poll' = poll /\ mayCall' = mayCall
      /\ packets' = packets /\ outstanding' = outstanding
      /\ Trims(line[e], config[o].sending, line'[e], config[o].sending)
      /\ Trims(line[o], config[e].sending, line'[o], config[e].sending)
  BY <1>1 DEF Noise, callerVars, TypeOK, Trims
<1>3. /\ Held(e)' <=> Held(e)
      /\ Free(e)' <=> Free(e)
      /\ IsActive(e)' <=> IsActive(e)
      /\ Early(e)' <=> Early(e)
  BY <1>2 DEF Held, Free, Sent, IsActive, Early
<1>4. NumbersAgree(e)'
  <2> DEFINE s == config[e].sequence_number
             a == config[o].ack_number
             x == config[e].sending
             z == config[o].sending
             q == Quiet(config[o])
             n == config[e].link_establishment_packet = "none"
  <2>1. /\ a # s => a = (s + 1) % SeqModulus /\ Held(e)
        /\ DataAgrees(line[o], x, a, Held(e) /\ a = s)
        /\ AnswersAgree(line[e], z, s, a, q)
        /\ ConfsFirst(line[o], x, n, a # 0 \/ s # 0)
        /\ ~IsActive(e) => a = 0 /\ s = 0 /\ Without(line[o], x, DataFrames)
    BY <1>1 DEF NumbersAgree
  <2> HIDE DEF s, a, x, z, q, n
  <2>2. /\ DataAgrees(line'[o], x, a, Held(e) /\ a = s)
        /\ AnswersAgree(line'[e], z, s, a, q)
        /\ ConfsFirst(line'[o], x, n, a # 0 \/ s # 0)
        /\ ~IsActive(e) => Without(line'[o], x, DataFrames)
    BY <1>1, <1>2, <2>1, MeaningOf, TrimKeepsAgreement, TrimKeepsWithout DEF x, z
  <2>3. DataAgrees(line'[o], x, a, Held(e)' /\ a = s)
    BY <1>3, <2>2 DEF DataAgrees
  <2> QED
    BY <1>2, <1>3, <2>1, <2>2, <2>3 DEF NumbersAgree, s, a, x, z, q, n
<1>5. IsFiniteSet(Unreached(e)) /\ Unreached(e)' \subseteq Unreached(e)
  BY <1>2, UnreachedIs
<1>6. Paid(e, b)'
  BY <1>1, <1>2, <1>3, <1>5, PaidKept
<1>7. \A f \in Fresh(config[o].ack_number) :
        f \in Stream(line'[o], config'[e].sending) => f \in Stream(line[o], config[e].sending)
  BY <1>1, <1>2, MeaningOf, TrimBringsNoFrame, SMTT(30)
<1>8. PaidInFlight(e, b)'
  BY <1>1, <1>2, <1>3, <1>5, <1>7, PaidInFlightKept
<1> QED
  BY <1>4, <1>6, <1>8

\* What is held stays reliable, as a reset only keeps or drops it.
LEMMA ReliableKept ==
  ASSUME TypeOK, StreamsInOrder, HoldsReliable, [RestartNext]_restartVars,
         \A i \in End : Reliability[i] \subseteq {TRUE}
  PROVE  HoldsReliable'
<1>1. ASSUME NEW e \in End,
             config'[Other(e)].send_packet = config[Other(e)].send_packet,
             \/ config'[e].send_packet \in {NoPacket, config[e].send_packet}
             \/ config'[e].send_packet.reliable
      PROVE  HoldsReliable'
  <2>1. \A y \in End : y = e \/ y = Other(e)
    BY Ends
  <2> QED
    BY <1>1, <2>1 DEF HoldsReliable, Held
<1>2. ASSUME NEW e \in End, Receive(e) PROVE HoldsReliable'
  <2>1. EngineInStep(e) /\ EngineInStep(Other(e))
    BY Ends DEF StreamsInOrder
  <2>2. CASE ReceivePeerReset(e)
    BY <1>1, <1>2, <2>1, <2>2, ResetEffect
  <2>3. CASE ~ReceivePeerReset(e)
    BY <1>1, <1>2, <2>1, <2>3, TakenIs DEF Received
  <2> QED
    BY <2>2, <2>3
<1>3. ASSUME NEW e \in End, NextPoll(e) PROVE HoldsReliable'
  BY <1>1, <1>3, NextPollHolds, Ends
<1>4. ASSUME NEW e \in End, Submit(e) PROVE HoldsReliable'
  <2>1. /\ config'[e].send_packet = [id |-> packets[e] + 1, reliable |-> TRUE]
        /\ config'[Other(e)] = config[Other(e)]
    BY <1>4, SubmitHolds, Ends
  <2>2. config'[e].send_packet.reliable
    BY <2>1
  <2> QED
    BY <1>1, <2>1, <2>2
<1>5. ASSUME NEW e \in End, Restart(e) PROVE HoldsReliable'
  BY <1>1, <1>5, RestartEffect, FirstIs
<1>6. CASE config' = config
  BY <1>6 DEF HoldsReliable, Held
<1> QED
  BY <1>2, <1>3, <1>4, <1>5, <1>6 DEF RestartNext, Next, Step, Noise, restartVars, vars

\* While the numbers agree, no step of the link loses a packet.
LEMMA AgreedStep ==
  ASSUME RestartTypeOK, Handshake, StreamsInOrder, HoldsReliable,
         \A i \in End : Reliability[i] \subseteq {TRUE},
         Next, LinkStep, NEW CONSTANT b \in Nat, Agreed(b)
  PROVE  Agreed(b)'
<1>1. TypeOK /\ EngineType
  BY WindowTypes, Ends DEF RestartTypeOK, TypeOK, EngineType
<1>2. ASSUME NEW e \in End, Receive(e) PROVE Agreed(b)'
  <2> DEFINE o == Other(e)
  <2>1. o \in End /\ Other(o) = e /\ \A y \in End : y = e \/ y = o
    BY Ends
  <2>2. ~ReceivePeerReset(e)
    BY <1>1, NoResetAtActive DEF Handshake
  <2>3. /\ NumbersAgree(e) /\ Paid(e, b) /\ PaidInFlight(e, b)
        /\ NumbersAgree(o) /\ Paid(o, b) /\ PaidInFlight(o, b)
    BY <2>1 DEF Agreed
  <2>4. NumbersAgree(e)' /\ Paid(e, b)' /\ PaidInFlight(e, b)'
    BY <1>1, <1>2, <2>1, <2>2, <2>3, ReceiveKeepsNumbersOwn, ReceiveKeepsPaidOwn
  <2>5. NumbersAgree(o)' /\ Paid(o, b)' /\ PaidInFlight(o, b)'
    BY <1>1, <1>2, <2>1, <2>2, <2>3, ReceiveKeepsNumbersOther, ReceiveKeepsPaidOther
  <2> QED
    BY <2>1, <2>4, <2>5 DEF Agreed
<1>3. ASSUME NEW e \in End, NextPoll(e) PROVE Agreed(b)'
  BY <1>3, NextPollKeepsAgreed
<1>4. ASSUME NEW e \in End, Submit(e) PROVE Agreed(b)'
  BY <1>4, SubmitKeepsAgreed
<1>5. ASSUME NEW e \in End, Noise(e) PROVE Agreed(b)'
  BY <1>5, NoiseKeepsAgreed
<1> QED
  BY <1>2, <1>3, <1>4, <1>5 DEF Next, Step

-----------------------------------------------------------------------------
(* A restart, and what comes before it is noticed.                         *)

\* An order of sets of frames is one of smaller sets.
LEMMA BehindSubset ==
  ASSUME NEW l, NEW x, NEW S, NEW T, NeverBehind(l, x, S, T),
         NEW S2, S2 \subseteq S, NEW T2, T2 \subseteq T
  PROVE  NeverBehind(l, x, S2, T2)
BY DEF NeverBehind, Has

\* A SYNC is none of the frames that an acknowledgement counts in, nor data, nor a header
\* of any later message.
LEMMA SyncIs ==
  /\ LeFrame("sync") \in SyncFrames
  /\ LeFrame("sync") \in LeFrames
  /\ LeFrame("sync") \notin Former
  /\ LeFrame("sync") \notin Headers \ LeFrames
  /\ SyncFrames \subseteq LeFrames
BY FrameTypes DEF LeFrame, LeMessage, SyncFrames, Former, LeFrames

\* What counts as an acknowledgement, when the numbers agree, counts no other way.
LEMMA FormerAnswers ==
  ASSUME NEW l, NEW x, NEW s \in 0 .. SeqModulus - 1, NEW a, NEW q,
         a # s => a = (s + 1) % SeqModulus, AnswersAgree(l, x, s, a, q)
  PROVE  LET t == (s + 1) % SeqModulus
         IN  /\ Without(l, x, NotAcking(s) \cap NotAcking(t))
             /\ NeverBehind(l, x, Acking(t), Acking(s))
             /\ a = s => Without(l, x, NotAcking(s))
<1> DEFINE t == (s + 1) % SeqModulus
<1>1. t # s
  BY NextNumber
<1> HIDE DEF t
<1>2. Acking(t) \subseteq NotAcking(s) /\ Acking(s) \subseteq NotAcking(t)
  BY <1>1 DEF Acking, NotAcking
<1>3. CASE a = s
  <2>1. NotAcking(s) \cap NotAcking(s) = NotAcking(s)
    OBVIOUS
  <2>2. Without(l, x, NotAcking(s))
    BY <1>3, <2>1 DEF AnswersAgree
  <2>3. Without(l, x, NotAcking(s) \cap NotAcking(t)) /\ ~Has(l, Acking(t))
    BY <1>2, <2>2, WithoutSubset, ZenonT(30)
  <2>4. NeverBehind(l, x, Acking(t), Acking(s))
    BY <2>3 DEF NeverBehind, Has
  <2> QED
    BY <2>2, <2>3, <2>4 DEF t
<1>4. CASE a = t
  <2>1. /\ Without(l, x, NotAcking(s) \cap NotAcking(t))
        /\ NeverBehind(l, x, Acking(t), NotAcking(t))
    BY <1>1, <1>4 DEF AnswersAgree
  <2>2. NeverBehind(l, x, Acking(t), Acking(s))
    BY <1>2, <2>1, BehindSubset
  <2> QED
    BY <1>1, <1>4, <2>1, <2>2 DEF t
<1> QED
  BY <1>3, <1>4 DEF t

\* An end that restarts on a settled link may lose the packet outstanding there; that to
\* it is acknowledged only if it arrived.
LEMMA RestartPays ==
  ASSUME RestartTypeOK, Settled, NEW e \in End, Restart(e), NEW CONSTANT b \in Nat, Agreed(b)
  PROVE  UnheardPays(e, b)'
<1> DEFINE o == Other(e)
           s == config[o].sequence_number
           t == (s + 1) % SeqModulus
           a == config[e].ack_number
           x == LeFrame("sync")
           u == Unreached(e)
           n == packets[e]
<1>1. /\ o \in End /\ o # e /\ Other(o) = e /\ TypeOK
      /\ line[o] \in Seq(Frame) /\ config[e].sending \in Frame
      /\ s \in 0 .. SeqModulus - 1
  BY WindowTypes, Ends DEF RestartTypeOK
<1>2. /\ NumbersAgree(o) /\ Paid(e, b) /\ Paid(o, b) /\ PaidInFlight(o, b)
  BY <1>1 DEF Agreed
<1>3. /\ config'[e] = FirstConfig /\ poll'[e] = FirstPoll /\ ~mayCall'[e]
      /\ config'[o] = config[o] /\ poll'[o] = poll[o] /\ packets' = packets
      /\ Trims(line[o], config[e].sending, line'[o], NoFrame)
      /\ line'[o] \in Seq(Frame)
  BY <1>1, RestartEffect
<1>4. mayCall'[o] = mayCall[o] /\ outstanding'[o] = outstanding[o] /\ reached' = reached
  BY <1>1 DEF Restart, TypeOK
<1>5. \A y \in End : Unreached(y)' = Unreached(y)
  BY <1>3, <1>4 DEF Unreached
<1>6. /\ (Held(o)' <=> Held(o)) /\ (Free(o)' <=> Free(o))
      /\ (IsActive(o)' <=> IsActive(o)) /\ (Early(o)' <=> Early(o))
  BY <1>3, <1>4 DEF Held, Free, Sent, IsActive, Early
<1>7. Paid(o, b)'
  BY <1>1, <1>2, <1>3, <1>4, <1>5, <1>6, UnreachedIs, PaidKept
<1>8. Paid(e, b + 1)'
  <2>1. ~Held(e)' /\ ~Free(e)' /\ IsActive(e)
    BY <1>3, FirstIs DEF Held, Free, Sent, IsActive, Settled
  <2>2. ~Early(e)'
    BY <2>1 DEF Early
  <2>3. /\ Cardinality(u) \in Nat /\ Cardinality(u \ {n}) \in Nat
        /\ Cardinality(u \cup {n}) = Cardinality(u \ {n}) + 1
        /\ Cardinality(u) <= Cardinality(u \cup {n})
    BY UnreachedIs, SizesOf
  <2>4. \/ Cardinality(u) <= b
        \/ Cardinality(u \ {n}) <= b
        \/ Cardinality(u \cup {n}) <= b
    BY <1>2 DEF Paid
  <2> HIDE DEF u, n
  <2>5. Cardinality(u) <= b + 1
    BY <2>3, <2>4
  <2> QED
    BY <1>5, <2>1, <2>2, <2>5 DEF Paid, u
<1>9. /\ a # s => a = t /\ Held(o)
      /\ Without(line[o], config[e].sending, NotAcking(s) \cap NotAcking(t))
      /\ NeverBehind(line[o], config[e].sending, Acking(t), Acking(s))
      /\ a = s => Without(line[o], config[e].sending, NotAcking(s))
  <2>1. /\ a # s => a = t /\ Held(o)
        /\ AnswersAgree(line[o], config[e].sending, s, a, Quiet(config[e]))
    BY <1>1, <1>2 DEF NumbersAgree
  <2> HIDE DEF a, s
  <2> QED
    BY <1>1, <2>1, FormerAnswers
<1>10. Without(line[o], config[e].sending, LeFrames)
  <2>1. config[e].sending \notin LeFrames /\ ~Has(line[o], LeFrames)
    BY <1>1 DEF Settled, Carries, Has, LeFrames
  <2> QED
    BY <2>1 DEF Without
<1> HIDE DEF s, t, a, x
<1>11. /\ Without(line'[o], NoFrame, NotAcking(s) \cap NotAcking(t))
       /\ NeverBehind(line'[o], NoFrame, Acking(t), Acking(s))
       /\ a = s => Without(line'[o], NoFrame, NotAcking(s))
       /\ Without(line'[o], NoFrame, LeFrames)
  BY <1>1, <1>3, <1>9, <1>10, MeaningOf, TrimKeepsWithout, TrimKeepsBehind
<1>12. x \notin Former /\ x \in SyncFrames /\ SyncFrames \subseteq LeFrames
  BY SyncIs DEF x
<1>13. Without(line'[o], x, Former \cap NotAcking(s) \cap NotAcking(t))
  <2>1. Without(line'[o], NoFrame, Former \cap NotAcking(s) \cap NotAcking(t))
    BY <1>11, WithoutSubset
  <2> QED
    BY <1>12, <2>1, StartKeeps
<1>14. NeverBehind(line'[o], x, Former \cap Acking(t), Former \cap Acking(s))
  <2>1. NeverBehind(line'[o], NoFrame, Former \cap Acking(t), Former \cap Acking(s))
    BY <1>11, BehindSubset
  <2> QED
    BY <1>12, <2>1, StartKeeps
<1>15. a = s => Without(line'[o], x, Former \cap NotAcking(s))
  <2>1. a = s => Without(line'[o], NoFrame, Former \cap NotAcking(s))
    BY <1>11, WithoutSubset
  <2> QED
    BY <1>12, <2>1, StartKeeps
<1>16. NeverBehind(line'[o], x, SyncFrames, Former)
  <2>1. ~Has(line'[o], SyncFrames)
    BY <1>11, <1>12, WithoutSubset
  <2> QED
    BY <2>1 DEF NeverBehind, Has
<1>17. Unheard(e)'
  <2>1. Unnoticed(e)'
    BY <1>1, RestartUnnoticed
  <2>2. /\ config'[e].sending = x
        /\ config'[e].sequence_number = 0 /\ config'[e].ack_number = 0
        /\ config'[o].sequence_number = s
    BY <1>3, FirstIs DEF x, s
  <2>3. Held(o)' \/ Without(line'[o], x, Former \cap NotAcking(s))
    BY <1>6, <1>9, <1>15
  <2> QED
    BY <1>13, <1>14, <1>16, <2>1, <2>2, <2>3 DEF Unheard, FormerAgrees, t
<1>18. PaidWhenCleared(o, b)'
  <2>1. CASE a = s
    <3>1. Without(line'[o], config'[e].sending, Former \cap NotAcking(config'[o].sequence_number))
      BY <1>3, <1>15, <2>1, FirstIs DEF x, s
    <3> QED
      BY <1>1, <3>1 DEF PaidWhenCleared
  <2>2. CASE a # s
    <3>1. Cardinality(Unreached(o)) <= b /\ (Early(o) => packets[o] \notin Unreached(o))
      BY <1>1, <1>2, <1>9, <2>2 DEF PaidInFlight, a, s
    <3> QED
      BY <1>1, <1>3, <1>5, <1>6, <3>1 DEF PaidWhenCleared
  <2> QED
    BY <2>1, <2>2
<1> QED
  BY <1>7, <1>8, <1>17, <1>18 DEF UnheardPays

\* Finishing, dropping, losing and damaging frames, and a SYNC that starts, keep what the
\* former frames tell.
LEMMA FormerKept ==
  ASSUME NEW l \in Seq(Frame), NEW x \in Frame, NEW l2, NEW x2,
         Trims(l, x, l2, x2) \/ (x = NoFrame /\ l2 = l /\ x2 = LeFrame("sync")),
         NEW s, NEW p \in BOOLEAN, FormerAgrees(l, x, s, p)
  PROVE  /\ FormerAgrees(l2, x2, s, p)
         /\ Without(l, x, Former \cap NotAcking(s)) => Without(l2, x2, Former \cap NotAcking(s))
<1> DEFINE t == (s + 1) % SeqModulus
           A == Former \cap NotAcking(s) \cap NotAcking(t)
           B == Former \cap Acking(t)
           C == Former \cap Acking(s)
           D == Former \cap NotAcking(s)
<1>1. /\ NoFrame \notin Former /\ BadFrame \notin Former
      /\ NoFrame \notin SyncFrames /\ BadFrame \notin SyncFrames
  BY MeaningOfLoss
<1>2. /\ NoFrame \notin A /\ BadFrame \notin A
      /\ NoFrame \notin B /\ BadFrame \notin B
      /\ NoFrame \notin C /\ BadFrame \notin C
      /\ NoFrame \notin D /\ BadFrame \notin D
  BY <1>1
<1>3. /\ NeverBehind(l, x, SyncFrames, Former)
      /\ Without(l, x, A)
      /\ NeverBehind(l, x, B, C)
      /\ p \/ Without(l, x, D)
  BY DEF FormerAgrees
<1>4. LeFrame("sync") \notin Former
  BY SyncIs
<1>5. LeFrame("sync") \notin A /\ LeFrame("sync") \notin C /\ LeFrame("sync") \notin D
  BY <1>4
<1> HIDE DEF A, B, C, D
<1>6. /\ NeverBehind(l2, x2, SyncFrames, Former)
      /\ Without(l2, x2, A)
      /\ NeverBehind(l2, x2, B, C)
      /\ Without(l, x, D) => Without(l2, x2, D)
  <2>1. CASE Trims(l, x, l2, x2)
    BY <1>1, <1>2, <1>3, <2>1, TrimKeepsWithout, TrimKeepsBehind
  <2>2. CASE x = NoFrame /\ l2 = l /\ x2 = LeFrame("sync")
    BY <1>3, <1>4, <1>5, <2>2, StartKeeps
  <2> QED
    BY <2>1, <2>2
<1> QED
  BY <1>3, <1>6 DEF FormerAgrees, A, B, C, D

\* A former frame that acknowledges the packet held: those behind it do not count.
LEMMA FormerTaken ==
  ASSUME NEW l \in Seq(Frame), l # <<>>, NEW x \in Frame, NEW s \in 0 .. SeqModulus - 1,
         NEW p, FormerAgrees(l, x, s, p), Head(l) \in Former \cap NotAcking(s)
  PROVE  LET t == (s + 1) % SeqModulus
         IN  /\ ~Without(l, x, Former \cap NotAcking(s))
             /\ Without(Tail(l), x, Former \cap NotAcking(t))
             /\ FormerAgrees(Tail(l), x, t, FALSE)
<1> DEFINE t == (s + 1) % SeqModulus
           r == (t + 1) % SeqModulus
           A == Former \cap NotAcking(s) \cap NotAcking(t)
           B == Former \cap Acking(t)
           C == Former \cap Acking(s)
           D == Former \cap NotAcking(s)
           E == Former \cap NotAcking(t)
<1>1. t \in 0 .. SeqModulus - 1 /\ r # t /\ Trims(l, x, Tail(l), x)
  BY NextNumber DEF Trims
<1>2. /\ NeverBehind(l, x, SyncFrames, Former)
      /\ Without(l, x, A)
      /\ NeverBehind(l, x, B, C)
  BY DEF FormerAgrees
<1> HIDE DEF t, r
<1>3. Head(l) \notin A
  <2> HIDE DEF A
  <2> QED
    BY <1>2, HeadOf
<1>4. Head(l) \in B
  BY <1>3 DEF Acking, NotAcking, Former
<1>5. E \subseteq A \cup C
  BY DEF Acking, NotAcking, Former
<1>6. ~Without(l, x, D)
  <2> HIDE DEF D
  <2> QED
    BY HeadOf DEF D
<1>7. NoFrame \notin A /\ BadFrame \notin A
  BY MeaningOfLoss
<1> HIDE DEF A, B, C
<1>8. Without(Tail(l), x, A) /\ Without(Tail(l), x, C)
  BY <1>1, <1>2, <1>4, <1>7, HeadOf, TrimKeepsWithout
<1>9. Without(Tail(l), x, E)
  BY <1>5, <1>8 DEF Without, Has
<1>10. NeverBehind(Tail(l), x, SyncFrames, Former)
  BY <1>1, <1>2, MeaningOfLoss, TrimKeepsBehind
<1>11. Without(Tail(l), x, Former \cap NotAcking(t) \cap NotAcking(r))
  BY <1>9, WithoutSubset
<1>12. NeverBehind(Tail(l), x, Former \cap Acking(r), Former \cap Acking(t))
  <2>1. Former \cap Acking(r) \subseteq E
    BY <1>1 DEF Acking, NotAcking
  <2> DEFINE F == Former \cap Acking(r)
  <2> HIDE DEF E, F
  <2>2. ~Has(Tail(l), F)
    BY <1>9, <2>1, WithoutSubset DEF F
  <2> QED
    BY <2>2 DEF NeverBehind, Has, F
<1> QED
  BY <1>6, <1>9, <1>10, <1>11, <1>12 DEF FormerAgrees, t, r

\* Nothing of what PaidWhenCleared is about changes, or a packet arrives.
LEMMA PaidWhenClearedKept ==
  ASSUME NEW e \in End, NEW CONSTANT b \in Nat, IsFiniteSet(Unreached(e)),
         PaidWhenCleared(e, b),
         Unreached(e)' \subseteq Unreached(e), packets'[e] = packets[e],
         Early(e)' => Early(e),
         config'[e].sequence_number = config[e].sequence_number,
         LET S == Former \cap NotAcking(config[e].sequence_number)
         IN  Without(line[e], config[Other(e)].sending, S)
               => Without(line'[e], config'[Other(e)].sending, S)
  PROVE  PaidWhenCleared(e, b)'
<1> DEFINE S == Former \cap NotAcking(config[e].sequence_number)
           u == Unreached(e)
           v == Unreached(e)'
<1>1. /\ Cardinality(u) \in Nat /\ Cardinality(v) \in Nat
      /\ Cardinality(v) <= Cardinality(u)
  BY SizesOf
<1>2. S' = S
  BY DEF NotAcking
<1>3. CASE Without(line[e], config[Other(e)].sending, S)
  <2>1. Without(line'[e], config'[Other(e)].sending, S')
    BY <1>2, <1>3
  <2> QED
    BY <2>1 DEF PaidWhenCleared
<1>4. CASE Cardinality(u) <= b /\ (Early(e) => packets[e] \notin u)
  <2>1. Early(e)' => packets'[e] \notin v
    BY <1>4
  <2> HIDE DEF u, v
  <2>2. Cardinality(v) <= b
    BY <1>1, <1>4
  <2> QED
    BY <2>1, <2>2 DEF PaidWhenCleared, v
<1> QED
  BY <1>3, <1>4 DEF PaidWhenCleared

\* The frame that tells: the other end begins again, and may lose the packet it holds.
LEMMA UnheardNoticed ==
  ASSUME RestartTypeOK, StreamsInOrder, NEW e \in End, NEW o \in End, o = Other(e),
         Receive(o), Head(line[o]) \in SyncFrames, LinkStep,
         NEW CONSTANT b \in Nat, UnheardPays(e, b)
  PROVE  Handshake' /\ UnansweredPays(e, b + 1)'
<1> DEFINE u == Unreached(o)
           v == Unreached(o)'
           n == packets[o]
           l == line[o]
           x == config[e].sending
<1>1. /\ Other(e) = o /\ Other(o) = e /\ TypeOK /\ EngineInStep(e) /\ EngineInStep(o)
      /\ l \in Seq(Frame) /\ line[e] \in Seq(Frame) /\ config[o].sending \in Frame
      /\ \A y \in End : y = e \/ y = o
  BY WindowTypes, Ends DEF RestartTypeOK, StreamsInOrder
<1>2. /\ Unheard(e) /\ Unnoticed(e) /\ BeginsAgain(e) /\ IsActive(o)
      /\ Paid(e, b + 1) /\ Paid(o, b)
      /\ config[e].sequence_number = 0 /\ config[e].ack_number = 0
      /\ NeverBehind(l, x, SyncFrames, Former)
      /\ Without(line[e], config[o].sending, LeFrames)
  BY <1>1 DEF UnheardPays, Unheard, FormerAgrees, Unnoticed, IsActive
<1>3. Handshake'
  BY <1>1, <1>2, ReceiveNotices
<1>4. ReceivePeerReset(o)
  <2>1. Head(l).kind = "sync" /\ ~(config[o].link_establishment_state < active)
    BY <1>2 DEF SyncFrames, IsActive, active
  <2> QED
    BY <1>2, <2>1
    DEF Receive, ReceiveStep, ReceiveBad, ReceiveSync, ReceiveSyncResp, ReceiveConf,
        ReceiveConfResp, ReceiveAck, ReceiveDuplicate, ReceivePacket, Receiving, IsActive
<1>5. /\ l # <<>>
      /\ config'[o].link_establishment_state = uninitialized
      /\ config'[o].sending = NoFrame
      /\ config'[o].sequence_number = 0 /\ config'[o].ack_number = 0
      /\ config'[o].send_packet \in {NoPacket, config[o].send_packet}
      /\ config'[e] = config[e] /\ poll'[e] = poll[e]
      /\ line'[o] = Tail(l)
      /\ Trims(line[e], config[o].sending, line'[e], NoFrame)
      /\ packets' = packets /\ mayCall' = mayCall
  BY <1>1, <1>4, ResetEffect, ZenonT(30)
<1>6. outstanding' = outstanding
  BY DEF Receive, callerVars
<1>7. Sent(o)' <=> Sent(o)
  <2>1. poll' = [poll EXCEPT ![o].activity = @ \cup {"PEER_RESET"}]
    BY <1>4 DEF ReceivePeerReset, Take
  <2>2. poll'[o].activity = poll[o].activity \cup {"PEER_RESET"}
    BY <1>1, <2>1, WindowTypes DEF TypeOK, Poll
  <2> QED
    BY <2>2 DEF Sent
<1>8. Unanswered(e)'
  <2>1. BeginsAgain(e)'
    BY <1>2, <1>5 DEF BeginsAgain, Sent
  <2>2. ~IsActive(o)'
    BY <1>5 DEF IsActive, uninitialized, active
  <2>3. Without(line'[o], config'[e].sending, Former)
    BY <1>1, <1>2, <1>5, HeadOf
  <2>4. NeverBehind(line'[e], config'[o].sending, LeFrames, Headers \ LeFrames)
    <3>1. Without(line'[e], NoFrame, LeFrames)
      BY <1>1, <1>2, <1>5, MeaningOf, TrimKeepsWithout
    <3> QED
      BY <3>1 DEF NeverBehind, Without, Has
  <2>5. \A i \in End : config'[i].sequence_number = 0 /\ config'[i].ack_number = 0
    BY <1>1, <1>2, <1>5
  <2> QED
    BY <1>1, <2>1, <2>2, <2>3, <2>4, <2>5 DEF Unanswered
<1>9. Paid(e, b + 1)'
  <2>1. /\ (Held(e)' <=> Held(e)) /\ (Free(e)' <=> Free(e)) /\ (IsActive(e)' <=> IsActive(e))
    BY <1>5 DEF Held, Free, Sent, IsActive
  <2>2. b + 1 \in Nat /\ packets'[e] = packets[e]
    BY <1>5
  <2>3. IsFiniteSet(Unreached(e)) /\ Unreached(e)' \subseteq Unreached(e)
    BY <2>2, UnreachedIs
  <2> QED
    BY <1>2, <1>5, <1>6, <2>1, <2>2, <2>3, PaidKept
<1>10. Paid(o, b + 1)'
  <2>1. /\ Free(o)' <=> Free(o)
        /\ IsActive(o) /\ ~IsActive(o)'
        /\ Held(o)' => Held(o) /\ config'[o].send_packet = config[o].send_packet
        /\ Early(o) <=> Held(o) /\ Free(o)
        /\ Early(o)' <=> Held(o)'
    BY <1>2, <1>5, <1>7 DEF Held, Free, IsActive, Early, uninitialized, active
  <2>2. v \subseteq u /\ IsFiniteSet(u) /\ packets'[o] = n
    BY <1>5, UnreachedIs
  <2>3. /\ Cardinality(u) \in Nat /\ Cardinality(u \ {n}) \in Nat
        /\ Cardinality(u \cup {n}) = Cardinality(u \ {n}) + 1
        /\ Cardinality(u) <= Cardinality(u \cup {n})
        /\ Cardinality(v) \in Nat /\ Cardinality(v \cup {n}) \in Nat
        /\ Cardinality(v) <= Cardinality(u)
        /\ Cardinality(v \cup {n}) <= Cardinality(u \cup {n})
    BY <2>2, SizesOf, ZenonT(30)
  <2>4. /\ ~Held(o) => Cardinality(u) <= b
        /\ Held(o) /\ ~Free(o) => Cardinality(u \ {n}) <= b
        /\ Held(o) /\ Free(o) => Cardinality(u \cup {n}) <= b
        /\ Held(o) /\ ~Free(o) => outstanding[o] = config[o].send_packet
    BY <1>2, <2>1 DEF Paid
  <2>5. v \cup {} = v
    OBVIOUS
  <2> HIDE DEF u, v, n
  <2>6. /\ Cardinality(v) <= b + 1
        /\ Held(o) => Cardinality(v \cup {n}) <= b + 1
        /\ Free(o) => Cardinality(v) <= b
        /\ Free(o) /\ Held(o) => Cardinality(v \cup {n}) <= b
    BY <2>3, <2>4
  <2>7. Free(o)' /\ ~IsActive(o)'
          => Cardinality(v \cup IF Held(o)' THEN {n} ELSE {}) < b + 1
    <3>1. CASE Held(o)'
      BY <2>1, <2>3, <2>6, <3>1
    <3>2. CASE ~Held(o)'
      BY <2>1, <2>3, <2>5, <2>6, <3>2
    <3> QED
      BY <3>1, <3>2
  <2>8. Held(o)' /\ ~Free(o)' => outstanding'[o] = config'[o].send_packet
    BY <1>6, <2>1, <2>4
  <2> QED
    BY <2>1, <2>2, <2>6, <2>7, <2>8 DEF Paid, v, n
<1> QED
  BY <1>1, <1>3, <1>8, <1>9, <1>10 DEF UnansweredPays

\* What a step leaves that concerns the packets from y only by what arrives.
LEMMA SamePays ==
  ASSUME RestartTypeOK, LinkStep, NEW y \in End, NEW CONSTANT b \in Nat, Paid(y, b),
         packets'[y] = packets[y],
         config'[y].send_packet = config[y].send_packet,
         IsActive(y)' <=> IsActive(y), Free(y)' <=> Free(y),
         ~Sent(y) => outstanding'[y] = outstanding[y]
  PROVE  /\ Paid(y, b)'
         /\ IsFiniteSet(Unreached(y)) /\ Unreached(y)' \subseteq Unreached(y)
         /\ Early(y)' <=> Early(y)
         /\ Held(y)' <=> Held(y)
<1>1. IsFiniteSet(Unreached(y)) /\ Unreached(y)' \subseteq Unreached(y)
  BY UnreachedIs
<1>2. (Held(y)' <=> Held(y)) /\ (Early(y)' <=> Early(y))
  BY DEF Held, Early
<1> QED
  BY <1>1, <1>2, PaidKept

\* The end that restarted takes frames that it does not answer.
LEMMA UnheardReceives ==
  ASSUME RestartTypeOK, StreamsInOrder, NEW e \in End, Receive(e), LinkStep, Unnoticed(e)',
         NEW CONSTANT b \in Nat, UnheardPays(e, b)
  PROVE  UnheardPays(e, b)'
<1> DEFINE o == Other(e)
           f == Head(line[e])
<1>1. /\ o \in End /\ Other(o) = e /\ TypeOK /\ EngineInStep(e) /\ b + 1 \in Nat
      /\ line[e] \in Seq(Frame)
  BY WindowTypes, Ends DEF RestartTypeOK, StreamsInOrder
<1>2. /\ Unheard(e) /\ Paid(e, b + 1) /\ Paid(o, b) /\ PaidWhenCleared(o, b)
      /\ Without(line[e], config[o].sending, LeFrames)
      /\ config[e].send_packet = NoPacket /\ ~IsActive(e)
  BY DEF UnheardPays, Unheard, Unnoticed, BeginsAgain, IsActive, uninitialized, active
<1>3. f.kind \notin LeMessage
  <2>1. line[e] # <<>>
    BY DEF Receive, ReceiveStep, ReceiveBad, ReceiveSync, ReceivePeerReset, ReceiveSyncResp,
           ReceiveConf, ReceiveConfResp, ReceiveAck, ReceiveDuplicate, ReceivePacket, Receiving
  <2>2. f \notin LeFrames
    BY <1>1, <1>2, <2>1, HeadOf
  <2>3. f \in Frame
    BY <1>1, <2>1
  <2> QED
    BY <2>2, <2>3 DEF LeFrames
<1>4. /\ ~ReceivePeerReset(e)
      /\ config'[e].link_establishment_state = config[e].link_establishment_state
      /\ config'[e].sending = config[e].sending
      /\ config'[e].send_packet = NoPacket
      /\ Sent(e)' <=> Sent(e)
      /\ config'[o] = config[o] /\ poll'[o] = poll[o]
      /\ line'[o] = line[o] /\ mayCall' = mayCall
  BY <1>1, <1>2, <1>3, OtherFrames
<1>5. Received(e) /\ ~Acks(e) /\ packets' = packets /\ outstanding' = outstanding
  BY <1>1, <1>2, <1>4, TakenIs DEF Held
<1>6. ~Delivers(e)
  BY <1>2 DEF Delivers, IsActive
<1>7. /\ config'[e].sequence_number = config[e].sequence_number
      /\ config'[e].ack_number = config[e].ack_number
  BY <1>5, <1>6 DEF Received
<1>8. /\ (Free(e)' <=> Free(e)) /\ (IsActive(e)' <=> IsActive(e))
      /\ (Free(o)' <=> Free(o)) /\ (IsActive(o)' <=> IsActive(o))
      /\ (Held(o)' <=> Held(o))
  BY <1>4 DEF Free, Sent, IsActive, Held
<1>9. Unheard(e)'
  BY <1>2, <1>4, <1>7, <1>8 DEF Unheard, FormerAgrees
<1>10. Paid(e, b + 1)'
  BY <1>1, <1>2, <1>4, <1>5, <1>8, SamePays
<1>11. /\ Paid(o, b)' /\ (Early(o)' <=> Early(o))
       /\ IsFiniteSet(Unreached(o)) /\ Unreached(o)' \subseteq Unreached(o)
  BY <1>1, <1>2, <1>4, <1>5, <1>8, SamePays
<1>12. PaidWhenCleared(o, b)'
  BY <1>1, <1>2, <1>4, <1>5, <1>11, PaidWhenClearedKept
<1> QED
  BY <1>9, <1>10, <1>11, <1>12 DEF UnheardPays

\* The other end takes a frame of before: an acknowledgement that counts is of a
\* packet that arrived, or was paid for.
LEMMA UnheardTakes ==
  ASSUME RestartTypeOK, StreamsInOrder, NEW e \in End, NEW o \in End, o = Other(e),
         Receive(o), Head(line[o]) \notin SyncFrames, LinkStep, Unnoticed(e)',
         NEW CONSTANT b \in Nat, UnheardPays(e, b)
  PROVE  UnheardPays(e, b)'
<1> DEFINE l == line[o]
           x == config[e].sending
           s == config[o].sequence_number
           t == (s + 1) % SeqModulus
           u == Unreached(o)
           v == Unreached(o)'
<1>1. /\ Other(o) = e /\ Other(e) = o /\ TypeOK /\ EngineInStep(o) /\ b + 1 \in Nat
      /\ l \in Seq(Frame) /\ x \in Frame /\ s \in 0 .. SeqModulus - 1
  BY WindowTypes, Ends DEF RestartTypeOK, StreamsInOrder
<1>2. /\ Unheard(e) /\ Paid(e, b + 1) /\ Paid(o, b) /\ PaidWhenCleared(o, b)
      /\ Without(l, x, LeFrames \ SyncFrames)
      /\ config[e].sequence_number = 0 /\ config[e].ack_number = 0
      /\ FormerAgrees(l, x, s, Held(o))
      /\ IsActive(o)
  BY <1>1 DEF UnheardPays, Unheard, Unnoticed, IsActive
<1>3. l # <<>> /\ Head(l) \in Frame /\ Head(l).kind \notin LeMessage
  <2>1. l # <<>>
    BY DEF Receive, ReceiveStep, ReceiveBad, ReceiveSync, ReceivePeerReset, ReceiveSyncResp,
           ReceiveConf, ReceiveConfResp, ReceiveAck, ReceiveDuplicate, ReceivePacket, Receiving
  <2>2. Head(l) \notin LeFrames \ SyncFrames
    <3> DEFINE S == LeFrames \ SyncFrames
    <3> HIDE DEF S, l, x
    <3>1. Head(l) \notin S
      BY <1>1, <1>2, <2>1, HeadOf DEF S
    <3> QED
      BY <3>1 DEF S
  <2>3. Head(l) \in Frame
    BY <1>1, <2>1
  <2> QED
    BY <2>1, <2>2, <2>3 DEF LeFrames
<1>4. /\ ~ReceivePeerReset(o)
      /\ config'[o].link_establishment_state = config[o].link_establishment_state
      /\ config'[e] = config[e] /\ poll'[e] = poll[e]
      /\ line'[o] = Tail(l) /\ line'[e] = line[e] /\ mayCall' = mayCall
  BY <1>1, <1>3, OtherFrames
<1>5. /\ Received(o) /\ packets' = packets /\ outstanding' = outstanding
      /\ Acks(o) => Head(l) \in NotAcking(s) /\ Held(o)
  BY <1>1, <1>4, TakenIs
<1>6. ~Activates(o) /\ IsActive(o)'
  BY <1>2, <1>4 DEF Activates, IsActive
<1>7. /\ (Free(e)' <=> Free(e)) /\ (IsActive(e)' <=> IsActive(e))
  BY <1>4 DEF Free, Sent, IsActive
<1>8. Paid(e, b + 1)'
  BY <1>1, <1>2, <1>4, <1>5, <1>7, SamePays
<1>9. v \subseteq u /\ IsFiniteSet(u) /\ packets'[o] = packets[o]
  BY <1>5, UnreachedIs
<1>10. CASE Acks(o)
  <2>1. Head(l) \in Former \cap NotAcking(s)
    BY <1>5, <1>10 DEF Former, NotAcking
  <2>2. /\ ~Without(l, x, Former \cap NotAcking(s))
        /\ Without(Tail(l), x, Former \cap NotAcking(t))
        /\ FormerAgrees(Tail(l), x, t, FALSE)
    <3> HIDE DEF l, x, s
    <3> QED
      BY <1>1, <1>2, <1>3, <2>1, FormerTaken
  <2>3. config'[o].sequence_number = t /\ ~Held(o)' /\ ~Early(o)'
    BY <1>5, <1>10 DEF Received, Held, Early
  <2>4. Cardinality(u) <= b
    BY <1>1, <1>2, <2>2 DEF PaidWhenCleared
  <2>5. Cardinality(v) <= b
    <3>1. Cardinality(v) <= Cardinality(u) /\ Cardinality(v) \in Nat /\ Cardinality(u) \in Nat
      BY <1>9, SizesOf
    <3> HIDE DEF u, v
    <3> QED
      BY <2>4, <3>1
  <2>6. Paid(o, b)'
    BY <1>6, <2>3, <2>5 DEF Paid
  <2>7. Unheard(e)'
    BY <1>1, <1>2, <1>4, <2>2, <2>3 DEF Unheard, FormerAgrees
  <2>8. PaidWhenCleared(o, b)'
    BY <1>1, <1>4, <2>2, <2>3 DEF PaidWhenCleared, NotAcking
  <2> QED
    BY <1>1, <1>8, <2>6, <2>7, <2>8 DEF UnheardPays
<1>11. CASE ~Acks(o)
  <2>1. /\ config'[o].send_packet = config[o].send_packet
        /\ config'[o].sequence_number = s
        /\ Sent(o)' <=> Sent(o)
    BY <1>5, <1>6, <1>11 DEF Received
  <2>2. /\ (Free(o)' <=> Free(o)) /\ (IsActive(o)' <=> IsActive(o))
    BY <1>2, <1>4, <1>6, <2>1 DEF Free
  <2>3. /\ Paid(o, b)' /\ (Early(o)' <=> Early(o)) /\ (Held(o)' <=> Held(o))
    BY <1>1, <1>2, <1>5, <2>1, <2>2, SamePays
  <2>4. /\ FormerAgrees(Tail(l), x, s, Held(o))
        /\ Without(l, x, Former \cap NotAcking(s))
             => Without(Tail(l), x, Former \cap NotAcking(s))
    <3>1. Trims(l, x, Tail(l), x) /\ Held(o) \in BOOLEAN
      BY <1>3 DEF Trims, Held
    <3> HIDE DEF l, x, s
    <3> QED
      BY <1>1, <1>2, <3>1, FormerKept
  <2>5. Unheard(e)'
    BY <1>1, <1>2, <1>4, <2>1, <2>3, <2>4 DEF Unheard, FormerAgrees
  <2>6. PaidWhenCleared(o, b)'
    BY <1>1, <1>2, <1>4, <1>9, <2>1, <2>3, <2>4, PaidWhenClearedKept
  <2> QED
    BY <1>1, <1>8, <2>3, <2>5, <2>6 DEF UnheardPays
<1> QED
  BY <1>10, <1>11

\* A step that keeps both callers' packets, and in the stream from e the former frames.
LEMMA UnheardKept ==
  ASSUME RestartTypeOK, LinkStep, NEW e \in End, NEW o \in End, o = Other(e), Unnoticed(e)',
         NEW CONSTANT b \in Nat, UnheardPays(e, b),
         \/ Trims(line[o], config[e].sending, line'[o], config'[e].sending)
         \/ /\ config[e].sending = NoFrame /\ line'[o] = line[o]
            /\ config'[e].sending = LeFrame("sync"),
         \A y \in End :
           /\ packets'[y] = packets[y]
           /\ config'[y].send_packet = config[y].send_packet
           /\ config'[y].sequence_number = config[y].sequence_number
           /\ config'[y].ack_number = config[y].ack_number
           /\ IsActive(y)' <=> IsActive(y)
           /\ Free(y)' <=> Free(y)
           /\ ~Sent(y) => outstanding'[y] = outstanding[y]
  PROVE  UnheardPays(e, b)'
<1> DEFINE l == line[o]
           x == config[e].sending
           s == config[o].sequence_number
           S == Former \cap NotAcking(s)
<1>1. /\ Other(o) = e /\ Other(e) = o /\ l \in Seq(Frame) /\ x \in Frame /\ b + 1 \in Nat
  BY WindowTypes, Ends DEF RestartTypeOK
<1>2. /\ Unheard(e) /\ Paid(e, b + 1) /\ Paid(o, b) /\ PaidWhenCleared(o, b)
      /\ config[e].sequence_number = 0 /\ config[e].ack_number = 0
      /\ FormerAgrees(l, x, s, Held(o))
  BY <1>1 DEF UnheardPays, Unheard
<1>3. Paid(e, b + 1)'
  BY <1>1, <1>2, SamePays
<1>4. /\ Paid(o, b)' /\ (Early(o)' <=> Early(o)) /\ (Held(o)' <=> Held(o))
      /\ IsFiniteSet(Unreached(o)) /\ Unreached(o)' \subseteq Unreached(o)
  BY <1>1, <1>2, SamePays
<1>5. /\ FormerAgrees(line'[o], config'[e].sending, s, Held(o)')
      /\ Without(l, x, S) => Without(line'[o], config'[e].sending, S)
  <2> DEFINE l2 == line'[o]
             x2 == config'[e].sending
             p == Held(o)
  <2>1. /\ Trims(l, x, l2, x2) \/ (x = NoFrame /\ l2 = l /\ x2 = LeFrame("sync"))
        /\ p \in BOOLEAN /\ (Held(o)' <=> p)
        /\ FormerAgrees(l, x, s, p)
    BY <1>2, <1>4 DEF Held
  <2> HIDE DEF l, x, l2, x2, s, p
  <2>2. /\ FormerAgrees(l2, x2, s, p)
        /\ Without(l, x, S) => Without(l2, x2, S)
    BY <1>1, <2>1, FormerKept, ZenonT(30)
  <2> QED
    BY <2>1, <2>2 DEF FormerAgrees, l2, x2
<1>6. Unheard(e)'
  BY <1>1, <1>2, <1>5 DEF Unheard
<1>7. PaidWhenCleared(o, b)'
  BY <1>1, <1>2, <1>4, <1>5, PaidWhenClearedKept
<1> QED
  BY <1>1, <1>3, <1>4, <1>6, <1>7 DEF UnheardPays

\* Neither a poll that submits nothing nor a frame damaged or lost changes what is paid for.
LEMMA UnheardPolls ==
  ASSUME RestartTypeOK, HoldsReliable, LinkStep, NEW e \in End, Unnoticed(e)',
         NEW CONSTANT b \in Nat, UnheardPays(e, b),
         \E y \in End : NextPoll(y) \/ Noise(y)
  PROVE  UnheardPays(e, b)'
<1> DEFINE o == Other(e)
<1>1. /\ o \in End /\ o # e /\ Other(o) = e /\ TypeOK /\ \A y \in End : y = e \/ y = o
      /\ line[o] \in Seq(Frame) /\ config[e].sending \in Frame
  BY WindowTypes, Ends DEF RestartTypeOK
<1>2. ASSUME NEW y \in End, NextPoll(y)
      PROVE  \A z \in End :
               /\ packets'[z] = packets[z]
               /\ config'[z].send_packet = config[z].send_packet
               /\ config'[z].sequence_number = config[z].sequence_number
               /\ config'[z].ack_number = config[z].ack_number
               /\ IsActive(z)' <=> IsActive(z)
               /\ Free(z)' <=> Free(z)
               /\ ~Sent(z) => outstanding'[z] = outstanding[z]
  <2>1. Other(y) \in End /\ \A z \in End : z = y \/ z = Other(y)
    BY Ends
  <2> QED
    BY <1>1, <1>2, <2>1, NextPollHolds
<1>3. CASE NextPoll(e)
  <2>1. \/ Trims(line[o], config[e].sending, line'[o], config'[e].sending)
        \/ /\ config[e].sending = NoFrame /\ line'[o] = line[o]
           /\ config'[e].sending = LeFrame("sync")
    <3>1. BeginsAgain(e)
      BY DEF UnheardPays, Unheard, Unnoticed
    <3> QED
      BY <1>1, <1>3, <3>1, UnnoticedSends
  <2> QED
    BY <1>1, <1>2, <1>3, <2>1, UnheardKept
<1>4. CASE NextPoll(o)
  <2>1. line'[o] = line[o] /\ config'[e] = config[e]
    BY <1>1, <1>4, NextPollHolds
  <2>2. Trims(line[o], config[e].sending, line'[o], config'[e].sending)
    BY <1>1, <2>1 DEF Trims
  <2> QED
    BY <1>1, <1>2, <1>4, <2>2, UnheardKept
<1>5. ASSUME NEW y \in End, Noise(y) PROVE UnheardPays(e, b)'
  <2>1. /\ config' = config /\ poll' = poll /\ mayCall' = mayCall
        /\ packets' = packets /\ outstanding' = outstanding
        /\ Trims(line[o], config[e].sending, line'[o], config[e].sending)
    BY <1>1, <1>5, ZenonT(30) DEF Noise, callerVars, TypeOK, Trims
  <2>2. \A z \in End : (IsActive(z)' <=> IsActive(z)) /\ (Free(z)' <=> Free(z))
    BY <2>1 DEF IsActive, Free, Sent
  <2> QED
    BY <1>1, <2>1, <2>2, UnheardKept
<1> QED
  BY <1>1, <1>3, <1>4, <1>5

\* The other end may submit its next packet: if the one before was not acknowledged, then
\* an acknowledgement on its way is that of a packet that arrived, or was paid for.
LEMMA UnheardSubmits ==
  ASSUME RestartTypeOK, \A i \in End : Reliability[i] \subseteq {TRUE}, LinkStep,
         NEW e \in End, NEW o \in End, o = Other(e), Unnoticed(e)', Submit(o),
         NEW CONSTANT b \in Nat, UnheardPays(e, b)
  PROVE  UnheardPays(e, b)'
<1> DEFINE l == line[o]
           x == config[e].sending
           s == config[o].sequence_number
           S == Former \cap NotAcking(s)
<1>1. /\ Other(o) = e /\ Other(e) = o /\ TypeOK /\ b + 1 \in Nat
  BY Ends DEF RestartTypeOK
<1>2. /\ Unheard(e) /\ Paid(e, b + 1) /\ Paid(o, b) /\ PaidWhenCleared(o, b)
      /\ config[e].sequence_number = 0 /\ config[e].ack_number = 0
      /\ FormerAgrees(l, x, s, Held(o))
      /\ IsActive(o)
  BY <1>1 DEF UnheardPays, Unheard, Unnoticed, IsActive
<1>3. /\ Free(o) /\ Held(o)'
      /\ config'[o].sequence_number = s
      /\ config'[e] = config[e] /\ line'[o] = l
      /\ packets'[o] = packets[o] + 1 /\ packets'[e] = packets[e]
      /\ Free(e)' <=> Free(e)
      /\ IsActive(e)' <=> IsActive(e)
      /\ outstanding'[e] = outstanding[e]
  BY <1>1, SubmitHolds
<1>4. Paid(o, b)' /\ ~Early(o)'
  BY <1>2, SubmitKeepsPaid
<1>5. Paid(e, b + 1)'
  BY <1>1, <1>2, <1>3, SamePays
<1>6. Unheard(e)'
  BY <1>1, <1>2, <1>3 DEF Unheard, FormerAgrees
<1>7. PaidWhenCleared(o, b)'
  <2>1. CASE Without(l, x, S)
    <3>1. Without(line'[o], config'[e].sending, S') /\ S' = S
      BY <1>3, <2>1 DEF NotAcking
    <3> QED
      BY <1>1, <3>1 DEF PaidWhenCleared
  <2>2. CASE ~Without(l, x, S)
    <3>1. Held(o)
      BY <1>2, <2>2 DEF FormerAgrees
    <3>2. packets[o] \notin Unreached(o)
      BY <1>1, <1>2, <1>3, <2>2, <3>1 DEF PaidWhenCleared, Early
    <3>3. Cardinality(Unreached(o)') <= b
      BY <1>2, <1>3, <3>1, <3>2, SubmitSizes
    <3> QED
      BY <1>4, <3>3 DEF PaidWhenCleared
  <2> QED
    BY <2>1, <2>2
<1> QED
  BY <1>1, <1>4, <1>5, <1>6, <1>7 DEF UnheardPays

\* Until the restart is noticed it has cost nothing, and then at most one packet each way.
LEMMA UnheardStep ==
  ASSUME RestartTypeOK, StreamsInOrder, HoldsReliable,
         \A i \in End : Reliability[i] \subseteq {TRUE}, Next, LinkStep,
         NEW e \in End, NEW CONSTANT b \in Nat, UnheardPays(e, b)
  PROVE  UnheardPays(e, b)' \/ (Handshake' /\ UnansweredPays(e, b + 1)')
<1> DEFINE o == Other(e)
<1>1. /\ o \in End /\ TypeOK /\ \A y \in End : y = e \/ y = o
      /\ Unnoticed(e)
  BY Ends DEF RestartTypeOK, UnheardPays, Unheard
<1>2. CASE Receive(o) /\ Head(line[o]) \in SyncFrames
  BY <1>1, <1>2, UnheardNoticed
<1>3. CASE ~(Receive(o) /\ Head(line[o]) \in SyncFrames)
  <2>1. Unnoticed(e)'
    BY <1>1, <1>3, UnnoticedStep
  <2>2. CASE Receive(e)
    BY <2>1, <2>2, UnheardReceives
  <2>3. CASE Receive(o)
    BY <1>1, <1>3, <2>1, <2>3, UnheardTakes
  <2>4. CASE \E y \in End : NextPoll(y) \/ Noise(y)
    BY <2>1, <2>4, UnheardPolls
  <2>5. CASE Submit(o)
    BY <1>1, <2>1, <2>5, UnheardSubmits
  <2>6. ~Submit(e)
    BY <1>1 DEF Submit, Unnoticed, BeginsAgain
  <2> QED
    BY <1>1, <2>2, <2>3, <2>4, <2>5, <2>6 DEF Next, Step
<1> QED
  BY <1>2, <1>3

-----------------------------------------------------------------------------
(* Both ends have begun again, and one has not heard of that yet.          *)

\* What Unanswered says of the frames survives a trim, and a SYNC that starts at e.
LEMMA UnansweredFrames ==
  ASSUME TypeOK, NEW e \in End, NEW o \in End, o = Other(e), Unanswered(e),
         \/ Trims(line[o], config[e].sending, line'[o], config'[e].sending)
         \/ /\ config[e].sending = NoFrame /\ line'[o] = line[o]
            /\ config'[e].sending = LeFrame("sync"),
         Trims(line[e], config[o].sending, line'[e], config'[o].sending)
  PROVE  /\ Without(line'[o], config'[e].sending, Former)
         /\ NeverBehind(line'[e], config'[o].sending, LeFrames, Headers \ LeFrames)
<1>1. /\ line[o] \in Seq(Frame) /\ config[e].sending \in Frame
      /\ line[e] \in Seq(Frame) /\ config[o].sending \in Frame
  BY WindowTypes
<1>2. /\ Without(line[o], config[e].sending, Former)
      /\ NeverBehind(line[e], config[o].sending, LeFrames, Headers \ LeFrames)
  BY DEF Unanswered
<1>3. Without(line'[o], config'[e].sending, Former)
  <2>1. CASE Trims(line[o], config[e].sending, line'[o], config'[e].sending)
    BY <1>1, <1>2, <2>1, MeaningOfLoss, TrimKeepsWithout
  <2>2. CASE /\ config[e].sending = NoFrame /\ line'[o] = line[o]
             /\ config'[e].sending = LeFrame("sync")
    BY <1>2, <2>2, SyncIs, StartKeeps
  <2> QED
    BY <2>1, <2>2
<1>4. NeverBehind(line'[e], config'[o].sending, LeFrames, Headers \ LeFrames)
  <2> DEFINE T == Headers \ LeFrames
  <2>1. NoFrame \notin T /\ BadFrame \notin T
    BY MeaningOfLoss
  <2> HIDE DEF T
  <2>2. NeverBehind(line'[e], config'[o].sending, LeFrames, T)
    BY <1>1, <1>2, <2>1, MeaningOf, TrimKeepsBehind DEF T
  <2> QED
    BY <2>2 DEF T
<1> QED
  BY <1>3, <1>4

\* The end that has begun again only sends messages of an establishment.
LEMMA TransmitUnanswered ==
  ASSUME TypeOK, Handshake, NEW e \in End, NEW o \in End, o = Other(e), Unanswered(e),
         NEW c \in Config, NEW w \in Seq(Frame), TransmitStep(o, c, w),
         Trims(line[e], config[o].sending, w, c.sending),
         c.sequence_number = config[o].sequence_number,
         c.ack_number = config[o].ack_number,
         c.link_establishment_state = config[o].link_establishment_state,
         c.link_establishment_packet = config[o].link_establishment_packet,
         ~SentUnreliable(c), Free(e)' <=> Free(e)
  PROVE  Unanswered(e)'
<1> DEFINE T == Headers \ LeFrames
           z == config'[o].sending
<1>1. /\ Other(o) = e /\ EngineType
      /\ line[o] \in Seq(Frame) /\ config[e].sending \in Frame
      /\ line[e] \in Seq(Frame) /\ config[o].sending \in Frame /\ c.sending \in Frame
  BY WindowTypes, Ends DEF Config
<1>2. /\ config'[o].sequence_number = config[o].sequence_number
      /\ config'[o].ack_number = config[o].ack_number
      /\ config'[o].link_establishment_state = config[o].link_establishment_state
      /\ config'[e] = config[e] /\ line'[o] = line[o]
      /\ Continues(o, c, w) \/ \E y \in Frame : Starts(o, c, w, y)
  BY <1>1, TransmitHolds, TransmitEffect
<1>3. ~Quiet(c)
  <2>1. config[o].link_establishment_packet # "none"
    BY DEF Unanswered, IsActive, Handshake, LeSuitsState
  <2> QED
    BY <2>1 DEF Quiet
<1>4. NeverBehind(w, c.sending, LeFrames, T)
  <2>1. NoFrame \notin T /\ BadFrame \notin T
    BY MeaningOfLoss
  <2>2. NeverBehind(line[e], config[o].sending, LeFrames, T)
    BY DEF Unanswered
  <2> HIDE DEF T
  <2> QED
    BY <1>1, <2>1, <2>2, MeaningOf, TrimKeepsBehind
<1>5. NeverBehind(line'[e], z, LeFrames, T)
  <2>1. CASE Continues(o, c, w)
    <3>1. Trims(w, c.sending, line'[e], z)
      BY <1>1, <2>1 DEF Continues
    <3>2. NoFrame \notin T /\ BadFrame \notin T
      BY MeaningOfLoss
    <3> HIDE DEF T, z
    <3> QED
      BY <1>1, <1>4, <3>1, <3>2, MeaningOf, TrimKeepsBehind
  <2>2. ASSUME NEW y \in Frame, Starts(o, c, w, y)
        PROVE  NeverBehind(line'[e], z, LeFrames, T)
    <3>1. c.sending = NoFrame /\ line'[e] = w /\ z = y
      BY <1>1, <2>2 DEF Starts
    <3>2. y \in {LeFrame(k) : k \in LeMessage}
      BY <1>3, <2>2 DEF Starts
    <3>3. y \in LeFrames
      BY <3>2 DEF LeFrame, LeFrames
    <3>4. y \notin T
      BY <3>3
    <3> HIDE DEF T, z
    <3> QED
      BY <1>4, <3>1, <3>4, StartKeeps
  <2> QED
    BY <1>2, <2>1, <2>2
<1>6. BeginsAgain(e)'
  <2>1. ~mayCall[e] /\ ~Sent(e)
    BY DEF Unanswered, BeginsAgain
  <2>2. ~mayCall'[e] /\ ~Sent(e)'
    BY <2>1 DEF Free
  <2> QED
    BY <1>2, <2>2, Zenon DEF Unanswered, BeginsAgain
<1>7. ~IsActive(o)' /\ \A i \in End : config'[i].sequence_number = 0 /\ config'[i].ack_number = 0
  <2>1. \A i \in End : i = e \/ i = o
    BY Ends
  <2> QED
    BY <1>2, <2>1 DEF Unanswered, IsActive
<1>8. Without(line'[o], config'[e].sending, Former)
  BY <1>2 DEF Unanswered
<1> QED
  BY <1>5, <1>6, <1>7, <1>8 DEF Unanswered

\* e takes a message of the establishment: nothing of before is on its way any more, and
\* the numbers of both ends are 0.
LEMMA UnansweredHears ==
  ASSUME RestartTypeOK, StreamsInOrder, NEW e \in End, Receive(e), LinkStep,
         Head(line[e]) \in LeFrames, NEW CONSTANT b \in Nat, UnansweredPays(e, b)
  PROVE  Agreed(b)'
<1> DEFINE o == Other(e)
           x == config'[e].sending
           z == config'[o].sending
           l == line'[o]
           m == line'[e]
<1>1. /\ o \in End /\ Other(o) = e /\ TypeOK /\ \A y \in End : y = e \/ y = o
      /\ EngineInStep(e) /\ EngineInStep(o)
      /\ line[o] \in Seq(Frame) /\ config[e].sending \in Frame
      /\ line[e] \in Seq(Frame) /\ config[o].sending \in Frame
  BY WindowTypes, Ends DEF RestartTypeOK, StreamsInOrder
<1>2. /\ Paid(e, b) /\ Paid(o, b)
      /\ config[e].send_packet = NoPacket /\ ~IsActive(e) /\ ~IsActive(o)
      /\ ~mayCall[e] /\ ~Sent(e)
      /\ \A i \in End : config[i].sequence_number = 0 /\ config[i].ack_number = 0
      /\ Without(line[o], config[e].sending, Former)
      /\ NeverBehind(line[e], config[o].sending, LeFrames, Headers \ LeFrames)
  BY DEF UnansweredPays, Unanswered, BeginsAgain, IsActive, uninitialized, active
<1>3. ~ReceivePeerReset(e)
  BY <1>2 DEF ReceivePeerReset, IsActive
<1>4. /\ line[e] # <<>> /\ m = Tail(line[e])
      /\ config'[o] = config[o] /\ poll'[o] = poll[o]
      /\ Received(e) /\ ~Acks(e)
      /\ packets' = packets /\ mayCall' = mayCall /\ outstanding' = outstanding
  BY <1>1, <1>2, <1>3, TakenIs DEF Held
<1>5. /\ config'[e].send_packet = NoPacket
      /\ \A i \in End : config'[i].sequence_number = 0 /\ config'[i].ack_number = 0
      /\ Trims(line[o], config[e].sending, l, x)
      /\ Free(e)' => IsActive(e)'
      /\ Trims(line[e], config[o].sending, m, z)
  <2>1. ~Delivers(e)
    BY <1>2 DEF Delivers, IsActive
  <2> QED
    BY <1>1, <1>2, <1>4, <2>1 DEF Received, Free, IsActive, Trims
<1>6. Without(l, x, Former) /\ Without(m, z, Headers \ LeFrames)
  <2> DEFINE T == Headers \ LeFrames
  <2>1. Without(Tail(line[e]), config[o].sending, T)
    <3> HIDE DEF T
    <3> QED
      BY <1>1, <1>2, <1>4, HeadOf DEF T
  <2> QED
    BY <1>1, <1>2, <1>4, <1>5, <2>1, MeaningOfLoss, TrimKeepsWithout
<1>7. /\ Without(l, x, LeFrames \cap NotAcking(0))
      /\ Without(m, z, LeFrames \cap NotAcking(0))
  <2>1. /\ Without(line[o], config[e].sending, LeFrames \cap NotAcking(0))
        /\ Without(line[e], config[o].sending, LeFrames \cap NotAcking(0))
    BY <1>1 DEF EngineInStep
  <2> DEFINE S == LeFrames \cap NotAcking(0)
  <2>2. NoFrame \notin S /\ BadFrame \notin S
    BY MeaningOf
  <2> HIDE DEF S, l, x, m, z
  <2> QED
    BY <1>1, <1>5, <2>1, <2>2, TrimKeepsWithout DEF S
<1> HIDE DEF l, x, m, z
<1>8. \* No data, and no acknowledgement but 0, in either direction.
      ASSUME NEW k, NEW f, Without(k, f, Former) \/ Without(k, f, Headers \ LeFrames),
             Without(k, f, LeFrames \cap NotAcking(0)), NEW p \in BOOLEAN, NEW q, NEW n
      PROVE  /\ Without(k, f, DataFrames)
             /\ \A i : i \in Fresh(0) => i \notin Stream(k, f)
             /\ DataAgrees(k, f, 0, p)
             /\ AnswersAgree(k, f, 0, 0, q)
             /\ ConfsFirst(k, f, n, FALSE)
  <2>1. Without(k, f, DataFrames)
    <3>1. DataFrames \subseteq Former /\ DataFrames \subseteq Headers \ LeFrames
      BY DEF DataFrames, Former, Headers, LeFrames, LeMessage, SyncFrames
    <3> QED
      BY <1>8, <3>1, WithoutSubset
  <2>2. Without(k, f, NotAcking(0))
    <3>1. /\ NotAcking(0) \subseteq Former \cup (LeFrames \cap NotAcking(0))
          /\ NotAcking(0) \subseteq (Headers \ LeFrames) \cup (LeFrames \cap NotAcking(0))
      BY DEF Former, NotAcking, Headers, LeFrames, LeMessage, SyncFrames
    <3> QED
      BY <1>8, <3>1 DEF Without, Has
  <2>3. Fresh(0) \subseteq DataFrames /\ Stale(0) \subseteq DataFrames
    BY DEF Fresh, Stale, ReliableFrames
  <2>4. Without(k, f, Fresh(0)) /\ ~Has(k, Fresh(0)) /\ f \notin Stale(0)
    BY <2>1, <2>3, WithoutSubset
  <2>5. DataAgrees(k, f, 0, p)
    BY <2>4 DEF DataAgrees, NeverBehind, Has
  <2>6. AnswersAgree(k, f, 0, 0, q)
    <3>1. Without(k, f, NotAcking(0) \cap NotAcking(0))
      BY <2>2, WithoutSubset
    <3> QED
      BY <3>1 DEF AnswersAgree
  <2>7. ConfsFirst(k, f, n, FALSE)
    BY <2>1 DEF ConfsFirst, NeverBehind, Without, Has
  <2> QED
    BY <2>1, <2>4, <2>5, <2>6, <2>7, WithoutStream
<1>9. ASSUME NEW i \in End PROVE NumbersAgree(i)'
  <2>1. /\ Without(line'[Other(i)], config'[i].sending, Former)
             \/ Without(line'[Other(i)], config'[i].sending, Headers \ LeFrames)
        /\ Without(line'[i], config'[Other(i)].sending, Former)
             \/ Without(line'[i], config'[Other(i)].sending, Headers \ LeFrames)
        /\ Without(line'[Other(i)], config'[i].sending, LeFrames \cap NotAcking(0))
        /\ Without(line'[i], config'[Other(i)].sending, LeFrames \cap NotAcking(0))
    BY <1>1, <1>6, <1>7 DEF l, x, m, z
  <2>2. Other(i) \in End
    BY Ends
  <2>3. /\ Without(line'[Other(i)], config'[i].sending, DataFrames)
        /\ DataAgrees(line'[Other(i)], config'[i].sending, 0, Held(i)')
        /\ AnswersAgree(line'[i], config'[Other(i)].sending, 0, 0, Quiet(config'[Other(i)]))
        /\ ConfsFirst(line'[Other(i)], config'[i].sending,
                      config'[i].link_establishment_packet = "none", FALSE)
    BY <1>8, <2>1 DEF Held
  <2>4. config'[i].sequence_number = 0 /\ config'[Other(i)].ack_number = 0
    BY <1>5, <2>2
  <2> QED
    BY <2>3, <2>4 DEF NumbersAgree, ConfsFirst, DataAgrees
<1>10. Paid(o, b)'
  <2>1. (Free(o)' <=> Free(o)) /\ (IsActive(o)' <=> IsActive(o))
    BY <1>4 DEF Free, Sent, IsActive
  <2> QED
    BY <1>1, <1>2, <1>4, <2>1, SamePays
<1>11. PaidInFlight(o, b)'
  <2>1. \A f \in Fresh(0) : f \notin Stream(m, z)
    BY <1>6, <1>7, <1>8
  <2>2. config'[e].ack_number = 0 /\ config'[o].sequence_number = 0
    BY <1>1, <1>5
  <2>3. Fresh(config'[e].ack_number) = Fresh(0)
    BY <2>2
  <2> QED
    BY <1>1, <2>1, <2>2, <2>3 DEF PaidInFlight, Fresh, m, z
<1>12. ~Held(e)' /\ ~Early(e)'
  BY <1>5 DEF Held, Early
<1>13. Paid(e, b)'
  <2> DEFINE u == Unreached(e)
             v == Unreached(e)'
  <2>1. v \subseteq u /\ IsFiniteSet(u)
    BY <1>4, UnreachedIs
  <2>2. Cardinality(v) <= Cardinality(u) /\ Cardinality(v) \in Nat /\ Cardinality(u) \in Nat
    BY <2>1, SizesOf
  <2>3. Cardinality(u) <= b
    BY <1>2 DEF Paid, Held
  <2> HIDE DEF u, v
  <2>4. Cardinality(v) <= b
    BY <2>2, <2>3
  <2> QED
    BY <1>5, <1>12, <2>4 DEF Paid, v
<1>14. PaidInFlight(e, b)'
  BY <1>12 DEF PaidInFlight
<1> QED
  BY <1>1, <1>9, <1>10, <1>11, <1>13, <1>14 DEF Agreed

\* Any other frame that one of the ends takes means nothing to it.
LEMMA UnansweredReceives ==
  ASSUME RestartTypeOK, StreamsInOrder, NEW e \in End, NEW y \in End, Receive(y), LinkStep,
         y = e => Head(line[e]) \notin LeFrames,
         NEW CONSTANT b \in Nat, UnansweredPays(e, b)
  PROVE  UnansweredPays(e, b)'
<1> DEFINE o == Other(e)
<1>1. /\ o \in End /\ o # e /\ Other(o) = e /\ TypeOK /\ \A i \in End : i = e \/ i = o
      /\ EngineInStep(e) /\ EngineInStep(o)
      /\ line[o] \in Seq(Frame) /\ config[e].sending \in Frame
      /\ line[e] \in Seq(Frame) /\ config[o].sending \in Frame
  BY WindowTypes, Ends DEF RestartTypeOK, StreamsInOrder
<1>2. /\ Unanswered(e) /\ BeginsAgain(e) /\ Paid(e, b) /\ Paid(o, b)
      /\ config[e].send_packet = NoPacket /\ ~IsActive(e) /\ ~IsActive(o)
      /\ \A i \in End : config[i].sequence_number = 0 /\ config[i].ack_number = 0
      /\ Without(line[o], config[e].sending, Former)
  BY DEF UnansweredPays, Unanswered, BeginsAgain, IsActive, uninitialized, active
<1>3. ~ReceivePeerReset(y) /\ ~Delivers(y) /\ EngineInStep(y)
  BY <1>1, <1>2 DEF ReceivePeerReset, Delivers, IsActive
<1>4. /\ line[y] # <<>> /\ line'[y] = Tail(line[y]) /\ Head(line[y]) \in Frame
      /\ config'[Other(y)] = config[Other(y)] /\ poll'[Other(y)] = poll[Other(y)]
      /\ Received(y)
      /\ packets' = packets /\ mayCall' = mayCall /\ outstanding' = outstanding
      /\ Acks(y) => Head(line[y]) \in NotAcking(config[y].sequence_number) /\ Held(y)
  BY <1>1, <1>3, TakenIs
<1>5. ~Acks(y) /\ ~Activates(y)
  <2>1. CASE y = e
    BY <1>2, <1>4, <2>1 DEF Held, Activates, LeFrames, LeMessage
  <2>2. CASE y = o
    <3>1. Head(line[o]) \notin Former
      BY <1>1, <1>2, <1>4, <2>2, HeadOf
    <3>2. Head(line[o]) \notin LeFrames \cap NotAcking(0)
      <4>1. Without(line[o], config[e].sending, LeFrames \cap NotAcking(0))
        BY <1>1 DEF EngineInStep
      <4> DEFINE S == LeFrames \cap NotAcking(0)
      <4> HIDE DEF S
      <4>2. Head(line[o]) \notin S
        BY <1>1, <1>4, <2>2, <4>1, HeadOf DEF S
      <4> QED
        BY <4>2 DEF S
    <3>3. Head(line[o]) \notin NotAcking(0)
      BY <3>1, <3>2 DEF Former, NotAcking, Headers, LeFrames, LeMessage, SyncFrames
    <3>4. Head(line[o]).kind # "conf_resp"
      BY <1>4, <2>2, <3>1 DEF Former, Headers, SyncFrames
    <3> QED
      BY <1>1, <1>2, <1>4, <2>2, <3>3, <3>4 DEF Activates
  <2> QED
    BY <1>1, <2>1, <2>2
<1>6. /\ config'[y].send_packet = config[y].send_packet
      /\ config'[y].sequence_number = config[y].sequence_number
      /\ config'[y].ack_number = config[y].ack_number
      /\ Sent(y)' <=> Sent(y)
      /\ IsActive(y)' <=> IsActive(y)
  BY <1>3, <1>4, <1>5 DEF Received, IsActive
<1>7. \A i \in End : /\ config'[i].send_packet = config[i].send_packet
                     /\ config'[i].sequence_number = 0
                     /\ config'[i].ack_number = 0
                     /\ Free(i)' <=> Free(i)
                     /\ IsActive(i)' <=> IsActive(i)
  <2>1. ASSUME NEW i \in End, i # y
        PROVE  config'[i] = config[i] /\ poll'[i] = poll[i]
    <3>1. i = Other(y)
      BY <2>1, Ends
    <3> QED
      BY <1>4, <3>1
  <2> QED
    BY <1>2, <1>4, <1>6, <2>1 DEF Free, Sent, IsActive
<1>8. Paid(e, b)' /\ Paid(o, b)'
  BY <1>1, <1>2, <1>4, <1>7, SamePays
<1>9. BeginsAgain(e)'
  <2>1. CASE y = e
    <3>1. Head(line[e]).kind \notin LeMessage
      BY <1>4, <2>1 DEF LeFrames
    <3>2. /\ config'[e].link_establishment_state = config[e].link_establishment_state
          /\ config'[e].link_establishment_packet = config[e].link_establishment_packet
          /\ config'[e].link_establishment_resp = config[e].link_establishment_resp
          /\ config'[e].sending = config[e].sending
      BY <1>1, <2>1, <3>1, OtherFrames
    <3> QED
      BY <1>2, <1>4, <1>6, <2>1, <3>2 DEF BeginsAgain
  <2>2. CASE y = o
    <3>1. config'[e] = config[e] /\ poll'[e] = poll[e]
      BY <1>1, <1>4, <2>2
    <3>2. Sent(e)' <=> Sent(e)
      BY <3>1 DEF Sent
    <3> QED
      BY <1>2, <1>4, <3>1, <3>2 DEF BeginsAgain
  <2> QED
    BY <1>1, <2>1, <2>2
<1>10. /\ Trims(line[o], config[e].sending, line'[o], config'[e].sending)
       /\ Trims(line[e], config[o].sending, line'[e], config'[o].sending)
  <2>1. /\ Trims(line[Other(y)], config[y].sending, line'[Other(y)], config'[y].sending)
        /\ Trims(line[y], config[Other(y)].sending, line'[y], config'[Other(y)].sending)
    BY <1>4 DEF Received, Trims
  <2> QED
    BY <1>1, <2>1
<1>11. /\ Without(line'[o], config'[e].sending, Former)
       /\ NeverBehind(line'[e], config'[o].sending, LeFrames, Headers \ LeFrames)
  BY <1>1, <1>2, <1>10, UnansweredFrames
<1>12. Unanswered(e)'
  BY <1>1, <1>2, <1>7, <1>9, <1>11 DEF Unanswered
<1> QED
  BY <1>8, <1>12 DEF UnansweredPays

\* Neither polls nor what the line does change what is paid for.
LEMMA UnansweredPolls ==
  ASSUME RestartTypeOK, Handshake, HoldsReliable, \A i \in End : Reliability[i] \subseteq {TRUE},
         LinkStep, NEW e \in End, NEW CONSTANT b \in Nat, UnansweredPays(e, b),
         \E y \in End : NextPoll(y) \/ Submit(y) \/ Noise(y)
  PROVE  UnansweredPays(e, b)'
<1> DEFINE o == Other(e)
<1>1. /\ o \in End /\ o # e /\ Other(o) = e /\ TypeOK /\ \A i \in End : i = e \/ i = o
      /\ EngineType
      /\ line[o] \in Seq(Frame) /\ config[e].sending \in Frame
      /\ line[e] \in Seq(Frame) /\ config[o].sending \in Frame
  BY WindowTypes, Ends DEF RestartTypeOK
<1>2. /\ Unanswered(e) /\ BeginsAgain(e) /\ Paid(e, b) /\ Paid(o, b)
      /\ ~IsActive(o) /\ ~Free(e)
      /\ \A i \in End : config[i].sequence_number = 0 /\ config[i].ack_number = 0
  BY DEF UnansweredPays, Unanswered, BeginsAgain, Free
<1>3. CASE NextPoll(e)
  <2>1. /\ config'[e].send_packet = config[e].send_packet
        /\ config'[e].sequence_number = config[e].sequence_number
        /\ config'[e].ack_number = config[e].ack_number
        /\ config'[o] = config[o] /\ line'[e] = line[e] /\ packets' = packets
        /\ (Free(e)' <=> Free(e)) /\ (Free(o)' <=> Free(o))
        /\ (IsActive(e)' <=> IsActive(e)) /\ (IsActive(o)' <=> IsActive(o))
        /\ ~Sent(e) => outstanding'[e] = outstanding[e]
        /\ outstanding'[o] = outstanding[o]
    BY <1>1, <1>3, NextPollHolds
  <2>2. Paid(e, b)' /\ Paid(o, b)'
    BY <1>1, <1>2, <2>1, SamePays
  <2>3. /\ config'[e].link_establishment_state = uninitialized
        /\ config'[e].link_establishment_packet = "sync"
        /\ config'[e].link_establishment_resp = 0
        /\ config'[e].send_packet = NoPacket
        /\ config'[e].sending \in {NoFrame, LeFrame("sync")}
        /\ \/ Trims(line[o], config[e].sending, line'[o], config'[e].sending)
           \/ /\ config[e].sending = NoFrame /\ line'[o] = line[o]
              /\ config'[e].sending = LeFrame("sync")
    BY <1>1, <1>2, <1>3, UnnoticedSends
  <2>4. BeginsAgain(e)'
    BY <1>2, <2>1, <2>3 DEF BeginsAgain, Free
  <2>5. Trims(line[e], config[o].sending, line'[e], config'[o].sending)
    BY <1>1, <2>1 DEF Trims
  <2>6. /\ Without(line'[o], config'[e].sending, Former)
        /\ NeverBehind(line'[e], config'[o].sending, LeFrames, Headers \ LeFrames)
    BY <1>1, <1>2, <2>3, <2>5, UnansweredFrames
  <2>7. \A i \in End : config'[i].sequence_number = 0 /\ config'[i].ack_number = 0
    BY <1>1, <1>2, <2>1
  <2>8. Unanswered(e)'
    BY <1>1, <1>2, <2>1, <2>4, <2>6, <2>7 DEF Unanswered
  <2> QED
    BY <2>2, <2>8 DEF UnansweredPays
<1>4. CASE NextPoll(o)
  <2> DEFINE c == Returned(o)
  <2>1. /\ ~SentUnreliable(c)
        /\ config'[o].send_packet = config[o].send_packet
        /\ config'[e] = config[e] /\ packets' = packets
        /\ (Free(e)' <=> Free(e)) /\ (Free(o)' <=> Free(o))
        /\ (IsActive(e)' <=> IsActive(e)) /\ (IsActive(o)' <=> IsActive(o))
        /\ ~Sent(o) => outstanding'[o] = outstanding[o]
        /\ outstanding'[e] = outstanding[e]
    BY <1>1, <1>4, NextPollHolds
  <2>2. Paid(e, b)' /\ Paid(o, b)'
    BY <1>1, <1>2, <2>1, SamePays
  <2>3. /\ c \in Config
        /\ c.sequence_number = config[o].sequence_number
        /\ c.ack_number = config[o].ack_number
        /\ c.link_establishment_state = config[o].link_establishment_state
        /\ c.link_establishment_packet = config[o].link_establishment_packet
        /\ c.sending = config[o].sending
    BY <1>1, ReturnedIs
  <2>4. TransmitStep(o, c, line[e])
    BY <1>1, <1>4 DEF NextPoll
  <2> HIDE DEF c
  <2>5. Trims(line[e], config[o].sending, line[e], c.sending)
    BY <2>3 DEF Trims
  <2>6. Unanswered(e)'
    BY <1>1, <1>2, <2>1, <2>3, <2>4, <2>5, TransmitUnanswered
  <2> QED
    BY <2>2, <2>6 DEF UnansweredPays
<1>5. ~Submit(e)
  BY <1>2 DEF Submit, Free
<1>6. CASE Submit(o)
  <2>1. /\ config'[e] = config[e] /\ packets'[e] = packets[e]
        /\ (Free(e)' <=> Free(e)) /\ (IsActive(e)' <=> IsActive(e))
        /\ outstanding'[e] = outstanding[e]
    BY <1>1, <1>6, SubmitHolds
  <2>2. Paid(e, b)'
    BY <1>1, <1>2, <2>1, SamePays
  <2>3. Paid(o, b)'
    BY <1>1, <1>2, <1>6, SubmitKeepsPaid
  <2>4. PICK w \in Seq(Frame), c \in Config :
          /\ TransmitStep(o, c, w)
          /\ Trims(line[e], config[o].sending, w, c.sending)
          /\ c.sequence_number = config[o].sequence_number
          /\ c.ack_number = config[o].ack_number
          /\ c.link_establishment_state = config[o].link_establishment_state
          /\ c.link_establishment_packet = config[o].link_establishment_packet
          /\ ~SentUnreliable(c)
    BY <1>1, <1>6, SubmitHolds, ZenonT(30)
  <2>5. Unanswered(e)'
    BY <1>1, <1>2, <2>1, <2>4, TransmitUnanswered
  <2> QED
    BY <2>2, <2>3, <2>5 DEF UnansweredPays
<1>7. ASSUME NEW y \in End, Noise(y) PROVE UnansweredPays(e, b)'
  <2>1. /\ config' = config /\ poll' = poll /\ mayCall' = mayCall
        /\ packets' = packets /\ outstanding' = outstanding
        /\ \A x \in Frame : Trims(line[y], x, line'[y], x)
        /\ \A z \in End : z # y => line'[z] = line[z]
    BY <1>1, <1>7 DEF Noise, callerVars, TypeOK, Trims
  <2>7. /\ Trims(line[o], config[e].sending, line'[o], config'[e].sending)
        /\ Trims(line[e], config[o].sending, line'[e], config'[o].sending)
    BY <1>1, <2>1 DEF Trims
  <2>2. \A z \in End : /\ IsActive(z)' <=> IsActive(z)
                       /\ Free(z)' <=> Free(z)
                       /\ Sent(z)' <=> Sent(z)
    BY <2>1 DEF IsActive, Free, Sent
  <2>3. Paid(e, b)' /\ Paid(o, b)'
    BY <1>1, <1>2, <2>1, <2>2, SamePays
  <2>4. /\ Without(line'[o], config'[e].sending, Former)
        /\ NeverBehind(line'[e], config'[o].sending, LeFrames, Headers \ LeFrames)
    BY <1>1, <1>2, <2>7, UnansweredFrames
  <2>5. BeginsAgain(e)'
    BY <1>2, <2>1, <2>2 DEF BeginsAgain
  <2>6. Unanswered(e)'
    BY <1>1, <1>2, <2>1, <2>2, <2>4, <2>5 DEF Unanswered
  <2> QED
    BY <2>3, <2>6 DEF UnansweredPays
<1> QED
  BY <1>1, <1>3, <1>4, <1>5, <1>6, <1>7

\* Once both ends begin again nothing more is lost, and the first message of the
\* establishment that comes through brings the numbers together.
LEMMA UnansweredStep ==
  ASSUME RestartTypeOK, Handshake, StreamsInOrder, HoldsReliable,
         \A i \in End : Reliability[i] \subseteq {TRUE}, Next, LinkStep,
         NEW e \in End, NEW CONSTANT b \in Nat, UnansweredPays(e, b)
  PROVE  UnansweredPays(e, b)' \/ Agreed(b)'
<1>1. CASE \E y \in End : Receive(y)
  <2>1. PICK y \in End : Receive(y)
    BY <1>1
  <2>2. CASE y = e /\ Head(line[e]) \in LeFrames
    BY <2>1, <2>2, UnansweredHears
  <2>3. CASE ~(y = e /\ Head(line[e]) \in LeFrames)
    BY <2>1, <2>3, UnansweredReceives
  <2> QED
    BY <2>2, <2>3
<1>2. CASE \E y \in End : NextPoll(y) \/ Submit(y) \/ Noise(y)
  BY <1>2, UnansweredPolls
<1> QED
  BY <1>1, <1>2 DEF Next, Step

-----------------------------------------------------------------------------
(* From the first poll on, and what it says of the packets.                *)

\* In the first poll nothing was submitted, and both ends send SYNC.
LEMMA FirstAgreed ==
  ASSUME RestartInit
  PROVE  NothingUnpaid
<1> DEFINE y == LeFrame("sync")
<1>1. /\ Handshake /\ RestartsPaid = 0
      /\ \A e \in End : /\ config[e] = FirstConfig /\ poll[e] = FirstPoll /\ line[e] = <<>>
                        /\ packets[e] = 0 /\ ~mayCall[e]
  BY HandshakeInductive DEF RestartInit, Init, RestartsPaid, End
<1>2. \A e \in End : Other(e) \in End /\ ~Held(e) /\ ~Free(e) /\ ~Early(e) /\ ~IsActive(e)
  BY <1>1, FirstIs, Ends
  DEF Held, Free, Sent, Early, IsActive, uninitialized, active
<1>3. /\ y \in SyncFrames /\ y.ack = 0
  BY SyncIs DEF LeFrame
<1>4. /\ y \notin DataFrames /\ y \notin ConfFrames /\ y \notin NotAcking(0)
  BY <1>3 DEF SyncFrames, DataFrames, ConfFrames, NotAcking
<1>5. y \notin Fresh(0)
  BY <1>4 DEF Fresh, ReliableFrames
<1> HIDE DEF y
<1>6. \A S, T : (y \notin S => Without(<<>>, y, S)) /\ NeverBehind(<<>>, y, S, T)
  BY DEF Without, NeverBehind, Has
<1>7. /\ \A q : AnswersAgree(<<>>, y, 0, 0, q)
      /\ DataAgrees(<<>>, y, 0, FALSE)
      /\ \A n : ConfsFirst(<<>>, y, n, FALSE)
      /\ Without(<<>>, y, DataFrames)
  BY <1>4, <1>5, <1>6 DEF AnswersAgree, DataAgrees, ConfsFirst
<1>8. ASSUME NEW e \in End PROVE NumbersAgree(e) /\ Paid(e, 0) /\ PaidInFlight(e, 0)
  <2>1. NumbersAgree(e)
    BY <1>1, <1>2, <1>7, FirstIs DEF NumbersAgree, DataAgrees, ConfsFirst, y
  <2>2. Unreached(e) = {}
    BY <1>1 DEF Unreached
  <2>3. Cardinality(Unreached(e)) = 0
    BY <2>2, FS_EmptySet
  <2> QED
    BY <1>2, <2>1, <2>3 DEF Paid, PaidInFlight
<1> QED
  BY <1>1, <1>2, <1>8 DEF NothingUnpaid, HoldsReliable, Agreed

\* NothingUnpaid is so when b restarts pay, in a state and in the next.
LEMMA UnpaidIs ==
  ASSUME NEW CONSTANT b \in Nat
  PROVE  /\ RestartsPaid = b =>
              (NothingUnpaid <=>
                 /\ HoldsReliable
                 /\ \/ Handshake /\ Agreed(b)
                    \/ Handshake /\ \E e \in End : UnansweredPays(e, b)
                    \/ b > 0 /\ \E e \in End : UnheardPays(e, b - 1))
         /\ RestartsPaid' = b =>
              (NothingUnpaid' <=>
                 /\ HoldsReliable'
                 /\ \/ Handshake' /\ Agreed(b)'
                    \/ Handshake' /\ \E e \in End : UnansweredPays(e, b)'
                    \/ b > 0 /\ \E e \in End : UnheardPays(e, b - 1)')
<1>1. RestartsPaid = b =>
              (NothingUnpaid <=>
                 /\ HoldsReliable
                 /\ \/ Handshake /\ Agreed(b)
                    \/ Handshake /\ \E e \in End : UnansweredPays(e, b)
                    \/ b > 0 /\ \E e \in End : UnheardPays(e, b - 1))
  BY DEF NothingUnpaid
<1>2. ASSUME RestartsPaid' = b
      PROVE  NothingUnpaid' <=>
                 /\ HoldsReliable'
                 /\ \/ Handshake' /\ Agreed(b)'
                    \/ Handshake' /\ \E e \in End : UnansweredPays(e, b)'
                    \/ b > 0 /\ \E e \in End : UnheardPays(e, b - 1)'
  BY <1>2 DEF NothingUnpaid
<1> QED
  BY <1>1, <1>2

\* Every step keeps it.
LEMMA UnpaidStep ==
  ASSUME OnlySettled, \A i \in End : Reliability[i] \subseteq {TRUE},
         RestartTypeOK, RestartInStep, NothingUnpaid, [RestartNext]_restartVars
  PROVE  NothingUnpaid'
<1>1. TypeOK /\ StreamsInOrder /\ HoldsReliable /\ restarts \in [End -> Nat]
  BY DEF RestartTypeOK, RestartInStep, StreamsInOrder, NothingUnpaid
<1>2. HoldsReliable'
  BY <1>1, ReliableKept
<1>3. PICK b \in Nat : RestartsPaid = b
  BY <1>1 DEF RestartsPaid, End
<1>4. \/ Handshake /\ Agreed(b)
      \/ Handshake /\ \E e \in End : UnansweredPays(e, b)
      \/ b > 0 /\ \E e \in End : UnheardPays(e, b - 1)
  BY <1>3, UnpaidIs
<1>5. CASE Next /\ LinkStep
  <2>1. RestartsPaid' = b
    BY <1>3, <1>5 DEF LinkStep, RestartsPaid
  <2>2. Handshake => Handshake'
    BY <1>1, <1>5, HandshakeInductive
  <2>3. CASE Handshake /\ Agreed(b)
    BY <1>1, <1>2, <1>3, <1>5, <2>1, <2>2, <2>3, AgreedStep, UnpaidIs
  <2>4. ASSUME Handshake, NEW e \in End, UnansweredPays(e, b) PROVE NothingUnpaid'
    <3>1. UnansweredPays(e, b)' \/ Agreed(b)'
      BY <1>1, <1>3, <1>5, <2>4, UnansweredStep
    <3> QED
      BY <1>2, <1>3, <2>1, <2>2, <2>4, <3>1, UnpaidIs
  <2>5. ASSUME b > 0, NEW e \in End, UnheardPays(e, b - 1) PROVE NothingUnpaid'
    <3>1. PICK k \in Nat : k = b - 1
      BY <1>3, <2>5
    <3>2. k + 1 = b
      BY <1>3, <3>1
    <3>3. UnheardPays(e, k)' \/ (Handshake' /\ UnansweredPays(e, k + 1)')
      BY <1>1, <1>5, <2>5, <3>1, UnheardStep
    <3> QED
      BY <1>2, <1>3, <2>1, <2>5, <3>1, <3>2, <3>3, UnpaidIs
  <2> QED
    BY <1>4, <2>3, <2>4, <2>5
<1>6. ASSUME NEW e \in End, Restart(e) PROVE NothingUnpaid'
  <2>1. Settled /\ \A i \in End : IsActive(i)
    BY <1>6 DEF Restart, Settled, IsActive
  <2>2. Agreed(b)
    <3>1. ASSUME NEW i \in End PROVE ~UnansweredPays(i, b)
      BY <2>1, Ends DEF UnansweredPays, Unanswered
    <3>2. ASSUME NEW i \in End PROVE ~UnheardPays(i, b - 1)
      BY <2>1 DEF UnheardPays, Unheard, Unnoticed, BeginsAgain, IsActive, uninitialized, active
    <3> QED
      BY <1>4, <3>1, <3>2
  <2>3. UnheardPays(e, b)'
    BY <1>1, <1>3, <1>6, <2>1, <2>2, RestartPays
  <2>4. RestartsPaid' = b + 1
    <3>1. restarts' = [restarts EXCEPT ![e] = @ + 1]
      BY <1>6 DEF Restart
    <3> QED
      BY <1>1, <1>3, <3>1 DEF RestartsPaid, End
  <2>5. b + 1 \in Nat /\ b + 1 > 0 /\ (b + 1) - 1 = b
    BY <1>3
  <2> QED
    BY <1>2, <2>3, <2>4, <2>5, UnpaidIs
<1>7. CASE UNCHANGED restartVars
  <2>1. /\ config' = config /\ poll' = poll /\ line' = line /\ packets' = packets
        /\ mayCall' = mayCall /\ outstanding' = outstanding /\ delivered' = delivered
        /\ restarts' = restarts /\ reached' = reached
    BY <1>7 DEF restartVars, vars
  <2>2. \A e \in End : /\ Held(e)' <=> Held(e)
                       /\ Free(e)' <=> Free(e)
                       /\ Early(e)' <=> Early(e)
                       /\ IsActive(e)' <=> IsActive(e)
                       /\ Unreached(e)' = Unreached(e)
                       /\ Other(e) \in End
    BY <2>1, Ends DEF Held, Free, Early, IsActive, Sent, Unreached
  <2>3. RestartsPaid' = b
    BY <1>3, <2>1 DEF RestartsPaid
  <2>4. Agreed(b) => Agreed(b)'
    <3>1. ASSUME NEW e \in End PROVE NumbersAgree(e) => NumbersAgree(e)'
      BY <2>1, <2>2, Zenon DEF NumbersAgree, DataAgrees, AnswersAgree, ConfsFirst
    <3>2. ASSUME NEW e \in End PROVE Paid(e, b) => Paid(e, b)'
      BY <2>1, <2>2 DEF Paid
    <3>3. ASSUME NEW e \in End PROVE PaidInFlight(e, b) => PaidInFlight(e, b)'
      BY <2>1, <2>2 DEF PaidInFlight
    <3> QED
      BY <3>1, <3>2, <3>3 DEF Agreed
  <2>5. ASSUME NEW e \in End
        PROVE  /\ UnansweredPays(e, b) => UnansweredPays(e, b)'
               /\ UnheardPays(e, b - 1) => UnheardPays(e, b - 1)'
    <3>1. ASSUME NEW i \in End, NEW k PROVE Paid(i, k)' <=> Paid(i, k)
      BY <2>1, <2>2 DEF Paid
    <3>2. Sent(e)' <=> Sent(e)
      BY <2>1 DEF Sent
    <3>3. BeginsAgain(e)' <=> BeginsAgain(e)
      BY <2>1, <3>2, Zenon DEF BeginsAgain
    <3>4. Unanswered(e)' <=> Unanswered(e)
      BY <2>1, <2>2, <3>3, Zenon DEF Unanswered, IsActive
    <3>5. Unnoticed(e)' <=> Unnoticed(e)
      BY <2>1, <3>2, <3>3, Zenon DEF Unnoticed
    <3>6. Unheard(e)' <=> Unheard(e)
      BY <2>1, <2>2, <3>5, Zenon DEF Unheard, FormerAgrees, Held
    <3>7. PaidWhenCleared(Other(e), b - 1)' <=> PaidWhenCleared(Other(e), b - 1)
      BY <2>1, <2>2, Ends DEF PaidWhenCleared
    <3> QED
      BY <2>2, <3>1, <3>4, <3>6, <3>7, Zenon DEF UnansweredPays, UnheardPays
  <2>6. Handshake => Handshake'
    BY <2>1 DEF Handshake
  <2> QED
    BY <1>2, <1>3, <1>4, <2>3, <2>4, <2>5, <2>6, UnpaidIs
<1> QED
  BY <1>5, <1>6, <1>7 DEF RestartNext

\* What b restarts pay for, one more does.
LEMMA PaidMore ==
  ASSUME RestartTypeOK, NEW e \in End, NEW b \in Nat, Paid(e, b)
  PROVE  Paid(e, b + 1)
<1> DEFINE u == Unreached(e)
           n == packets[e]
           w == IF Held(e) THEN {n} ELSE {}
<1>1. IsFiniteSet(u)
  BY UnreachedIs
<1>2. u \cup w = u \/ u \cup w = u \cup {n}
  OBVIOUS
<1>3. /\ Cardinality(u) \in Nat /\ Cardinality(u \ {n}) \in Nat
      /\ Cardinality(u \cup {n}) \in Nat
  <2> HIDE DEF u, n
  <2> QED
    BY <1>1, SizesOf
<1>4. Cardinality(u \cup w) \in Nat
  BY <1>2, <1>3
<1> QED
  BY <1>3, <1>4 DEF Paid

\* What is paid for is what LossBounded counts: the packet in progress is in the engine,
\* or it counts as lost already.
LEMMA PaidBounds ==
  ASSUME RestartTypeOK, NEW e \in End, PacketsInOrder(e), NEW b \in Nat, Paid(e, b)
  PROVE  Cardinality(Unreached(e) \ {outstanding[e].id}) <= b
<1> DEFINE u == Unreached(e)
           n == packets[e]
           i == outstanding[e].id
<1>1. IsFiniteSet(u)
  BY UnreachedIs
<1>2. /\ Cardinality(u) \in Nat /\ Cardinality(u \ {i}) \in Nat
      /\ Cardinality(u \cup {n}) \in Nat
      /\ Cardinality(u \ {i}) <= Cardinality(u)
      /\ Cardinality(u) <= Cardinality(u \cup {n})
  <2> HIDE DEF u, n, i
  <2>1. u \subseteq u
    OBVIOUS
  <2>2. Cardinality(u) \in Nat /\ Cardinality(u \ {i}) \in Nat /\ Cardinality(u \ {i}) <= Cardinality(u)
    BY <1>1, <2>1, SizesOf
  <2>3. Cardinality(u \cup {n}) \in Nat /\ Cardinality(u) <= Cardinality(u \cup {n})
    BY <1>1, <2>1, SizesOf
  <2> QED
    BY <2>2, <2>3
<1>3. CASE ~Held(e)
  BY <1>2, <1>3 DEF Paid
<1>4. CASE Early(e)
  BY <1>2, <1>4 DEF Paid
<1>5. CASE Held(e) /\ ~Early(e)
  <2>1. ~Free(e) /\ Cardinality(u \ {n}) <= b /\ outstanding[e] = config[e].send_packet
    BY <1>5 DEF Early, Paid
  <2>2. config[e].send_packet.id = n
    BY <1>5 DEF PacketsInOrder, Held
  <2> QED
    BY <2>1, <2>2
<1> QED
  BY <1>3, <1>4, <1>5

\* When all packets are reliable, as all of the daemon's are, and an end restarts only
\* on a settled link: in each phase of the recovery, what has not arrived is paid for by
\* the restarts, although the ACK of a SYNC clears a packet that the other end never took
\* and CONF RESP reports SENT (ubcsp_recevied_packet).
THEOREM RestartsPayForLosses ==
  ASSUME OnlySettled, \A i \in End : Reliability[i] \subseteq {TRUE}
  PROVE  RestartSpec => []NothingUnpaid
<1>1. RestartInit => NothingUnpaid
  BY FirstAgreed
<1>2. RestartTypeOK /\ RestartInStep /\ NothingUnpaid /\ [RestartNext]_restartVars
        => NothingUnpaid'
  BY UnpaidStep
<1> QED
  BY <1>1, <1>2, RestartTypeCorrect, RestartOrderHolds, PTL DEF RestartSpec

\* However often the ends restart, each on a settled link, and whatever is submitted
\* in between: of the packets in either direction no more are missing at the
\* other end than there were restarts, the one in progress aside.
THEOREM RestartLosesOne ==
  ASSUME OnlySettled, \A i \in End : Reliability[i] \subseteq {TRUE}
  PROVE  RestartSpec => []LossBounded
<1>1. RestartTypeOK /\ RestartInStep /\ NothingUnpaid => LossBounded
  <2> SUFFICES ASSUME RestartTypeOK, RestartInStep, NothingUnpaid PROVE LossBounded
    OBVIOUS
  <2>1. restarts["host"] \in Nat /\ restarts["chip"] \in Nat
    BY DEF RestartTypeOK, End
  <2>2. PICK b \in Nat : RestartsPaid = b
    BY <2>1 DEF RestartsPaid
  <2>3. ASSUME NEW e \in End PROVE Paid(e, b)
    <3>1. CASE Agreed(b)
      BY <3>1 DEF Agreed
    <3>2. ASSUME NEW x \in End, UnansweredPays(x, b) PROVE Paid(e, b)
      BY <3>2, Ends DEF UnansweredPays, End
    <3>3. ASSUME b > 0, NEW x \in End, UnheardPays(x, b - 1) PROVE Paid(e, b)
      <4>1. PICK k \in Nat : k = b - 1
        BY <3>3
      <4>2. b = k + 1
        BY <4>1
      <4>3. Paid(x, k + 1) /\ Paid(Other(x), k)
        BY <3>3, <4>1 DEF UnheardPays
      <4>4. Other(x) \in End /\ (e = x \/ e = Other(x))
        BY Ends DEF End
      <4>5. Paid(Other(x), k + 1)
        BY <4>1, <4>3, <4>4, PaidMore
      <4> QED
        BY <4>2, <4>3, <4>4, <4>5
    <3> QED
      BY <2>2, <3>1, <3>2, <3>3, UnpaidIs
  <2>4. ASSUME NEW e \in End
        PROVE  Cardinality(((1 .. packets[Other(e)]) \ reached[e]) \ {outstanding[Other(e)].id})
                 <= restarts[e] + restarts[Other(e)]
    <3>1. Other(e) \in End /\ Other(Other(e)) = e
      BY Ends
    <3>2. PacketsInOrder(Other(e))
      BY <3>1 DEF RestartInStep
    <3>3. Cardinality(Unreached(Other(e)) \ {outstanding[Other(e)].id}) <= b
      BY <2>3, <3>1, <3>2, PaidBounds
    <3>4. b = restarts[e] + restarts[Other(e)]
      BY <2>1, <2>2 DEF RestartsPaid, End, Other
    <3>5. Unreached(Other(e)) = (1 .. packets[Other(e)]) \ reached[e]
      BY <3>1 DEF Unreached
    <3> QED
      BY <3>3, <3>4, <3>5
  <2> QED
    BY <2>4 DEF LossBounded
<1> QED
  BY <1>1, RestartTypeCorrect, RestartOrderHolds, RestartsPayForLosses, PTL

=============================================================================
