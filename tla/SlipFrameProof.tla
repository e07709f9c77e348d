--------------------------- MODULE SlipFrameProof ---------------------------
(***************************************************************************)
(* The buffers of SlipFrame for every frame, receive length, noise and     *)
(* CRC: what is clocked out is read inside its block, and what comes in is *)
(* stored inside the receive buffer.                                       *)
(***************************************************************************)
EXTENDS SlipFrame, SequenceTheorems, TLAPS

\* All that is asked of the CRC: it has 16 bits.
CrcTyped ==
  \A crc \in Word : /\ CrcReverse(crc) \in Word
                    /\ \A ch \in Octet : CalcCrc(ch, crc) \in Word

\* A frame is being clocked out as long as there are octets of it to send.
Clocking == tx.send_size > 0 => frame \in Frame

FramesTyped == TypeOK /\ Clocking /\ ReadsInside

-----------------------------------------------------------------------------
(* The header.                                                             *)

\* Its first three octets.
Flags(reliable, ack, seq) == 128 * reliable + 64 + 8 * ack + seq
LengthLow(channel, n) == channel + 16 * (n % 16)
LengthHigh(n) == (n \div 16) % 256
LengthOf(h1, h2) == h1 \div 16 + 16 * h2

\* The first octet holds reliable, ack and seq, and says that a CRC follows.
LEMMA FlagsKept ==
  ASSUME NEW r \in {0, 1}, NEW a \in 0 .. 7, NEW q \in 0 .. 7
  PROVE  LET h0 == Flags(r, a, q)
         IN  /\ h0 \in Octet
             /\ (h0 \div 64) % 2 = 1
             /\ h0 \div 128 = r /\ (h0 \div 8) % 8 = a /\ h0 % 8 = q
BY DEF Octet, Flags

\* The next two hold the channel and the twelve bits of the length.
Channels == 0 .. 15
Lengths == 0 .. 4095

LEMMA LengthKept ==
  ASSUME NEW c \in Channels, NEW n \in Lengths
  PROVE  /\ LengthLow(c, n) \in Octet /\ LengthHigh(n) \in Octet
         /\ LengthLow(c, n) % 16 = c
         /\ LengthOf(LengthLow(c, n), LengthHigh(n)) = n
<1>0. c \in 0 .. 15 /\ n \in Nat /\ n < 4096
  BY DEF Channels, Lengths
<1>1. LengthLow(c, n) \in Octet /\ LengthLow(c, n) % 16 = c
  BY <1>0 DEF Octet, LengthLow
<1>2. LengthHigh(n) \in Octet
  BY <1>0 DEF Octet, LengthHigh
<1>3. LengthOf(LengthLow(c, n), LengthHigh(n)) = n
  BY <1>0 DEF LengthLow, LengthHigh, LengthOf
<1> QED
  BY <1>1, <1>2, <1>3

\* A CRC goes out as two octets.
LEMMA WordInOctets ==
  ASSUME NEW w \in Word
  PROVE  w \div 256 \in Octet /\ w % 256 \in Octet
<1> DEFINE b == 256 * 256 - 1
<1>1. Word = 0 .. b
  BY DEF Word
<1>2. b \in Int
  OBVIOUS
<1>3. w \in Nat /\ w <= b
  <2> HIDE DEF b
  <2> QED
    BY <1>1, <1>2
<1>4. w \in Nat /\ w < 256 * 256
  BY <1>3
<1> QED
  BY <1>4 DEF Octet

\* The checksum makes the sum of the four octets 255.
LEMMA ChecksumPasses ==
  ASSUME NEW a \in Octet, NEW b \in Octet, NEW c \in Octet
  PROVE  LET d == Checksum(a, b, c) IN d \in Octet /\ (a + b + c + d) % 256 = 255
BY DEF Octet, Checksum

\* What ubcsp_recevied_packet takes out of a header is what ubcsp_send_header put
\* into it, and the header passes its checksum, for every frame with a length of
\* twelve bits.
THEOREM HeaderKept ==
  ASSUME NEW f \in AnyFrame, Len(f.payload) < 4096
  PROVE  LET h == [i \in 0 .. 3 |-> Header(f)[i + 1]]
         IN  /\ h \in [0 .. 3 -> Octet]
             /\ (h[0] + h[1] + h[2] + h[3]) % 256 = 255
             /\ HasCrc(h)
             /\ Length(h) = Len(f.payload)
             /\ Decoded(h, f.payload) = f
<1> DEFINE n == Len(f.payload)
           h0 == Flags(f.reliable, f.ack, f.seq)
           h1 == LengthLow(f.channel, n)
           h2 == LengthHigh(n)
           h3 == Checksum(h0, h1, h2)
           h == [i \in 0 .. 3 |-> Header(f)[i + 1]]
<1>1. /\ f.reliable \in {0, 1} /\ f.ack \in 0 .. 7 /\ f.seq \in 0 .. 7
      /\ f.channel \in 0 .. 15 /\ f.payload \in Seq(Octet)
      /\ f = [reliable |-> f.reliable, ack |-> f.ack, seq |-> f.seq,
              channel |-> f.channel, payload |-> f.payload]
  BY DEF AnyFrame
<1>2. n \in Nat /\ n < 4096
  BY <1>1
<1>3. h0 \in Octet /\ (h0 \div 64) % 2 = 1
      /\ h0 \div 128 = f.reliable /\ (h0 \div 8) % 8 = f.ack /\ h0 % 8 = f.seq
  BY <1>1, FlagsKept
<1>4. h1 \in Octet /\ h2 \in Octet /\ h1 % 16 = f.channel /\ LengthOf(h1, h2) = n
  <2> HIDE DEF n
  <2>1. f.channel \in Channels
    BY <1>1 DEF Channels
  <2>2. n \in Lengths
    BY <1>2 DEF Lengths
  <2> QED
    BY <2>1, <2>2, LengthKept
<1>5. h3 \in Octet /\ (h0 + h1 + h2 + h3) % 256 = 255
  <2> HIDE DEF h0, h1, h2
  <2> QED
    BY <1>3, <1>4, ChecksumPasses
<1>6. Header(f) = <<h0, h1, h2, h3>>
  BY DEF Header, Flags, LengthLow, LengthHigh
<1>7. h[0] = h0 /\ h[1] = h1 /\ h[2] = h2 /\ h[3] = h3
  <2> HIDE DEF h0, h1, h2, h3
  <2> QED
    BY <1>6
<1>8. h \in [0 .. 3 -> Octet]
  <2> SUFFICES ASSUME NEW i \in 0 .. 3 PROVE Header(f)[i + 1] \in Octet
    OBVIOUS
  <2> HIDE DEF h0, h1, h2, h3
  <2>1. i = 0 \/ i = 1 \/ i = 2 \/ i = 3
    OBVIOUS
  <2> QED
    BY <1>3, <1>4, <1>5, <1>6, <2>1
<1> HIDE DEF h, h0, h1, h2, h3, n
<1>9. HasCrc(h) /\ Length(h) = n
  BY <1>3, <1>4, <1>7 DEF HasCrc, Length, LengthOf
<1>10. Decoded(h, f.payload) = f
  BY <1>1, <1>3, <1>4, <1>7 DEF Decoded
<1> QED
  BY <1>5, <1>7, <1>8, <1>9, <1>10 DEF h, n

-----------------------------------------------------------------------------
(* The sender.                                                             *)

\* A header is four octets, whatever the frame.
LEMMA HeaderTyped ==
  ASSUME NEW f \in AnyFrame
  PROVE  Header(f) \in Seq(Octet) /\ Len(Header(f)) = 4
<1> DEFINE n == Len(f.payload)
           h0 == 128 * f.reliable + 64 + 8 * f.ack + f.seq
           h1 == f.channel + 16 * (n % 16)
           h2 == (n \div 16) % 256
<1>1. /\ f.reliable \in {0, 1} /\ f.ack \in 0 .. 7 /\ f.seq \in 0 .. 7
      /\ f.channel \in 0 .. 15
  BY DEF AnyFrame
<1>2. n \in Nat
  BY DEF AnyFrame
<1> HIDE DEF n
<1>3. h0 \in Octet
  BY <1>1 DEF Octet
<1>4. h1 \in Octet
  BY <1>1, <1>2 DEF Octet
<1>5. h2 \in Octet
  BY <1>2 DEF Octet
<1>6. Header(f) = <<h0, h1, h2, Checksum(h0, h1, h2)>>
  BY DEF Header, n
<1> HIDE DEF h0, h1, h2
<1> QED
  BY <1>3, <1>4, <1>5, <1>6, ChecksumPasses

\* What is put on the wire is well typed.
LEMMA PlainTyped ==
  ASSUME NEW o \in Octet, sent \in Seq(Frame)
  PROVE  Plain(o) \in Wired /\ Closing \in Wired
<1>1. Len(sent) + 1 \in Nat /\ SLIP_FRAME \in Octet
  BY DEF SLIP_FRAME, Octet
<1>2. Plain(o) \in Wired /\ Plain(SLIP_FRAME) \in Wired
  BY <1>1 DEF Plain, Wired
<1>3. (whole >= 1) \in BOOLEAN
  OBVIOUS
<1> QED
  BY <1>2, <1>3 DEF Closing, Wired

LEMMA PutTyped ==
  ASSUME wire \in Seq(Wired), NEW os \in Seq(Wired), Put(os)
  PROVE  wire' \in Seq(Wired)
BY ConcatProperties DEF Put

\* A transmission whose pointer stays inside its block.
Inside(t) ==
  t.send_size > 0
    => t.ptr + t.send_size <= Len(t.block) + IF t.send_slip_escape = NoEscape THEN 1 ELSE 2

LEMMA ReadsInsideIs == ReadsInside <=> Inside(tx)
BY DEF ReadsInside, Inside

\* The next block begins with its first octet.
LEMMA BlockTyped ==
  ASSUME NEW t \in Sender, NEW b \in Seq(Octet)
  PROVE  Block(t, b) \in Sender /\ Inside(Block(t, b))
<1>1. Len(b) \in Nat /\ None \in Seq(Octet)
  BY DEF None
<1>2. Block(t, b) \in Sender
  <2>1. 1 \in Nat \ {0}
    OBVIOUS
  <2> QED
    BY <1>1, <2>1 DEF Block, Sender
<1>3. Block(t, b).block = b /\ Block(t, b).ptr = 1 /\ Block(t, b).send_size = Len(b)
  BY DEF Block, Sender
<1> QED
  BY <1>1, <1>2, <1>3 DEF Inside

LEMMA IdleTyped == Idle \in Sender /\ Idle.send_size = 0
<1>1. None \in Seq(Octet) /\ 1 \in Nat \ {0} /\ 0 \in Nat /\ 65535 \in Word
  BY DEF None, Word
<1> QED
  BY <1>1 DEF Idle, Sender, NoEscape

\* At the end of a block comes the payload, or the two octets of the CRC, or the end.
LEMMA AfterBlockTyped ==
  ASSUME CrcTyped, NEW t \in Sender
  PROVE  AfterBlock(t) \in Sender /\ Inside(AfterBlock(t))
<1>1. CASE t.next # None
  <2>1. t.next \in Seq(Octet)
    BY DEF Sender
  <2>2. AfterBlock(t) = Block(t, t.next)
    BY <1>1 DEF AfterBlock
  <2> QED
    BY <2>1, <2>2, BlockTyped
<1>2. CASE t.next = None /\ t.need_send_crc
  <2> DEFINE crc == CrcReverse(t.send_crc)
             b == <<crc \div 256, crc % 256>>
  <2>1. crc \in Word
    BY DEF CrcTyped, Sender
  <2>2. crc \div 256 \in Octet /\ crc % 256 \in Octet
    <3> HIDE DEF crc
    <3> QED
      BY <2>1, WordInOctets
  <2> HIDE DEF crc
  <2>3. b \in Seq(Octet)
    BY <2>2
  <2>4. AfterBlock(t) = [Block(t, b) EXCEPT !.need_send_crc = FALSE]
    BY <1>2 DEF AfterBlock, crc
  <2> HIDE DEF b
  <2>5. Block(t, b) \in Sender /\ Inside(Block(t, b))
    BY <2>3, BlockTyped
  <2> QED
    BY <2>4, <2>5 DEF Sender, Inside
<1>3. CASE t.next = None /\ ~t.need_send_crc
  <2>1. AfterBlock(t) = Idle
    BY <1>3 DEF AfterBlock
  <2> QED
    BY <2>1, IdleTyped DEF Inside
<1> QED
  BY <1>1, <1>2, <1>3

\* An octet that has been put is counted.  The pointer may have run one ahead.
LEMMA CountedTyped ==
  ASSUME CrcTyped, NEW t \in Sender, t.send_size > 0, t.send_slip_escape = NoEscape,
         t.ptr + t.send_size <= Len(t.block) + 2
  PROVE  /\ Counted(t) \in Sender
         /\ Inside(Counted(t))
         /\ IsLast(t) => Counted(t).send_size = 0
<1>1. t.send_size \in Nat /\ t.ptr \in Nat /\ t.block \in Seq(Octet)
  BY DEF Sender
<1>2. CASE t.send_size > 1
  <2> DEFINE u == [t EXCEPT !.send_size = t.send_size - 1]
  <2>1. Counted(t) = u
    BY <1>2 DEF Counted
  <2>2. t.send_size - 1 \in Nat
    BY <1>1, <1>2
  <2>3. u \in Sender /\ u.send_size = t.send_size - 1 /\ u.ptr = t.ptr
        /\ u.block = t.block /\ u.send_slip_escape = NoEscape
    BY <2>2 DEF Sender
  <2>4. Len(t.block) \in Nat
    BY <1>1
  <2>5. u.ptr + u.send_size <= Len(u.block) + 1
    BY <1>1, <2>3, <2>4
  <2> HIDE DEF u
  <2> QED
    BY <1>2, <2>1, <2>3, <2>5 DEF Inside, IsLast
<1>3. CASE ~(t.send_size > 1)
  <2>1. Counted(t) = AfterBlock(t)
    BY <1>3 DEF Counted
  <2>2. IsLast(t) => AfterBlock(t) = Idle
    BY DEF IsLast, AfterBlock
  <2> QED
    BY <2>1, <2>2, AfterBlockTyped, IdleTyped
<1> QED
  BY <1>2, <1>3


\* An octet that is put and counted.
LEMMA PutCountedTyped ==
  ASSUME CrcTyped, FramesTyped, tx.send_size > 0, NEW o \in Octet, NEW t \in Sender,
         t.send_size > 0, t.send_slip_escape = NoEscape,
         t.ptr + t.send_size <= Len(t.block) + 2, PutCounted(t, o)
  PROVE  FramesTyped'
<1>1. /\ tx' = Counted(t)
      /\ Counted(t) \in Sender
      /\ Inside(Counted(t))
      /\ IsLast(t) => Counted(t).send_size = 0
  BY CountedTyped DEF PutCounted
<1>2. Plain(o) \in Wired /\ Closing \in Wired /\ wire \in Seq(Wired) /\ frame \in Frame
      /\ sent \in Seq(Frame) /\ whole \in -1 .. 2
  BY PlainTyped DEF FramesTyped, TypeOK, Clocking
<1>3. CASE IsLast(t)
  <2>1. /\ Put(<<Plain(o), Closing>>)
        /\ sent' = Append(sent, frame)
        /\ whole' = IF whole < 2 THEN whole + 1 ELSE 2
        /\ frame' = None
    BY <1>3 DEF PutCounted
  <2>2. <<Plain(o), Closing>> \in Seq(Wired)
    BY <1>2
  <2>3. wire' \in Seq(Wired)
    BY <1>2, <2>1, <2>2, PutTyped
  <2>4. sent' \in Seq(Frame)
    BY <1>2, <2>1
  <2>5. whole' \in -1 .. 2
    BY <1>2, <2>1
  <2>6. tx' \in Sender /\ Clocking' /\ Inside(tx')
    BY <1>1, <1>3 DEF Clocking
  <2> QED
    BY <2>1, <2>3, <2>4, <2>5, <2>6
    DEF FramesTyped, TypeOK, PutCounted, faultVars, ReadsInside, Inside
<1>4. CASE ~IsLast(t)
  <2>1. Put(<<Plain(o)>>) /\ UNCHANGED <<sent, whole, frame>>
    BY <1>4 DEF PutCounted
  <2>2. <<Plain(o)>> \in Seq(Wired)
    BY <1>2
  <2>3. wire' \in Seq(Wired)
    BY <1>2, <2>1, <2>2, PutTyped
  <2>4. tx' \in Sender /\ Clocking' /\ Inside(tx')
    BY <1>1, <1>2, <2>1 DEF Clocking
  <2> QED
    BY <2>1, <2>3, <2>4
    DEF FramesTyped, TypeOK, PutCounted, faultVars, ReadsInside, Inside
<1> QED
  BY <1>3, <1>4

\* What is fetched is an octet of the block, and the pointer moves on by one.
LEMMA FetchedTyped ==
  ASSUME CrcTyped, FramesTyped, tx.send_size > 0, tx.send_slip_escape = NoEscape
  PROVE  /\ Value \in Octet
         /\ Fetched \in Sender
         /\ Fetched.send_size = tx.send_size /\ Fetched.send_slip_escape = NoEscape
         /\ Fetched.ptr + Fetched.send_size <= Len(Fetched.block) + 2
<1>1. /\ tx \in Sender /\ tx.send_size \in Nat /\ tx.ptr \in Nat \ {0}
      /\ tx.block \in Seq(Octet) /\ tx.send_crc \in Word
  BY DEF FramesTyped, TypeOK, Sender
<1>2. Len(tx.block) \in Nat
  BY <1>1
<1>3. tx.ptr + tx.send_size <= Len(tx.block) + 1
  BY DEF FramesTyped, ReadsInside
<1>4. tx.ptr \in 1 .. Len(tx.block)
  BY <1>1, <1>2, <1>3
<1>5. Value \in Octet
  BY <1>1, <1>4 DEF Value
<1>6. CalcCrc(Value, tx.send_crc) \in Word
  BY <1>1, <1>5 DEF CrcTyped
<1>7. tx.ptr + 1 \in Nat \ {0}
  BY <1>1
<1>8. /\ Fetched \in Sender /\ Fetched.ptr = tx.ptr + 1 /\ Fetched.block = tx.block
      /\ Fetched.send_size = tx.send_size /\ Fetched.send_slip_escape = NoEscape
  BY <1>1, <1>6, <1>7 DEF Fetched, Sender
<1>9. (tx.ptr + 1) + tx.send_size <= Len(tx.block) + 2
  BY <1>1, <1>2, <1>3
<1> QED
  BY <1>5, <1>8, <1>9

LEMMA PutEscapedTyped ==
  ASSUME CrcTyped, FramesTyped, PutEscaped
  PROVE  FramesTyped'
<1> DEFINE t == [tx EXCEPT !.send_slip_escape = NoEscape]
           o == tx.send_slip_escape
<1>1. tx \in Sender /\ tx.send_size > 0 /\ o # NoEscape /\ PutCounted(t, o)
  BY DEF FramesTyped, TypeOK, PutEscaped
<1>2. o \in Octet
  BY <1>1 DEF Sender, SLIP_ESCAPE_FRAME, SLIP_ESCAPE_ESCAPE, Octet
<1>3. /\ t \in Sender /\ t.send_size = tx.send_size /\ t.send_slip_escape = NoEscape
      /\ t.ptr = tx.ptr /\ t.block = tx.block
  BY <1>1 DEF Sender
<1>4. tx.ptr + tx.send_size <= Len(tx.block) + 2
  BY <1>1 DEF FramesTyped, ReadsInside
<1> HIDE DEF t, o
<1> QED
  BY <1>1, <1>2, <1>3, <1>4, PutCountedTyped

LEMMA PutPlainTyped ==
  ASSUME CrcTyped, FramesTyped, PutPlain
  PROVE  FramesTyped'
<1>1. tx.send_size > 0 /\ tx.send_slip_escape = NoEscape /\ PutCounted(Fetched, Value)
  BY DEF PutPlain
<1> QED
  BY <1>1, FetchedTyped, PutCountedTyped

LEMMA PutEscapeTyped ==
  ASSUME CrcTyped, FramesTyped, PutEscape
  PROVE  FramesTyped'
<1> DEFINE o == IF Value = SLIP_FRAME THEN SLIP_ESCAPE_FRAME ELSE SLIP_ESCAPE_ESCAPE
           t == [Fetched EXCEPT !.send_slip_escape = o]
<1>1. /\ tx.send_size > 0 /\ tx.send_slip_escape = NoEscape
      /\ Put(<<Plain(SLIP_ESCAPE)>>)
      /\ tx' = t
      /\ UNCHANGED <<frame, rx, sent, accepted, position, whole, faultVars>>
  BY DEF PutEscape
<1>2. /\ Fetched \in Sender
      /\ Fetched.send_size = tx.send_size
      /\ Fetched.ptr + Fetched.send_size <= Len(Fetched.block) + 2
  BY <1>1, FetchedTyped
<1>3. o \in {SLIP_ESCAPE_FRAME, SLIP_ESCAPE_ESCAPE} /\ o # NoEscape
  BY DEF SLIP_ESCAPE_FRAME, SLIP_ESCAPE_ESCAPE, NoEscape
<1> HIDE DEF o
<1>4. /\ t \in Sender /\ t.send_size = Fetched.send_size /\ t.ptr = Fetched.ptr
      /\ t.block = Fetched.block /\ t.send_slip_escape = o
  BY <1>2, <1>3 DEF Sender
<1>5. Inside(t)
  <2> HIDE DEF t
  <2> QED
    BY <1>2, <1>3, <1>4 DEF Inside
<1>6. SLIP_ESCAPE \in Octet /\ wire \in Seq(Wired) /\ sent \in Seq(Frame) /\ frame \in Frame
  BY <1>1 DEF SLIP_ESCAPE, Octet, FramesTyped, TypeOK, Clocking
<1>7. wire' \in Seq(Wired)
  <2>1. <<Plain(SLIP_ESCAPE)>> \in Seq(Wired)
    BY <1>6, PlainTyped
  <2> QED
    BY <1>1, <1>6, <2>1, PutTyped
<1> HIDE DEF t
<1> QED
  BY <1>1, <1>4, <1>5, <1>6, <1>7
  DEF FramesTyped, TypeOK, Clocking, ReadsInside, Inside, faultVars

\* A transmission that is set to send n octets of a block.
LEMMA SendAt ==
  ASSUME NEW t \in Sender, NEW b \in Seq(Octet), NEW i \in Nat \ {0}, NEW n \in Nat
  PROVE  [t EXCEPT !.block = b, !.ptr = i, !.send_size = n] \in Sender
BY DEF Sender

LEMMA StartFrameTyped ==
  ASSUME FramesTyped, NEW f \in Frame, StartFrame(f)
  PROVE  FramesTyped'
<1>1. /\ Put(<<Plain(SLIP_FRAME)>>) /\ tx' = Setup(f) /\ frame' = f
      /\ UNCHANGED <<rx, sent, accepted, position, whole, faultVars>>
  BY DEF StartFrame
<1>2. f \in AnyFrame /\ f.payload \in Seq(Octet)
  BY FrameAssumption DEF AnyFrame
<1>3. Header(f) \in Seq(Octet) /\ Len(Header(f)) = 4
  BY <1>2, HeaderTyped
<1>4. 1 \in Nat \ {0} /\ 4 \in Nat /\ 65535 \in Word
  BY DEF Word
<1>5. /\ Setup(f) \in Sender
      /\ Setup(f).send_size = 4 /\ Setup(f).ptr = 1 /\ Setup(f).block = Header(f)
  <2>1. tx \in Sender
    BY DEF FramesTyped, TypeOK
  <2> DEFINE h == Header(f)
             p == f.payload
             w == 65535
             i == 1
             n == 4
             t == [tx EXCEPT !.block = h, !.ptr = i, !.send_size = n]
             u == [t EXCEPT !.next = p, !.need_send_crc = TRUE, !.send_crc = w]
  <2>2. h \in Seq(Octet) /\ p \in Seq(Octet) /\ w \in Word /\ i \in Nat \ {0} /\ n \in Nat
    BY <1>2, <1>3, <1>4
  <2>3. Setup(f) = u
    BY DEF Setup
  <2> HIDE DEF h, p, w, i, n
  <2>4. t \in Sender /\ t.send_size = n /\ t.ptr = i /\ t.block = h
    <3>1. t \in Sender
      BY <2>1, <2>2, SendAt
    <3>2. t.send_size = n /\ t.ptr = i /\ t.block = h
      BY <2>1 DEF Sender
    <3> QED
      BY <3>1, <3>2
  <2> HIDE DEF t
  <2>5. u \in Sender /\ u.send_size = n /\ u.ptr = i /\ u.block = h
    BY <2>2, <2>4 DEF Sender
  <2> QED
    BY <2>3, <2>5 DEF h, i, n
<1>6. Inside(Setup(f))
  <2>1. Len(Setup(f).block) = 4
    BY <1>3, <1>5
  <2>2. 1 + 4 <= 4 + IF Setup(f).send_slip_escape = NoEscape THEN 1 ELSE 2
    OBVIOUS
  <2> QED
    BY <1>5, <2>1, <2>2 DEF Inside
<1>7. wire' \in Seq(Wired)
  <2>1. SLIP_FRAME \in Octet /\ wire \in Seq(Wired) /\ sent \in Seq(Frame)
    BY DEF SLIP_FRAME, Octet, FramesTyped, TypeOK
  <2>2. <<Plain(SLIP_FRAME)>> \in Seq(Wired)
    BY <2>1, PlainTyped
  <2> QED
    BY <1>1, <2>1, <2>2, PutTyped
<1> QED
  BY <1>1, <1>5, <1>6, <1>7
  DEF FramesTyped, TypeOK, Clocking, ReadsInside, Inside, faultVars

\* An escape left by the frame that is dropped stays, and reads nothing.
LEMMA DropTyped ==
  ASSUME FramesTyped, Drop
  PROVE  FramesTyped'
<1>1. /\ tx' = [Idle EXCEPT !.send_slip_escape = tx.send_slip_escape]
      /\ tx.send_slip_escape \in {NoEscape, SLIP_ESCAPE_FRAME, SLIP_ESCAPE_ESCAPE}
      /\ frame' = None /\ whole' = 0
      /\ UNCHANGED <<wire, rx, sent, accepted, position, noise>>
  BY DEF Drop, FramesTyped, TypeOK, Sender
<1>2. tx' \in Sender /\ tx'.send_size = 0
  BY <1>1, IdleTyped DEF Sender
<1>3. drops' \in 0 .. MaxDrops
  BY BoundAssumption DEF Drop, FramesTyped, TypeOK
<1> QED
  <2>1. TypeOK'
    BY <1>1, <1>2, <1>3 DEF FramesTyped, TypeOK
  <2>2. ~(tx'.send_size > 0)
    BY <1>2
  <2> QED
    BY <2>1, <2>2 DEF FramesTyped, Clocking, ReadsInside


-----------------------------------------------------------------------------
(* The line and the receiver.                                              *)

\* The line loses or damages an octet.
LEMMA DisturbTyped ==
  ASSUME FramesTyped, Disturb
  PROVE  FramesTyped'
<1> DEFINE n == Len(wire) - 1
           B(i) == [wire[i + 1] EXCEPT !.whole = FALSE]
           behind == [i \in 1 .. n |-> B(i)]
<1>1. wire \in Seq(Wired) /\ wire # <<>>
  BY DEF FramesTyped, TypeOK, Disturb
<1>2. n \in Nat
  BY <1>1
<1>3. \A w \in Wired : [w EXCEPT !.whole = FALSE] \in Wired
  BY DEF Wired
<1>4. behind \in Seq(Wired)
  <2> SUFFICES ASSUME NEW i \in 1 .. n PROVE B(i) \in Wired
    BY <1>2, SeqDef
  <2>1. i + 1 \in 1 .. Len(wire)
    BY <1>1
  <2>2. wire[i + 1] \in Wired
    BY <1>1, <2>1
  <2> QED
    BY <1>3, <2>2
<1>5. /\ \/ wire' = behind
         \/ \E o \in Noise \ {Head(wire).octet} :
              wire' = <<[Head(wire) EXCEPT !.octet = o, !.whole = FALSE]>> \o behind
      /\ noise < MaxNoise /\ noise' = noise + 1
      /\ whole' = IF tx.send_size > 0 THEN -1 ELSE 0
      /\ UNCHANGED <<tx, frame, rx, sent, accepted, position, drops>>
  BY DEF Disturb
<1> HIDE DEF behind
<1>6. wire' \in Seq(Wired)
  <2>1. ASSUME NEW o \in Noise,
               wire' = <<[Head(wire) EXCEPT !.octet = o, !.whole = FALSE]>> \o behind
        PROVE  wire' \in Seq(Wired)
    <3>1. Head(wire) \in Wired /\ o \in Octet
      BY <1>1, StrayAssumption
    <3>2. [Head(wire) EXCEPT !.octet = o, !.whole = FALSE] \in Wired
      BY <3>1 DEF Wired
    <3>3. <<[Head(wire) EXCEPT !.octet = o, !.whole = FALSE]>> \in Seq(Wired)
      BY <3>2
    <3> QED
      BY <1>4, <2>1, <3>3, ConcatProperties
  <2> QED
    BY <1>4, <1>5, <2>1
<1>7. noise' \in 0 .. MaxNoise
  <2>1. noise \in 0 .. MaxNoise /\ MaxNoise \in Nat
    BY BoundAssumption DEF FramesTyped, TypeOK
  <2>2. noise < MaxNoise /\ noise' = noise + 1
    BY <1>5
  <2> QED
    BY <2>1, <2>2
<1>8. whole' \in -1 .. 2
  <2>1. whole' = -1 \/ whole' = 0
    BY <1>5
  <2> QED
    BY <2>1
<1> QED
  BY <1>5, <1>6, <1>7, <1>8 DEF FramesTyped, TypeOK, Clocking, ReadsInside

\* The receiver, and the length of what it has stored.
Receives(r) ==
  r \in Receiver
  /\ Len(r.payload) = IF r.receive_index < 0 THEN 0 ELSE r.receive_index

\* A value is stored in the header or in the buffer, never outside them.
LEMMA StoredTyped ==
  ASSUME FramesTyped, wire # <<>>, NEW r, Receives(r), NEW v \in Octet
  PROVE  Receives(Stored(r, v))
<1> DEFINE k == Head(wire).number
           i == r.receive_index
<1>1. k \in Nat
  <2>1. Head(wire) \in Wired
    BY DEF FramesTyped, TypeOK
  <2> QED
    BY <2>1 DEF Wired
<1>2. /\ r \in Receiver /\ i \in -4 .. ReceiveLength /\ r.header \in [0 .. 3 -> Octet]
      /\ r.payload \in Seq(Octet)
      /\ Len(r.payload) = IF i < 0 THEN 0 ELSE i
  BY DEF Receives, Receiver
<1>3. ReceiveLength \in Nat
  BY ReceiveLengthAssumption
<1> HIDE DEF k
<1>4. CASE i < 0
  <2> DEFINE h == [r.header EXCEPT ![i + 4] = v]
  <2>1. h \in [0 .. 3 -> Octet]
    BY <1>2
  <2>2. i + 1 \in -4 .. ReceiveLength /\ (i + 1 < 0 \/ i + 1 = 0)
    BY <1>2, <1>3, <1>4
  <2>3. Stored(r, v) = [r EXCEPT !.receive_index = i + 1, !.number = k, !.header = h]
    BY <1>4 DEF Stored, k
  <2> HIDE DEF h
  <2>4. /\ Stored(r, v) \in Receiver
        /\ Stored(r, v).receive_index = i + 1 /\ Stored(r, v).payload = r.payload
    BY <1>1, <1>2, <2>1, <2>2, <2>3 DEF Receiver
  <2> QED
    BY <1>2, <1>4, <2>2, <2>4 DEF Receives
<1>5. CASE i \in 0 .. ReceiveLength - 1
  <2> DEFINE p == Append(r.payload, v)
  <2>1. p \in Seq(Octet) /\ Len(p) = i + 1
    BY <1>2, <1>5
  <2>2. i + 1 \in -4 .. ReceiveLength /\ ~(i + 1 < 0)
    BY <1>2, <1>3, <1>5
  <2>3. Stored(r, v) = [r EXCEPT !.receive_index = i + 1, !.number = k, !.payload = p]
    BY <1>2, <1>5 DEF Stored, k
  <2> HIDE DEF p
  <2>4. /\ Stored(r, v) \in Receiver
        /\ Stored(r, v).receive_index = i + 1 /\ Stored(r, v).payload = p
    BY <1>1, <1>2, <2>1, <2>2, <2>3 DEF Receiver
  <2> QED
    BY <2>1, <2>2, <2>4 DEF Receives
<1>6. CASE ~(i < 0) /\ i \notin 0 .. ReceiveLength - 1
  BY <1>6 DEF Stored
<1> QED
  BY <1>4, <1>5, <1>6

\* The checks of a frame that is accepted keep its payload inside the buffer.
LEMMA DecodedTyped ==
  ASSUME NEW r, Receives(r), r.receive_index >= 0, Passes(r)
  PROVE  Decoded(r.header, Payload(r)) \in AnyFrame
<1> DEFINE h == r.header
           n == Length(h)
<1>1. /\ h \in [0 .. 3 -> Octet] /\ r.payload \in Seq(Octet)
      /\ r.receive_index \in Int /\ Len(r.payload) = r.receive_index
  BY ReceiveLengthAssumption DEF Receives, Receiver
<1>2. h[0] \in Octet /\ h[1] \in Octet /\ h[2] \in Octet
  BY <1>1
<1>3. n \in Nat
  <2>1. \A a, b \in Octet : a \div 16 + 16 * b \in Nat
    BY DEF Octet
  <2> QED
    BY <1>2, <2>1 DEF Length
<1>4. n <= Len(r.payload)
  <2>1. r.receive_index = n + 2 \/ r.receive_index = n
    BY DEF Passes
  <2> HIDE DEF n
  <2> QED
    BY <1>1, <1>3, <2>1
<1> HIDE DEF n
<1>5. Payload(r) \in Seq(Octet)
  <2>1. Payload(r) = SubSeq(r.payload, 1, n)
    BY DEF Payload, n
  <2>2. \A i \in 1 .. n : r.payload[i] \in Octet
    BY <1>1, <1>3, <1>4
  <2> QED
    BY <1>1, <1>3, <1>4, <2>1, <2>2, SubSeqProperties
<1>6. \A a \in Octet : /\ a \div 128 \in {0, 1} /\ (a \div 8) % 8 \in 0 .. 7
                       /\ a % 8 \in 0 .. 7 /\ a % 16 \in 0 .. 15
  BY DEF Octet
<1> QED
  BY <1>2, <1>5, <1>6 DEF Decoded, AnyFrame

\* What a step of the receiver has to show: the rest is the sender's.
LEMMA ReceivingTyped ==
  ASSUME FramesTyped, Receiving, Receives(rx'), accepted' \in Seq(AnyFrame), position' \in Nat
  PROVE  FramesTyped'
<1>1. wire' \in Seq(Wired) /\ UNCHANGED <<tx, frame, sent, whole, drops, noise>>
  BY DEF FramesTyped, TypeOK, Receiving, faultVars
<1> QED
  BY <1>1 DEF FramesTyped, TypeOK, Clocking, ReadsInside, Receives

LEMMA ReceiveTyped ==
  ASSUME FramesTyped, Receive
  PROVE  FramesTyped'
<1>1. /\ wire \in Seq(Wired) /\ wire # <<>> /\ Receiving
      /\ Receives(rx) /\ accepted \in Seq(AnyFrame) /\ position \in Nat
  BY DEF FramesTyped, TypeOK, Receives, Receive, Receiving, ReceiveEscaped, ReceiveEscape,
         ReceivePlain, Accept, Restart
<1>2. Head(wire) \in Wired /\ Head(wire).octet \in Octet
  <2>1. Head(wire) \in Wired
    BY <1>1
  <2> QED
    BY <2>1 DEF Wired
<1>3. ASSUME NEW b \in BOOLEAN
      PROVE  Receives([rx EXCEPT !.receive_slip_escape = b])
  BY <1>1 DEF Receives, Receiver
<1>4. Receives(Restarted(rx))
  <2>1. /\ <<>> \in Seq(Octet) /\ Len(<<>>) = 0
        /\ -4 \in -4 .. ReceiveLength
    BY ReceiveLengthAssumption
  <2>2. /\ Restarted(rx) \in Receiver
        /\ Restarted(rx).receive_index = -4 /\ Restarted(rx).payload = <<>>
    BY <1>1, <2>1 DEF Restarted, Receives, Receiver
  <2> QED
    BY <2>1, <2>2 DEF Receives
<1>5. CASE ReceiveEscaped
  <2>1. \A v \in Deslipped(Head(wire).octet) : v \in Octet
    BY StrayAssumption DEF Deslipped, SLIP_FRAME, SLIP_ESCAPE, Octet
  <2>2. PICK v \in Octet : rx' = Stored([rx EXCEPT !.receive_slip_escape = FALSE], v)
    BY <1>5, <2>1 DEF ReceiveEscaped
  <2>3. Receives(rx')
    BY <1>1, <1>3, <2>2, StoredTyped
  <2> QED
    BY <1>1, <1>5, <2>3, ReceivingTyped DEF ReceiveEscaped
<1>6. CASE ReceiveEscape
  BY <1>1, <1>3, <1>6, ReceivingTyped DEF ReceiveEscape
<1>7. CASE ReceivePlain
  <2>1. Receives(rx')
    BY <1>1, <1>2, <1>7, StoredTyped DEF ReceivePlain
  <2> QED
    BY <1>1, <1>7, <2>1, ReceivingTyped DEF ReceivePlain
<1>8. CASE Accept
  <2>1. Decoded(rx.header, Payload(rx)) \in AnyFrame
    BY <1>1, <1>8, DecodedTyped DEF Accept
  <2>2. accepted' \in Seq(AnyFrame)
    BY <1>1, <1>8, <2>1 DEF Accept
  <2>3. position' \in Nat
    BY <1>1, <1>8 DEF Accept, Receives, Receiver
  <2> QED
    BY <1>1, <1>4, <1>8, <2>2, <2>3, ReceivingTyped DEF Accept
<1>9. CASE Restart
  BY <1>1, <1>4, <1>9, ReceivingTyped DEF Restart
<1> QED
  BY <1>5, <1>6, <1>7, <1>8, <1>9 DEF Receive

LEMMA InitFrames == Init => FramesTyped
<1> SUFFICES ASSUME Init PROVE FramesTyped
  OBVIOUS
<1>1. /\ <<>> \in Seq(Octet) /\ <<>> \in Seq(Wired) /\ <<>> \in Seq(Frame)
      /\ <<>> \in Seq(AnyFrame) /\ Len(<<>>) = 0
      /\ -4 \in -4 .. ReceiveLength /\ 1 \in -1 .. 2
  BY ReceiveLengthAssumption
<1>2. tx \in Sender /\ ~(tx.send_size > 0)
  BY IdleTyped DEF Init
<1>3. [i \in 0 .. 3 |-> 0] \in [0 .. 3 -> Octet]
  BY DEF Octet
<1>4. rx \in Receiver /\ rx.receive_index = -4 /\ rx.payload = <<>>
  BY <1>1, <1>3 DEF Init, Receiver
<1>5. TypeOK
  BY <1>1, <1>2, <1>4, BoundAssumption DEF Init, TypeOK
<1> QED
  BY <1>2, <1>5 DEF FramesTyped, Clocking, ReadsInside

LEMMA StepFrames ==
  ASSUME CrcTyped, FramesTyped, [Next]_vars
  PROVE  FramesTyped'
<1>1. CASE UNCHANGED vars
  BY <1>1 DEF vars, faultVars, FramesTyped, TypeOK, Clocking, ReadsInside
<1>2. CASE Send
  BY <1>1, <1>2, StartFrameTyped, PutEscapedTyped, PutPlainTyped, PutEscapeTyped
  DEF Send, SendNothing
<1> QED
  BY <1>1, <1>2, DropTyped, DisturbTyped, ReceiveTyped DEF Next

\* Every reachable state of the UART is well typed: what the receiver stores stays
\* inside its header and its buffer, an escape or a damaged octet included, and the
\* payload it accepts is in the buffer (the receive loop of ubcsp_poll,
\* ubcsp_recevied_packet).
THEOREM FrameTypeCorrect ==
  ASSUME CrcTyped
  PROVE  Spec => []TypeOK
<1>1. FramesTyped /\ [Next]_vars => FramesTyped'
  BY StepFrames
<1>2. FramesTyped => TypeOK
  BY DEF FramesTyped
<1> QED
  BY <1>1, <1>2, InitFrames, PTL DEF Spec

\* send_ptr is read only inside its block: an escape left by a frame that was dropped
\* makes it lag, and never run ahead (the transmit part of ubcsp_poll).
THEOREM ReadsInsideHolds ==
  ASSUME CrcTyped
  PROVE  Spec => []ReadsInside
<1>1. FramesTyped /\ [Next]_vars => FramesTyped'
  BY StepFrames
<1>2. FramesTyped => ReadsInside
  BY DEF FramesTyped
<1> QED
  BY <1>1, <1>2, InitFrames, PTL DEF Spec

=============================================================================
