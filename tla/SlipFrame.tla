----------------------------- MODULE SlipFrame -----------------------------
(***************************************************************************)
(* The octets of a frame: how ubcsp_poll clocks one out (SLIP escapes,     *)
(* header, payload, CRC), how it takes octets in, and the checks of        *)
(* ubcsp_recevied_packet.  One direction of the UART, with octets that are *)
(* damaged or lost and transmissions that are dropped in the middle.       *)
(*                                                                         *)
(* One step of the sender is one poll, one step of the receiver one octet. *)
(* Which frame is sent when, and what an accepted one does, is in Ubcsp.   *)
(*                                                                         *)
(* A Name_slip is Name with a slip a programmer could make, as in Ubcsp.   *)
(***************************************************************************)
EXTENDS Integers, Sequences, SequencesExt

CONSTANTS
  Frame,             \* frames to be sent, [reliable, ack, seq, channel, payload]
  CalcCrc(_, _),     \* ubcsp_calc_crc(ch, crc)
  CrcReverse(_),     \* ubcsp_crc_reverse(crc)
  ReceiveLength,     \* receive_packet->length, 512 in the code
  Stray,             \* octets that may lie beside the table ubcsp_deslip
  Noise,             \* octets that a damaged octet may turn into
  WireMax,           \* bound: octets on the wire
  MaxFrames,         \* bound: frames sent to their end
  MaxDrops,          \* bound: transmissions dropped
  MaxNoise           \* bound: octets damaged or lost

Octet == 0 .. 255
Word == 0 .. 256 * 256 - 1

\* Every frame that a header can describe: what a receiver may make of octets.
AnyFrame ==
  [reliable : {0, 1}, ack : 0 .. 7, seq : 0 .. 7, channel : 0 .. 15, payload : Seq(Octet)]

\* The session refuses an operation without payload, so a frame without one is
\* an acknowledgement, whose payload pointer is null.
ASSUME FrameAssumption == Frame \subseteq AnyFrame
ASSUME ReceiveLengthAssumption == ReceiveLength \in Nat \ {0, 1}
ASSUME StrayAssumption == Stray \subseteq Octet /\ Stray # {} /\ Noise \subseteq Octet
ASSUME BoundAssumption ==
  WireMax \in Nat /\ MaxFrames \in Nat /\ MaxDrops \in Nat /\ MaxNoise \in Nat

SLIP_FRAME == 192          \* 0xC0
SLIP_ESCAPE == 219         \* 0xDB
SLIP_ESCAPE_FRAME == 220   \* 0xDC
SLIP_ESCAPE_ESCAPE == 221  \* 0xDD

VARIABLES
  tx,        \* the sender's part of ubcsp_config
  frame,     \* the frame the sender is clocking out
  wire,      \* octets on their way, oldest first
  rx,        \* the receiver's part of ubcsp_config, and its two buffers
  sent,      \* history: frames sent to their end, the closing SLIP_FRAME put
  accepted,  \* history: frames that passed the receiver's checks
  position,  \* history: the number in sent of the last one accepted
  whole,     \* history: frames sent whole since the last fault, up to 2
  drops,     \* transmissions dropped
  noise      \* octets damaged or lost

faultVars == <<drops, noise>>
vars == <<tx, frame, wire, rx, sent, accepted, position, whole, faultVars>>

\* A null pointer for a block, and no escape octet pending.
None == <<>>
NoEscape == 0

Sender ==
  [block : Seq(Octet),   \* what send_ptr points into
   ptr : Nat \ {0},      \* send_ptr, as the number of the next octet of block
   send_size : Nat,
   next : Seq(Octet),    \* next_send_ptr and next_send_size
   need_send_crc : BOOLEAN,
   send_crc : Word,
   send_slip_escape : {NoEscape, SLIP_ESCAPE_FRAME, SLIP_ESCAPE_ESCAPE}]

Receiver ==
  [receive_index : -4 .. ReceiveLength,
   receive_slip_escape : BOOLEAN,
   header : [0 .. 3 -> Octet],
   payload : Seq(Octet),
   number : Nat]         \* history: the frame of the last octet stored

\* An octet on the wire.  The tags are history: the number its frame has in sent
\* if it is sent to its end, and whether it is the SLIP_FRAME that closes a frame
\* sent whole behind one sent whole.
Wired == [octet : Octet, number : Nat, whole : BOOLEAN]

TypeOK ==
  /\ tx \in Sender
  /\ frame \in Frame \cup {None}
  /\ wire \in Seq(Wired)
  /\ rx \in Receiver
  /\ Len(rx.payload) = IF rx.receive_index < 0 THEN 0 ELSE rx.receive_index
  /\ sent \in Seq(Frame)
  /\ accepted \in Seq(AnyFrame)
  /\ position \in Nat
  /\ whole \in -1 .. 2
  /\ drops \in 0 .. MaxDrops
  /\ noise \in 0 .. MaxNoise

-----------------------------------------------------------------------------
(* The header and the CRC.                                                 *)

Checksum(a, b, c) == 255 - ((a + b + c) % 256)

\* ubcsp_send_header; the two constant headers have the same form.
Header(f) ==
  LET length == Len(f.payload)
      h0 == 128 * f.reliable + 64 + 8 * f.ack + f.seq
      h1 == f.channel + 16 * (length % 16)
      h2 == (length \div 16) % 256
  IN  <<h0, h1, h2, Checksum(h0, h1, h2)>>

\* The fields that ubcsp_recevied_packet takes from a header.
HasCrc(h) == (h[0] \div 64) % 2 = 1
Length(h) == h[1] \div 16 + 16 * h[2]
Decoded(h, p) ==
  [reliable |-> h[0] \div 128, ack |-> (h[0] \div 8) % 8, seq |-> h[0] % 8,
   channel |-> h[1] % 16, payload |-> p]

Crc(s) == CrcReverse(FoldLeft(LAMBDA crc, ch : CalcCrc(ch, crc), 65535, s))

-----------------------------------------------------------------------------
(* The sender: the transmit part of ubcsp_poll.                            *)

Idle ==
  [block |-> None, ptr |-> 1, send_size |-> 0, next |-> None,
   need_send_crc |-> FALSE, send_crc |-> 65535, send_slip_escape |-> NoEscape]

Plain(o) == [octet |-> o, number |-> Len(sent) + 1, whole |-> FALSE]
Closing == [Plain(SLIP_FRAME) EXCEPT !.whole = whole >= 1]

Put(os) ==
  /\ Len(wire) + Len(os) <= WireMax
  /\ wire' = wire \o os

\* ubcsp_setup_packet, which leaves an escape of a dropped frame pending.
Setup(f) ==
  [tx EXCEPT !.block = Header(f), !.ptr = 1, !.send_size = 4, !.next = f.payload,
             !.need_send_crc = TRUE, !.send_crc = 65535]

StartFrame(f) ==
  /\ tx.send_size = 0
  /\ Len(sent) < MaxFrames
  /\ Put(<<Plain(SLIP_FRAME)>>)
  /\ tx' = Setup(f)
  /\ frame' = f
  /\ UNCHANGED <<rx, sent, accepted, position, whole, faultVars>>

\* Nothing to send.
SendNothing == tx.send_size = 0 /\ UNCHANGED vars

\* The end of a block: the next block, or the CRC, or nothing more.
Block(t, b) == [t EXCEPT !.block = b, !.ptr = 1, !.send_size = Len(b), !.next = None]

AfterBlock(t) ==
  CASE t.next # None -> Block(t, t.next)
    [] t.next = None /\ t.need_send_crc ->
         LET crc == CrcReverse(t.send_crc)
         IN  [Block(t, <<crc \div 256, crc % 256>>) EXCEPT !.need_send_crc = FALSE]
    [] OTHER -> Idle

\* An octet was put with nothing of it pending: t counts it.
Counted(t) ==
  IF t.send_size > 1 THEN [t EXCEPT !.send_size = @ - 1] ELSE AfterBlock(t)

\* It was the last one: the closing SLIP_FRAME follows in the same poll.
IsLast(t) == t.send_size = 1 /\ t.next = None /\ ~t.need_send_crc

\* Octet o is put, and closes its frame if it is the last.
PutCounted(t, o) ==
  /\ tx' = Counted(t)
  /\ IF IsLast(t)
     THEN /\ Put(<<Plain(o), Closing>>)
          /\ sent' = Append(sent, frame)
          /\ whole' = IF whole < 2 THEN whole + 1 ELSE 2
          /\ frame' = None
     ELSE /\ Put(<<Plain(o)>>)
          /\ UNCHANGED <<sent, whole, frame>>
  /\ UNCHANGED <<rx, accepted, position, faultVars>>

\* The second octet of an escape does not count as one of its block.
PutEscaped_slip ==
  /\ tx.send_size > 0
  /\ tx.send_slip_escape # NoEscape
  /\ Put(<<Plain(tx.send_slip_escape)>>)
  /\ tx' = [tx EXCEPT !.send_slip_escape = NoEscape]
  /\ UNCHANGED <<frame, rx, sent, accepted, position, whole, faultVars>>

\* The second octet of an escape, of this frame or of one dropped before it.
PutEscaped ==
  /\ tx.send_size > 0
  /\ tx.send_slip_escape # NoEscape
  /\ PutCounted([tx EXCEPT !.send_slip_escape = NoEscape], tx.send_slip_escape)

\* The next octet of the block, as it is or as the first octet of an escape.
Value == tx.block[tx.ptr]
Fetched == [tx EXCEPT !.ptr = @ + 1, !.send_crc = CalcCrc(Value, @)]

PutPlain ==
  /\ tx.send_size > 0
  /\ tx.send_slip_escape = NoEscape
  /\ Value \notin {SLIP_FRAME, SLIP_ESCAPE}
  /\ PutCounted(Fetched, Value)

PutEscape ==
  /\ tx.send_size > 0
  /\ tx.send_slip_escape = NoEscape
  /\ Value \in {SLIP_FRAME, SLIP_ESCAPE}
  /\ Put(<<Plain(SLIP_ESCAPE)>>)
  /\ tx' = [Fetched EXCEPT !.send_slip_escape =
              IF Value = SLIP_FRAME THEN SLIP_ESCAPE_FRAME ELSE SLIP_ESCAPE_ESCAPE]
  /\ UNCHANGED <<frame, rx, sent, accepted, position, whole, faultVars>>

\* ubcsp_send_packet, ubcsp_initialize or a CONF RESP drops the transmission.
\* The escape octet that may be pending is not dropped with it.
Drop ==
  /\ tx.send_size > 0
  /\ drops < MaxDrops
  /\ tx' = [Idle EXCEPT !.send_slip_escape = tx.send_slip_escape]
  /\ frame' = None
  /\ drops' = drops + 1
  /\ whole' = 0
  /\ UNCHANGED <<wire, rx, sent, accepted, position, noise>>

-----------------------------------------------------------------------------
(* The line loses an octet, as put_uart does when its write fails, or      *)
(* damages it.  Only octets behind it can close a frame that is whole.     *)

Disturb ==
  /\ wire # <<>>
  /\ noise < MaxNoise
  /\ LET behind == [i \in 1 .. Len(wire) - 1 |-> [wire[i + 1] EXCEPT !.whole = FALSE]]
     IN  \/ wire' = behind
         \/ \E o \in Noise \ {Head(wire).octet} :
              wire' = <<[Head(wire) EXCEPT !.octet = o, !.whole = FALSE]>> \o behind
  /\ noise' = noise + 1
  /\ whole' = IF tx.send_size > 0 THEN -1 ELSE 0
  /\ UNCHANGED <<tx, frame, rx, sent, accepted, position, drops>>

-----------------------------------------------------------------------------
(* The receiver: the receive loop of ubcsp_poll, an octet at a time.       *)

Receiving ==
  /\ wire # <<>>
  /\ wire' = Tail(wire)
  /\ UNCHANGED <<tx, frame, sent, whole, faultVars>>

\* The payload is not compared with the length of the buffer.
Stored_slip(r, v) ==
  LET counted == [r EXCEPT !.receive_index = @ + 1, !.number = Head(wire).number]
  IN  IF r.receive_index < 0
      THEN [counted EXCEPT !.header[r.receive_index + 4] = v]
      ELSE [counted EXCEPT !.payload = Append(@, v)]

\* Where a value goes: into the header, into the payload, or nowhere.
Stored(r, v) ==
  LET counted == [r EXCEPT !.receive_index = @ + 1, !.number = Head(wire).number]
  IN  CASE r.receive_index < 0 -> [counted EXCEPT !.header[r.receive_index + 4] = v]
        [] r.receive_index \in 0 .. ReceiveLength - 1 -> [counted EXCEPT !.payload = Append(@, v)]
        [] OTHER -> r

\* ubcsp_deslip: an octet that no escape can have is looked up beside the table.
Deslipped(o) ==
  CASE o = SLIP_ESCAPE_FRAME -> {SLIP_FRAME}
    [] o = SLIP_ESCAPE_ESCAPE -> {SLIP_ESCAPE}
    [] OTHER -> Stray

ReceiveEscaped ==
  /\ Receiving
  /\ rx.receive_slip_escape
  /\ \E v \in Deslipped(Head(wire).octet) :
       rx' = Stored([rx EXCEPT !.receive_slip_escape = FALSE], v)
  /\ UNCHANGED <<accepted, position>>

ReceiveEscape ==
  /\ Receiving
  /\ ~rx.receive_slip_escape
  /\ Head(wire).octet = SLIP_ESCAPE
  /\ rx' = [rx EXCEPT !.receive_slip_escape = TRUE]
  /\ UNCHANGED <<accepted, position>>

ReceivePlain ==
  /\ Receiving
  /\ ~rx.receive_slip_escape
  /\ Head(wire).octet \notin {SLIP_FRAME, SLIP_ESCAPE}
  /\ rx' = Stored(rx, Head(wire).octet)
  /\ UNCHANGED <<accepted, position>>

\* Without UBCSP_CRC: the two octets are there and not compared.
Passes_slip(r) ==
  LET h == r.header
  IN  /\ (h[0] + h[1] + h[2] + h[3]) % 256 = 255
      /\ r.receive_index = IF HasCrc(h) THEN Length(h) + 2 ELSE Length(h)

\* The checks of ubcsp_recevied_packet: header checksum, length, CRC.
Passes(r) ==
  LET h == r.header
      n == Length(h)
      crc == Crc(<<h[0], h[1], h[2], h[3]>> \o SubSeq(r.payload, 1, n))
  IN  /\ (h[0] + h[1] + h[2] + h[3]) % 256 = 255
      /\ r.receive_index = IF HasCrc(h) THEN n + 2 ELSE n
      /\ HasCrc(h) =>
           /\ r.payload[n + 1] = crc \div 256
           /\ r.payload[n + 2] = crc % 256

Payload(r) == SubSeq(r.payload, 1, Length(r.header))

\* The next frame is set up only behind one that failed no check.
Restarted_slip(r) ==
  IF r.receive_index < 0 \/ Passes(r)
  THEN [r EXCEPT !.receive_index = -4, !.payload = <<>>] ELSE r

\* Set up for the next frame.
Restarted(r) == [r EXCEPT !.receive_index = -4, !.payload = <<>>]

\* A SLIP_FRAME with a whole header before it that passes the checks.
Accept ==
  /\ Receiving
  /\ ~rx.receive_slip_escape
  /\ Head(wire).octet = SLIP_FRAME
  /\ rx.receive_index >= 0
  /\ Passes(rx)
  /\ accepted' = Append(accepted, Decoded(rx.header, Payload(rx)))
  /\ position' = rx.number
  /\ rx' = Restarted(rx)

\* A SLIP_FRAME that opens a frame, or closes one that fails a check or never
\* had a whole header.
Restart ==
  /\ Receiving
  /\ ~rx.receive_slip_escape
  /\ Head(wire).octet = SLIP_FRAME
  /\ ~(rx.receive_index >= 0 /\ Passes(rx))
  /\ rx' = Restarted(rx)
  /\ UNCHANGED <<accepted, position>>

-----------------------------------------------------------------------------

Init ==
  /\ tx = Idle
  /\ frame = None
  /\ wire = <<>>
  /\ rx = [receive_index |-> -4, receive_slip_escape |-> FALSE,
           header |-> [i \in 0 .. 3 |-> 0], payload |-> <<>>, number |-> 0]
  /\ sent = <<>>
  /\ accepted = <<>>
  /\ position = 0
  /\ whole = 1
  /\ drops = 0
  /\ noise = 0

Send == (\E f \in Frame : StartFrame(f)) \/ PutEscaped \/ PutPlain \/ PutEscape \/ SendNothing

Receive == ReceiveEscaped \/ ReceiveEscape \/ ReceivePlain \/ Accept \/ Restart

Next == Send \/ Drop \/ Disturb \/ Receive

Spec == Init /\ [][Next]_vars

-----------------------------------------------------------------------------

\* send_ptr is never read behind its block.  The escape left from a dropped frame
\* is put and counted as an octet of the next: send_ptr then lags behind send_size,
\* and never runs ahead of it.
ReadsInside ==
  tx.send_size > 0
    => tx.ptr + tx.send_size
         <= Len(tx.block) + IF tx.send_slip_escape = NoEscape THEN 1 ELSE 2

\* Whatever is dropped, lost or damaged, a frame that is accepted is as it was sent,
\* and none is accepted twice or out of order: the escape left from a dropped
\* frame, two frames run together and a frame cut short all fail a check.
Line == INSTANCE FrameLine
AcceptedAsSent == Line!Spec

\* A fault costs no more than the frames it touches and the one behind: a frame
\* sent whole, behind a frame sent whole, is accepted.  Only one whose payload and
\* CRC do not fit the receive buffer is refused, each time it is sent.
WholeIsAccepted ==
  [][wire # <<>> /\ wire' = Tail(wire) /\ noise' = noise /\ Head(wire).whole
       => LET k == Head(wire).number
          IN  position' = k <=> Len(sent[k].payload) + 2 <= ReceiveLength]_vars

=============================================================================
