---------------------------- MODULE MCSlipFrame ----------------------------
(* SlipFrame for TLC: the CRC of the code, and a few frames.               *)
EXTENDS SlipFrame, UbcspCrc

Acknowledgement == [reliable |-> 0, ack |-> 3, seq |-> 0, channel |-> 0, payload |-> <<>>]
Packet(payload) == [reliable |-> 1, ack |-> 0, seq |-> 1, channel |-> 5, payload |-> payload]

\* Both octets of the payload are escaped; the payload just fits, and does not.
ThreeFrames == {Acknowledgement, Packet(<<SLIP_FRAME, SLIP_ESCAPE>>), Packet(<<1, 2, 3>>)}

\* Every octet is taken into the CRC as CRC-CCITT takes it in: from no bits, from all,
\* and from each bit alone; every entry of crc_table is looked up in both halves.
OctetIsCcitt ==
  \A ch \in 0 .. 255, crc \in {0, 65535} \cup {2^k : k \in 0 .. 15} :
    ubcsp_crc_reverse(ubcsp_calc_crc(ch, crc))
      = Divided[ubcsp_crc_reverse(crc) ^^ (256 * Mirrored(ch, 8)), 8]

\* The CRC that a frame must carry to be accepted is CRC-CCITT over its header
\* and payload, as the other implementation of BCSP at the end of the line
\* computes it, and would be of any other frame, as every octet is taken in
\* right: the table and the reversal of ubcsp.c amount to that.
CrcIsCcitt ==
  [][accepted' # accepted
       => LET h == rx.header
              n == Len(rx.payload) - 2
              crc == Ccitt[<<h[0], h[1], h[2], h[3]>> \o SubSeq(rx.payload, 1, n)]
          IN  /\ OctetIsCcitt
              /\ rx.payload[n + 1] = crc \div 256
              /\ rx.payload[n + 2] = crc % 256]_vars

=============================================================================
