--------------------------- MODULE BridgeSession ---------------------------
(***************************************************************************)
(* Why the bridge keeps its descriptors and its messages, both ways: what  *)
(* the descriptors, the connections, the pieces of the clients' messages   *)
(* and the two threads in send have to do with each other in every state   *)
(* of HciBridge.  SessionInStep is inductive, together with TypeOK and     *)
(* SendsComplete.                                                          *)
(***************************************************************************)
EXTENDS HciBridge

\* The server thread listens; it listens no longer; it has a client.
Listening == {"accept", "accepted", "assigned"}
Deaf == {"length", "type", "payload", "handle", "close", "socket"}
Serving == {"accepted", "assigned", "length", "type", "payload", "handle", "close"}

\* The daemon opens and closes in an order in which the lowest free descriptor is
\* always the same: 3 for the UART, 4 to listen, 5 for the client.
DescriptorsInUse ==
  /\ server = "off"
       => /\ \A d \in Descriptor : table[d] = "free"
          /\ sListenFd = 0 /\ sClientFd = 0
  /\ server # "off"
       => /\ table[3] = "uart"
          /\ sListenFd = 4 /\ sClientFd \in {0, 5}
          /\ server \in Listening => table[4] = "listener"
          /\ server \in Deaf => table[4] = "free"
          /\ server = "listen" => table[4] = "socket"
          /\ IF server \in Serving THEN s = 5 /\ table[5] \in Client ELSE table[5] = "free"

\* The connection that is open is the one with a descriptor; those not accepted
\* are in the backlog of a socket that listens.
ConnectionsHeld ==
  \A c \in Client :
    /\ conn[c] = "open" <=> table[5] = c
    /\ conn[c] = "backlog" => table[4] = "listener"

\* What the session has read tells where it is.  Past a length of -1 nothing was
\* read, and nothing will be.
ReadSoFar ==
  /\ server \notin {"type", "payload", "handle", "close"} => read = <<>>
  /\ server = "type"
       => \/ Len(read) = 2
          \/ read = <<>> /\ reset[table[5]] /\ arrived[table[5]] = <<>>
  /\ server = "payload" => Len(read) = 3
  /\ server = "handle" => Len(read) = 5

\* Piece j of all that c writes: five to a message.
PieceOf(c, j) == [client |-> c, message |-> (j - 1) \div 5 + 1, part |-> ((j - 1) % 5) + 1]

\* The pieces of the message that is being read, if it is one of c.
InHand(c) == IF table[5] = c THEN read ELSE <<>>

\* What c has written and the daemon has not handled: in hand, arrived, coming.
Unhandled(c) == InHand(c) \o arrived[c] \o coming[c]

\* That is what follows the messages handled, in the order it was written, and as
\* long as the connection lasts nothing is missing.
PiecesFollow(c) ==
  /\ \A i \in 1 .. Len(Unhandled(c)) : Unhandled(c)[i] = PieceOf(c, 5 * Len(handled[c]) + i)
  /\ conn[c] # "closed" => 5 * Len(handled[c]) + Len(Unhandled(c)) = 5 * written[c]

PiecesInOrder == \A c \in Client : PiecesFollow(c)

\* The number of the last message that thread t has sent, or could have sent, to c.
LastNumber(t, c) == IF t = "poll" THEN events ELSE Len(handled[c])

\* A thread that is blocked in send has all of a message to send, or the second half
\* of it, and what it has sent before is in the stream.
BlockedInOrder(t) ==
  LET c == sending[t].to
      h == sending[t].rest[1]
  IN  c # NoClient =>
        /\ conn[c] # "none"
        /\ h.from = t /\ h.number \in 1 .. LastNumber(t, c)
        /\ \/ h.half = 1 /\ sending[t].rest = <<h, OtherHalf(h)>>
           \/ h.half = 2 /\ sending[t].rest = <<h>> /\ OtherHalf(h) \in Range(stream[c])
        /\ \A g \in Range(stream[c]) : g.from = t => Follows(h, g)

\* Only who has left is reset, and only who has connected is sent anything, up to
\* the last message.
SendsInOrder ==
  /\ \A t \in Thread : BlockedInOrder(t)
  /\ \A c \in Client :
       /\ reset[c] => left[c]
       /\ conn[c] = "none" => stream[c] = <<>>
       /\ \A h \in Range(stream[c]) : h.number <= LastNumber(h.from, c)

\* One client at a time, on descriptors that are given back, its pieces in order,
\* and what it is sent too: hci_bridge_start_internal and hci_bridge_send.
SessionInStep ==
  /\ DescriptorsInUse
  /\ ConnectionsHeld
  /\ ReadSoFar
  /\ PiecesInOrder
  /\ SendsInOrder

=============================================================================
