----------------------------- MODULE HciBridge -----------------------------
(***************************************************************************)
(* The TCP bridge of the daemon: the server thread, which accepts one      *)
(* client at a time and takes its messages apart, the poll thread, which   *)
(* sends it the events of the chip, and the clients.  TCP may deliver a    *)
(* message in pieces, clients leave when they like, and the daemon may end *)
(* and be started again by procd.                                          *)
(***************************************************************************)
EXTENDS InternalCommands, Sequences, FiniteSetsExt

CONSTANTS
  Client,        \* connections, each used once
  SetupReturns,  \* what setupServerSocket may return; it has no return at its end
  SendBuffer,    \* pieces that fit between a send and the client's read
  MaxMessages,   \* bound: messages of each client, a function on Client
  MaxEvents,     \* bound: events of the chip
  MaxDeaths      \* bound: ends of the daemon

PG_OK == 0

ASSUME SetupAssumption == SetupReturns \subseteq Int /\ PG_OK \in SetupReturns
\* A connection is none of the other things a descriptor, or a thread, may have.
ASSUME ClientAssumption ==
  Client \cap {"none", "free", "uart", "socket", "listener"} = {}
ASSUME BoundAssumption ==
  SendBuffer \in Nat /\ MaxMessages \in [Client -> Nat] /\ MaxEvents \in Nat /\ MaxDeaths \in Nat

VARIABLES
  server,     \* where the server thread is: gone when "failed" or "ended"
  table,      \* the daemon's open descriptors
  sListenFd,
  sClientFd,
  s,          \* the server thread's own copy of the descriptor of its client
  read,       \* pieces of the message the session has read
  sending,    \* sending[t]: what thread t is blocked in send with
  conn,       \* conn[c]: the connection of c as the daemon's side has it
  left,       \* left[c]: the client has closed its side
  reset,      \* reset[c]: the connection was reset
  coming,     \* coming[c]: pieces from c on their way
  arrived,    \* arrived[c]: pieces that recv may return
  stream,     \* stream[c]: history, pieces sent to c
  taken,      \* taken[c]: how many of them c has read
  written,    \* written[c]: messages c has sent
  handled,    \* handled[c]: history, messages of c that were handled
  events,     \* events of the chip so far
  deaths      \* ends of the daemon so far

daemonVars == <<server, table, sListenFd, sClientFd, s, read, sending>>
clientVars == <<conn, left, reset, coming, arrived, stream, taken, written, handled>>
vars == <<daemonVars, clientVars, events, deaths, keyVars>>

\* The UART, the listening socket and a client: a fourth open descriptor is a leak.
Descriptor == 3 .. 5
Thread == {"poll", "session"}

\* A piece of what client c sends: two of the length, the type, two of the rest.
Piece == [client : Client, message : Nat, part : 1 .. 5]

\* A half of what the daemon sends: an event, or a reply.
Half == [from : Thread, number : Nat, half : 1 .. 2]

NoClient == "none"
Idle == [to |-> NoClient, rest |-> <<>>]

TypeOK ==
  /\ KeyTypeOK
  /\ server \in {"off", "accept", "accepted", "assigned", "length", "type", "payload",
                 "handle", "close", "socket", "listen", "failed", "ended"}
  /\ table \in [Descriptor -> Client \cup {"free", "uart", "socket", "listener"}]
  /\ sListenFd \in {0} \cup Descriptor
  /\ sClientFd \in {0} \cup Descriptor
  /\ s \in {-1, 0} \cup Descriptor
  /\ read \in Seq(Piece)
  /\ sending \in [Thread -> [to : Client \cup {NoClient}, rest : Seq(Half)]]
  /\ conn \in [Client -> {"none", "backlog", "open", "closed"}]
  /\ left \in [Client -> BOOLEAN]
  /\ reset \in [Client -> BOOLEAN]
  /\ coming \in [Client -> Seq(Piece)]
  /\ arrived \in [Client -> Seq(Piece)]
  /\ stream \in [Client -> Seq(Half)]
  /\ taken \in [Client -> Nat]
  /\ \A c \in Client : Len(stream[c]) - taken[c] \in 0 .. SendBuffer
  /\ written \in [Client -> Nat]
  /\ handled \in [Client -> Seq(Seq(Piece))]
  /\ events \in 0 .. MaxEvents
  /\ deaths \in 0 .. MaxDeaths

Free == {d \in Descriptor : table[d] = "free"}
LowestFree == IF Free = {} THEN -1 ELSE Min(Free)

-----------------------------------------------------------------------------
(* The clients and TCP.                                                    *)

Connect(c) ==
  /\ conn[c] = "none"
  /\ \E d \in Descriptor : table[d] = "listener"
  /\ conn' = [conn EXCEPT ![c] = "backlog"]
  /\ UNCHANGED <<daemonVars, left, reset, coming, arrived, stream, taken, written, handled,
                 events, deaths, keyVars>>

Write(c) ==
  /\ conn[c] \in {"backlog", "open"}
  /\ ~left[c] /\ ~reset[c]
  /\ written[c] < MaxMessages[c]
  /\ written' = [written EXCEPT ![c] = @ + 1]
  /\ coming' = [coming EXCEPT ![c] =
       @ \o [i \in 1 .. 5 |-> [client |-> c, message |-> written'[c], part |-> i]]]
  /\ UNCHANGED <<daemonVars, conn, left, reset, arrived, stream, taken, handled,
                 events, deaths, keyVars>>

Arrive(c) ==
  /\ coming[c] # <<>>
  /\ conn[c] = "open" /\ ~reset[c]
  /\ arrived' = [arrived EXCEPT ![c] = Append(@, Head(coming[c]))]
  /\ coming' = [coming EXCEPT ![c] = Tail(@)]
  /\ UNCHANGED <<daemonVars, conn, left, reset, stream, taken, written, handled,
                 events, deaths, keyVars>>

\* A thread in send keeps the connection that it sends on.
InUse(c) == conn[c] \in {"backlog", "open"} \/ \E t \in Thread : sending[t].to = c

Read(c) ==
  /\ ~left[c]
  /\ InUse(c)
  /\ taken[c] < Len(stream[c])
  /\ taken' = [taken EXCEPT ![c] = Len(stream[c])]
  /\ UNCHANGED <<daemonVars, conn, left, reset, coming, arrived, stream, written, handled,
                 events, deaths, keyVars>>

\* The client closes its socket; with something unread, that resets the connection.
Leave(c) ==
  /\ InUse(c)
  /\ ~left[c]
  /\ left' = [left EXCEPT ![c] = TRUE]
  /\ reset' = [reset EXCEPT ![c] = @ \/ taken[c] < Len(stream[c])]
  /\ UNCHANGED <<daemonVars, conn, coming, arrived, stream, taken, written, handled,
                 events, deaths, keyVars>>

-----------------------------------------------------------------------------
(* The end of the daemon, by SIGPIPE or SIGSEGV, and its start: main,      *)
(* after hci_open_device, and hci_bridge_start.                            *)

\* The connections are closed; what was not read is dropped.
Closed(cs) ==
  /\ conn' = [c \in Client |-> IF c \in cs THEN "closed" ELSE conn[c]]
  /\ coming' = [c \in Client |-> IF c \in cs THEN <<>> ELSE coming[c]]
  /\ arrived' = [c \in Client |-> IF c \in cs THEN <<>> ELSE arrived[c]]

Die ==
  /\ deaths < MaxDeaths
  /\ deaths' = deaths + 1
  /\ server' = "off"
  /\ table' = [d \in Descriptor |-> "free"]
  /\ sListenFd' = 0 /\ sClientFd' = 0 /\ s' = 0
  /\ read' = <<>>
  /\ sending' = [t \in Thread |-> Idle]
  /\ Closed({c \in Client : conn[c] # "none"})
  /\ kp' = NULL /\ secret' = NULL /\ given' = {}
  /\ UNCHANGED <<left, reset, stream, taken, written, handled, events, keys>>

\* setupServerSocket from bind on: descriptor d listens and a value is returned,
\* which may be PG_OK, or bind or listen fails.  The socket stays open, and the
\* server thread ends unless the value is PG_OK.
BindAndListen(d, opened) ==
  \/ /\ table' = [opened EXCEPT ![d] = "listener"]
     /\ \E v \in SetupReturns : server' = IF v = PG_OK THEN "accept" ELSE "ended"
  \/ /\ table' = [opened EXCEPT ![d] = "socket"]
     /\ server' = "failed"

Start ==
  /\ server = "off"
  /\ BindAndListen(4, [table EXCEPT ![3] = "uart"])
  /\ sListenFd' = 4
  /\ UNCHANGED <<sClientFd, s, read, sending, clientVars, events, deaths, keyVars>>

-----------------------------------------------------------------------------
(* hci_bridge_send.  The descriptor is looked up when send is entered; what *)
(* does not fit is sent when the client has read, with no lock held.       *)

Halves(t, n) == <<[from |-> t, number |-> n, half |-> 1], [from |-> t, number |-> n, half |-> 2]>>

Room(c) == SendBuffer - (Len(stream[c]) - taken[c])

\* What there is no room for is dropped.
Put_slip(t, c, rest) ==
  /\ stream' = [stream EXCEPT ![c] = @ \o SubSeq(rest, 1, Min({Room(c), Len(rest)}))]
  /\ sending' = [sending EXCEPT ![t] = Idle]
  /\ UNCHANGED reset

\* As much of rest as there is room for; thread t stays in send with the others.
Put(t, c, rest) ==
  LET n == Min({Room(c), Len(rest)})
  IN  /\ stream' = [stream EXCEPT ![c] = @ \o SubSeq(rest, 1, n)]
      /\ sending' = [sending EXCEPT ![t] =
           IF n = Len(rest) THEN Idle ELSE [to |-> c, rest |-> SubSeq(rest, n + 1, Len(rest))]]
      /\ UNCHANGED reset

\* To a client that has left: taken by the kernel, and answered with a reset.
ToNobody(t, c) ==
  /\ \E r \in BOOLEAN : reset' = [reset EXCEPT ![c] = r]
  /\ sending' = [sending EXCEPT ![t] = Idle]
  /\ UNCHANGED stream

\* Nothing is sent: no client yet, a closed descriptor, or a connection reset.
NotSent(t) ==
  /\ sending' = [sending EXCEPT ![t] = Idle]
  /\ UNCHANGED <<stream, reset>>

Target == IF sClientFd = 0 THEN "free" ELSE table[sClientFd]

Sent(t, c, rest) ==
  \/ c \in Client /\ ~left[c] /\ ~reset[c] /\ Put(t, c, rest)
  \/ c \in Client /\ left[c] /\ ~reset[c] /\ ToNobody(t, c)
  \/ (c = "free" \/ (c \in Client /\ reset[c])) /\ NotSent(t)

\* On a connection that was reset, or on what is no connection.
BrokenPipe(c) == c # "free" /\ (c \in Client => reset[c])

\* Thread t goes on, or is woken by a reset with part of its message sent.
Resume(t) ==
  LET c == sending[t].to
  IN  /\ c # NoClient
      /\ reset[c] \/ Room(c) > 0
      /\ Sent(t, c, sending[t].rest)
      /\ UNCHANGED <<server, table, sListenFd, sClientFd, s, read, conn, left, coming, arrived,
                     taken, written, handled, events, deaths, keyVars>>

\* Nothing of the message was sent before the reset.
ResumeBroken(t) ==
  /\ sending[t].to # NoClient
  /\ reset[sending[t].to]
  /\ Len(sending[t].rest) = 2
  /\ Die

-----------------------------------------------------------------------------
(* The poll thread.                                                        *)

Polling == server # "off" /\ sending["poll"] = Idle

\* A packet of the chip: hci_do_poll sends it.
SendEvent ==
  /\ Polling
  /\ events < MaxEvents
  /\ events' = events + 1
  /\ Sent("poll", Target, Halves("poll", events'))
  /\ UNCHANGED <<server, table, sListenFd, sClientFd, s, read, conn, left, coming, arrived,
                 taken, written, handled, deaths, keyVars>>

SendEventBroken == Polling /\ events < MaxEvents /\ BrokenPipe(Target) /\ Die

\* Nothing was received.
PollNothing == Polling /\ UNCHANGED vars

-----------------------------------------------------------------------------
(* The server thread: hci_bridge_start_internal.                           *)

At(pc) == server = pc /\ sending["session"] = Idle

Accept ==
  /\ At("accept")
  /\ \E c \in Client :
       /\ conn[c] = "backlog"
       /\ conn' = [conn EXCEPT ![c] = "open"]
       /\ table' = [table EXCEPT ![LowestFree] = c]
  /\ s' = LowestFree
  /\ server' = "accepted"
  /\ UNCHANGED <<sListenFd, sClientFd, read, sending, left, reset, coming, arrived, stream,
                 taken, written, handled, events, deaths, keyVars>>

\* accept returns -1, and the thread ends; the socket goes on to listen.
AcceptFails ==
  /\ At("accept")
  /\ s' = -1
  /\ server' = "failed"
  /\ UNCHANGED <<table, sListenFd, sClientFd, read, sending, clientVars, events, deaths, keyVars>>

AssignClient ==
  /\ At("accepted")
  /\ sClientFd' = s
  /\ server' = "assigned"
  /\ UNCHANGED <<table, sListenFd, s, read, sending, clientVars, events, deaths, keyVars>>

\* The listening socket is left open.
CloseListener_slip ==
  /\ At("assigned")
  /\ server' = "length"
  /\ UNCHANGED <<table, sListenFd, sClientFd, s, read, sending, clientVars, events, deaths, keyVars>>

\* Clients that were connected and not accepted are reset.
CloseListener ==
  /\ At("assigned")
  /\ table' = [table EXCEPT ![sListenFd] = "free"]
  /\ Closed({c \in Client : conn[c] = "backlog"})
  /\ server' = "length"
  /\ UNCHANGED <<sListenFd, sClientFd, s, read, sending, left, reset, stream,
                 taken, written, handled, events, deaths, keyVars>>

\* The socket of the client is not closed.
CloseClient_slip ==
  /\ At("close")
  /\ read' = <<>>
  /\ server' = "socket"
  /\ UNCHANGED <<table, sListenFd, sClientFd, s, sending, clientVars, events, deaths, keyVars>>

CloseClient ==
  /\ At("close")
  /\ Closed({table[s]})
  /\ table' = [table EXCEPT ![s] = "free"]
  /\ read' = <<>>
  /\ server' = "socket"
  /\ UNCHANGED <<sListenFd, sClientFd, s, sending, left, reset, stream,
                 taken, written, handled, events, deaths, keyVars>>

\* setupServerSocket: socket.
Socket ==
  /\ At("socket")
  /\ sListenFd' = LowestFree
  /\ table' = [table EXCEPT ![LowestFree] = "socket"]
  /\ server' = "listen"
  /\ UNCHANGED <<sClientFd, s, read, sending, clientVars, events, deaths, keyVars>>

Listen ==
  /\ At("listen")
  /\ BindAndListen(sListenFd, table)
  /\ UNCHANGED <<sListenFd, sClientFd, s, read, sending, clientVars, events, deaths, keyVars>>

-----------------------------------------------------------------------------
(* The session.  recv takes what has arrived, up to what is asked for.     *)

Peer == table[s]

\* recv would return 0, or -1 after a reset.
AtEnd(c) == arrived[c] = <<>> /\ (reset[c] \/ (left[c] /\ coming[c] = <<>>))

\* Up to n pieces are read, and the session goes on with next if all n were there.
Recv(n, next) ==
  LET got == Min({n, Len(arrived[Peer])})
  IN  /\ got > 0
      /\ read' = read \o SubSeq(arrived[Peer], 1, got)
      /\ arrived' = [arrived EXCEPT ![Peer] = SubSeq(@, got + 1, Len(@))]
      /\ server' = IF got = n THEN next ELSE "close"
      /\ UNCHANGED <<table, sListenFd, sClientFd, s, sending, conn, left, reset, coming, stream,
                     taken, written, handled, events, deaths, keyVars>>

GoOn(pc) ==
  /\ server' = pc
  /\ UNCHANGED <<table, sListenFd, sClientFd, s, read, sending, clientVars,
                 events, deaths, keyVars>>

\* A length above 4096 ends the session; one of 1 or less ends it at the payload.
RecvLength == At("length") /\ \E next \in {"type", "close"} : Recv(2, next)

\* The length of -1 is compared as an unsigned number and passes; what is used
\* then is the length before.  A reset is reported once.
RecvLengthEnd ==
  /\ At("length")
  /\ AtEnd(Peer)
  /\ \E pc \in {"close"} \cup (IF reset[Peer] THEN {"type"} ELSE {}) : GoOn(pc)

\* A client that has closed its side is waited for.
RecvType_slip ==
  /\ At("type")
  /\ Recv(1, "payload")

RecvType ==
  /\ At("type")
  /\ \/ Recv(1, "payload")
     \/ AtEnd(Peer) /\ GoOn("close")

\* Part of the payload is taken for the whole.
RecvPayload_slip ==
  /\ At("payload")
  /\ \/ Recv(Min({2, Len(arrived[Peer])}), "handle")
     \/ AtEnd(Peer) /\ GoOn("close")

RecvPayload ==
  /\ At("payload")
  /\ \/ Recv(2, "handle")
     \/ AtEnd(Peer) /\ GoOn("close")

Handled ==
  /\ handled' = [handled EXCEPT ![Peer] = Append(@, read)]
  /\ read' = <<>>
  /\ server' = "length"
  /\ UNCHANGED <<table, sListenFd, sClientFd, s, conn, left, coming, arrived, taken, written,
                 events, deaths>>

\* An operation is queued (HciPoll), or the type is none that is known.
HandleOp ==
  /\ At("handle")
  /\ Handled
  /\ UNCHANGED <<sending, reset, stream, keyVars>>

HandleCommand ==
  /\ At("handle")
  /\ \E command \in Command, form \in Form, reply \in Reply :
       handleInternalCommand(command, form, reply)
  /\ Handled
  /\ Sent("session", Target, Halves("session", Len(handled'[Peer])))

\* A reply to a client that is gone, or a command that reads what is not there.
HandleCommandBroken ==
  /\ At("handle")
  /\ \/ BrokenPipe(Target)
     \/ \E command \in Command, form \in Form : MayCrash(command, form)
  /\ Die

Serve ==
  \/ Accept \/ AssignClient \/ CloseListener \/ CloseClient \/ Socket \/ Listen
  \/ RecvLength \/ RecvLengthEnd \/ RecvType \/ RecvPayload
  \/ HandleOp \/ HandleCommand \/ HandleCommandBroken

-----------------------------------------------------------------------------

Init ==
  /\ KeyInit
  /\ server = "off"
  /\ table = [d \in Descriptor |-> "free"]
  /\ sListenFd = 0 /\ sClientFd = 0 /\ s = 0
  /\ read = <<>>
  /\ sending = [t \in Thread |-> Idle]
  /\ conn = [c \in Client |-> "none"]
  /\ left = [c \in Client |-> FALSE]
  /\ reset = [c \in Client |-> FALSE]
  /\ coming = [c \in Client |-> <<>>]
  /\ arrived = [c \in Client |-> <<>>]
  /\ stream = [c \in Client |-> <<>>]
  /\ taken = [c \in Client |-> 0]
  /\ written = [c \in Client |-> 0]
  /\ handled = [c \in Client |-> <<>>]
  /\ events = 0
  /\ deaths = 0

Next ==
  \/ \E c \in Client : Connect(c) \/ Write(c) \/ Arrive(c) \/ Read(c) \/ Leave(c)
  \/ \E t \in Thread : Resume(t) \/ ResumeBroken(t)
  \/ SendEvent \/ SendEventBroken \/ PollNothing
  \/ Serve \/ AcceptFails
  \/ Start

Spec == Init /\ [][Next]_vars

\* The threads run, TCP delivers, and procd starts the daemon again.
Fairness ==
  /\ WF_vars(Serve)
  /\ WF_vars(Start)
  /\ \A t \in Thread : WF_vars(Resume(t))
  /\ \A c \in Client : WF_vars(Arrive(c))

FairSpec == Spec /\ Fairness

-----------------------------------------------------------------------------

\* sClientFd keeps its value when the session ends and its descriptor is closed,
\* and the poll thread goes on sending to it.  That reaches nobody, or the next
\* client: the number is never given to the socket that listens.
ClientFdIsClient == sClientFd # 0 => Target \in Client \cup {"free"}

\* What is queued for the chip, or carried out, are the first messages of each
\* client, whole and in order, however TCP splits them: a message that does not
\* come in one piece where recv asks for it ends the session.
WholeMessages ==
  \A c \in Client : \A n \in 1 .. Len(handled[c]) :
    handled[c][n] = [i \in 1 .. 5 |-> [client |-> c, message |-> n, part |-> i]]

\* Again and again the daemon listens, or serves a client that has not left: no
\* split message, reset connection or end of the daemon keeps later clients out.
\* It ends for good when accept, bind or listen fails, and also when
\* setupServerSocket, which has no return at its end, returns something else than
\* PG_OK: then this is false.
ServesAgain ==
  []<>(server \in {"accept", "failed"} \/ \E c \in Client : conn[c] = "open" /\ ~left[c])

OtherHalf(h) == [h EXCEPT !.half = 3 - @]

\* "Puts the data on a socket using the following encoding", the comment before
\* hci_bridge_send: a client finds whole events and whole replies.  But two threads
\* send, and socketLock is never taken.
EncodingKept ==
  \A c \in Client : \A i \in 1 .. Len(stream[c]) :
    stream[c][i].half = 2 => i > 1 /\ stream[c][i - 1] = OtherHalf(stream[c][i])

\* h comes after g, if the same thread sends them.
Follows(h, g) == g.number < h.number \/ (g.number = h.number /\ g.half < h.half)

\* What a client is sent is complete, though a send may have to wait and the other
\* thread gets in between, and the descriptor may be closed meanwhile: each thread's
\* halves come once and in order, none without its other half, unless that is just
\* what the thread waits to send, or the client has left or is disconnected.
SendsComplete ==
  \A c \in Client :
    /\ \A i, j \in 1 .. Len(stream[c]) :
         i < j /\ stream[c][i].from = stream[c][j].from => Follows(stream[c][j], stream[c][i])
    /\ \A h \in Range(stream[c]) :
         \/ OtherHalf(h) \in Range(stream[c])
         \/ /\ h.half = 1
            /\ \/ sending[h.from] = [to |-> c, rest |-> <<OtherHalf(h)>>]
               \/ left[c] \/ conn[c] = "closed"

=============================================================================
