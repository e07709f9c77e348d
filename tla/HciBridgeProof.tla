--------------------------- MODULE HciBridgeProof ---------------------------
(***************************************************************************)
(* Theorems about HciBridge, for all clients, all numbers of messages,     *)
(* events, key pairs and ends of the daemon, every send buffer, and        *)
(* whatever setupServerSocket returns.                                     *)
(***************************************************************************)
EXTENDS BridgeSession, SequenceTheorems, TLAPS

\* A client is nothing else that a descriptor or a thread may have.
LEMMA ClientsApart == \A c \in Client : c \notin {"none", "free", "uart", "socket", "listener"}
BY ClientAssumption

\* The smaller of two numbers.
LEMMA MinOfTwo == \A a, b \in Int : Min({a, b}) = IF a <= b THEN a ELSE b
BY DEF Min

\* With the UART on 3 and nothing on 5, the lowest free descriptor is 4, or 5.
LEMMA LowestIs ==
  ASSUME table[3] # "free", table[5] = "free"
  PROVE  LowestFree = IF table[4] = "free" THEN 4 ELSE 5
<1>1. Descriptor = {3, 4, 5}
  BY DEF Descriptor
<1>2. CASE table[4] = "free"
  <2>1. Free = {4, 5}
    BY <1>1, <1>2 DEF Free
  <2> QED
    BY <1>2, <2>1, MinOfTwo DEF LowestFree
<1>3. CASE table[4] # "free"
  <2>1. Free = {5}
    BY <1>1, <1>3 DEF Free
  <2>2. Min({5}) = 5
    BY DEF Min
  <2> QED
    BY <1>3, <2>1, <2>2 DEF LowestFree
<1> QED
  BY <1>2, <1>3

-----------------------------------------------------------------------------
(* The types and the descriptors.                                          *)

\* TypeOK by what changes together: the daemon, the clients, the counters.
DaemonType ==
  /\ server \in {"off", "accept", "accepted", "assigned", "length", "type", "payload",
                 "handle", "close", "socket", "listen", "failed", "ended"}
  /\ table \in [Descriptor -> Client \cup {"free", "uart", "socket", "listener"}]
  /\ sListenFd \in {0} \cup Descriptor
  /\ sClientFd \in {0} \cup Descriptor
  /\ s \in {-1, 0} \cup Descriptor
  /\ read \in Seq(Piece)

PieceType ==
  /\ conn \in [Client -> {"none", "backlog", "open", "closed"}]
  /\ coming \in [Client -> Seq(Piece)]
  /\ arrived \in [Client -> Seq(Piece)]
  /\ written \in [Client -> Nat]
  /\ handled \in [Client -> Seq(Seq(Piece))]

SendType ==
  /\ sending \in [Thread -> [to : Client \cup {NoClient}, rest : Seq(Half)]]
  /\ left \in [Client -> BOOLEAN]
  /\ reset \in [Client -> BOOLEAN]
  /\ stream \in [Client -> Seq(Half)]
  /\ taken \in [Client -> Nat]
  /\ \A c \in Client : Len(stream[c]) - taken[c] \in 0 .. SendBuffer

LEMMA TypeParts ==
  TypeOK <=> /\ KeyTypeOK /\ DaemonType /\ PieceType /\ SendType
             /\ events \in 0 .. MaxEvents /\ deaths \in 0 .. MaxDeaths
BY DEF TypeOK, DaemonType, PieceType, SendType

\* The thread that sends nothing is typed.
LEMMA IdleType == Idle \in [to : Client \cup {NoClient}, rest : Seq(Half)]
BY DEF Idle

\* Two halves are what a send begins with.
LEMMA HalvesType ==
  ASSUME NEW t \in Thread, NEW n \in Nat
  PROVE  Halves(t, n) \in Seq(Half) /\ Len(Halves(t, n)) = 2
<1>1. /\ [from |-> t, number |-> n, half |-> 1] \in Half
      /\ [from |-> t, number |-> n, half |-> 2] \in Half
  BY DEF Half
<1> QED
  BY <1>1 DEF Halves

\* What fits of a message goes out, the rest stays.
LEMMA PutType ==
  ASSUME SendType, NEW t \in Thread, NEW c \in Client, NEW rest \in Seq(Half),
         Put(t, c, rest), taken' = taken, left' = left
  PROVE  SendType'
<1> DEFINE n == Min({Room(c), Len(rest)})
           fits == SubSeq(rest, 1, n)
           stays == SubSeq(rest, n + 1, Len(rest))
<1>1. /\ Room(c) \in Nat /\ Len(rest) \in Nat
      /\ Len(stream[c]) \in Nat /\ taken[c] \in Nat
      /\ Room(c) = SendBuffer - (Len(stream[c]) - taken[c])
      /\ Len(stream[c]) - taken[c] \in 0 .. SendBuffer
      /\ stream[c] \in Seq(Half)
  BY BoundAssumption DEF SendType, Room
<1>2. n \in Nat /\ n <= Room(c) /\ n <= Len(rest)
  BY <1>1, MinOfTwo
<1>3. /\ stream' = [stream EXCEPT ![c] = @ \o fits]
      /\ sending' = [sending EXCEPT ![t] =
                       IF n = Len(rest) THEN Idle ELSE [to |-> c, rest |-> stays]]
      /\ reset' = reset
  BY DEF Put
<1> HIDE DEF n
<1>4. \A i \in 1 .. Len(rest) : rest[i] \in Half
  BY ElementOfSeq
<1>5. fits \in Seq(Half) /\ Len(fits) = n
  BY <1>2, <1>4, SubSeqProperties
<1>6. stays \in Seq(Half)
  BY <1>2, <1>4, SubSeqProperties
<1> HIDE DEF fits, stays
<1>7. /\ stream[c] \o fits \in Seq(Half)
      /\ Len(stream[c] \o fits) = Len(stream[c]) + n
  BY <1>1, <1>5, ConcatProperties
<1>8. stream' \in [Client -> Seq(Half)]
  BY <1>3, <1>7 DEF SendType
<1>9. \A x \in Client : Len(stream'[x]) - taken[x] \in 0 .. SendBuffer
  <2> SUFFICES ASSUME NEW x \in Client
               PROVE  Len(stream'[x]) - taken[x] \in 0 .. SendBuffer
    OBVIOUS
  <2>1. CASE x = c
    <3>1. Len(stream'[x]) = Len(stream[c]) + n
      BY <1>3, <1>7, <2>1 DEF SendType
    <3>2. SendBuffer \in Nat
      BY BoundAssumption
    <3> QED
      BY <1>1, <1>2, <2>1, <3>1, <3>2, SMTT(30)
  <2>2. CASE x # c
    BY <1>3, <2>2 DEF SendType
  <2> QED
    BY <2>1, <2>2
<1>10. sending' \in [Thread -> [to : Client \cup {NoClient}, rest : Seq(Half)]]
  BY <1>3, <1>6, IdleType DEF SendType
<1> QED
  BY <1>3, <1>8, <1>9, <1>10 DEF SendType

\* So is whatever becomes of a message.
LEMMA SentType ==
  ASSUME SendType, NEW t \in Thread, NEW c, NEW rest \in Seq(Half),
         Sent(t, c, rest), taken' = taken, left' = left
  PROVE  SendType'
<1>1. CASE c \in Client /\ Put(t, c, rest)
  BY <1>1, PutType
<1>2. CASE c \in Client /\ ToNobody(t, c)
  BY <1>2, IdleType DEF ToNobody, SendType
<1>3. CASE NotSent(t)
  BY <1>3, IdleType DEF NotSent, SendType
<1> QED
  BY <1>1, <1>2, <1>3 DEF Sent

\* The end of the daemon.
LEMMA DieKeepsTypes ==
  ASSUME TypeOK, Die
  PROVE  TypeOK' /\ DescriptorsInUse'
<1>1. DaemonType'
  BY DEF Die, DaemonType
<1>2. PieceType'
  BY TypeParts DEF Die, Closed, PieceType
<1>3. SendType'
  BY TypeParts, IdleType DEF Die, SendType
<1>4. KeyTypeOK'
  BY TypeParts DEF Die, KeyTypeOK
<1>5. events' \in 0 .. MaxEvents /\ deaths' \in 0 .. MaxDeaths
  BY TypeParts, BoundAssumption DEF Die
<1>6. DescriptorsInUse'
  BY DEF Die, DescriptorsInUse
<1> QED
  BY <1>1, <1>2, <1>3, <1>4, <1>5, <1>6, TypeParts DEF TypeOK, DaemonType, PieceType, SendType

\* What a command does to the keys: nothing, give out the public key, generate the
\* key pair, or derive the secret.
LEMMA CommandDoes ==
  ASSUME NEW command, NEW form, NEW reply, handleInternalCommand(command, form, reply)
  PROVE  \/ UNCHANGED keyVars
         \/ given' = given \cup {KeysAt(kp)} /\ kp # NULL /\ UNCHANGED <<kp, secret, keys>>
         \/ kp = NULL /\ generateKeyPair /\ Generated(reply)
         \/ secret' \in deriveSecret /\ kp # NULL /\ UNCHANGED <<kp, given, keys>>
BY DEF handleInternalCommand, CreateKeyPair, GetPubKey, DeriveSecret, AesDecrypt,
       AesEncrypt, PublicDecrypt, InternalStatus, UnknownCommand

\* What a command leaves of the keys.
LEMMA CommandType ==
  ASSUME KeyTypeOK, NEW command \in Command, NEW form \in Form, NEW reply \in Reply,
         handleInternalCommand(command, form, reply)
  PROVE  KeyTypeOK'
<1>1. \/ UNCHANGED keyVars
      \/ given' = given \cup {KeysAt(kp)} /\ kp # NULL /\ UNCHANGED <<kp, secret, keys>>
      \/ generateKeyPair /\ Generated(reply)
      \/ secret' \in deriveSecret /\ kp # NULL /\ UNCHANGED <<kp, given, keys>>
  BY CommandDoes
<1>2. CASE UNCHANGED keyVars
  BY <1>2 DEF keyVars, KeyTypeOK
<1>3. CASE generateKeyPair /\ Generated(reply)
  <2>1. keys' \in 1 .. MaxKeys
    BY <1>3, MaxKeysAssumption DEF generateKeyPair, KeyTypeOK
  <2>2. kp' \in {keys', Freed} /\ given' \subseteq given \cup ({kp'} \ {Freed}) /\ secret' = secret
    BY <1>3 DEF generateKeyPair, Generated
  <2> QED
    BY <2>1, <2>2 DEF KeyTypeOK
<1>4. KeysAt(kp) \in {NULL, Garbage} \cup 1 .. MaxKeys /\ (kp # NULL => KeysAt(kp) # NULL)
  BY DEF KeyTypeOK, KeysAt, NULL, Freed, Garbage
<1>5. CASE given' = given \cup {KeysAt(kp)} /\ kp # NULL /\ UNCHANGED <<kp, secret, keys>>
  BY <1>4, <1>5 DEF KeyTypeOK
<1>6. CASE secret' \in deriveSecret /\ UNCHANGED <<kp, given, keys>>
  BY <1>4, <1>6 DEF deriveSecret, KeyTypeOK
<1> QED
  BY <1>1, <1>2, <1>3, <1>5, <1>6

\* The pieces that a client writes at once, as its message n.
MessageOf(c, n) == [i \in 1 .. 5 |-> [client |-> c, message |-> n, part |-> i]]

LEMMA MessageOfType ==
  ASSUME NEW c \in Client, NEW n \in Nat
  PROVE  /\ MessageOf(c, n) \in Seq(Piece)
         /\ Len(MessageOf(c, n)) = 5
         /\ \A i \in 1 .. 5 : MessageOf(c, n)[i] = [client |-> c, message |-> n, part |-> i]
<1> DEFINE q == MessageOf(c, n)
<1>1. q \in [1 .. 5 -> Piece] /\ DOMAIN q = 1 .. 5
  BY DEF Piece, MessageOf
<1>2. q \in Seq(Piece)
  BY <1>1, SeqDef
<1>3. Len(q) = 5
  BY <1>1, <1>2, LenProperties
<1> QED
  BY <1>2, <1>3 DEF MessageOf

\* What the clients and TCP do keeps the types.
LEMMA ClientKeepsTypes ==
  ASSUME TypeOK, DescriptorsInUse, NEW c \in Client,
         Connect(c) \/ Write(c) \/ Arrive(c) \/ Read(c) \/ Leave(c)
  PROVE  TypeOK' /\ DescriptorsInUse'
<1>1. KeyTypeOK /\ DaemonType /\ PieceType /\ SendType
  BY TypeParts
<1>2. UNCHANGED <<server, table, sListenFd, sClientFd, s, read, events, deaths, kp, secret, given, keys>>
  BY DEF Connect, Write, Arrive, Read, Leave, daemonVars, keyVars
<1>3. KeyTypeOK' /\ DaemonType' /\ events' \in 0 .. MaxEvents /\ deaths' \in 0 .. MaxDeaths
  BY <1>1, <1>2, TypeParts DEF KeyTypeOK, DaemonType
<1>4. DescriptorsInUse'
  BY <1>2 DEF DescriptorsInUse
<1>5. PieceType' /\ SendType'
  <2>1. CASE Connect(c)
    BY <1>1, <2>1 DEF Connect, daemonVars, PieceType, SendType
  <2>2. CASE Write(c)
    <3> DEFINE q == MessageOf(c, written'[c])
    <3>1. written' \in [Client -> Nat] /\ written'[c] \in Nat
      BY <1>1, <2>2 DEF Write, PieceType
    <3>2. q \in Seq(Piece)
      BY <3>1, MessageOfType
    <3>3. coming' = [coming EXCEPT ![c] = @ \o q]
      BY <2>2 DEF Write, MessageOf
    <3>4. coming[c] \in Seq(Piece)
      BY <1>1 DEF PieceType
    <3> HIDE DEF q
    <3>5. coming' \in [Client -> Seq(Piece)]
      BY <1>1, <3>2, <3>3, <3>4, ConcatProperties DEF PieceType
    <3> QED
      BY <1>1, <2>2, <3>1, <3>5 DEF Write, daemonVars, PieceType, SendType
  <2>3. CASE Arrive(c)
    <3>1. coming[c] \in Seq(Piece) /\ coming[c] # <<>> /\ arrived[c] \in Seq(Piece)
      BY <1>1, <2>3 DEF Arrive, PieceType
    <3>2. Head(coming[c]) \in Piece /\ Tail(coming[c]) \in Seq(Piece)
      BY <3>1, HeadTailProperties
    <3>3. Append(arrived[c], Head(coming[c])) \in Seq(Piece)
      BY <3>1, <3>2
    <3>4. /\ arrived' = [arrived EXCEPT ![c] = Append(arrived[c], Head(coming[c]))]
          /\ coming' = [coming EXCEPT ![c] = Tail(coming[c])]
      BY <2>3 DEF Arrive
    <3>5. arrived' \in [Client -> Seq(Piece)] /\ coming' \in [Client -> Seq(Piece)]
      BY <1>1, <3>2, <3>3, <3>4 DEF PieceType
    <3> QED
      BY <1>1, <2>3, <3>5 DEF Arrive, daemonVars, PieceType, SendType
  <2>4. CASE Read(c)
    <3>1. /\ taken' = [taken EXCEPT ![c] = Len(stream[c])]
          /\ UNCHANGED <<sending, left, reset, stream, conn, coming, arrived, written,
                         handled>>
      BY <2>4 DEF Read, daemonVars
    <3>2. \A x \in Client : Len(stream[x]) \in Nat
      BY <1>1 DEF SendType
    <3>3. taken' \in [Client -> Nat]
      BY <1>1, <3>1, <3>2 DEF SendType
    <3>4. \A x \in Client : Len(stream[x]) - taken'[x] \in 0 .. SendBuffer
      BY <1>1, <3>1, <3>2, BoundAssumption DEF SendType
    <3> QED
      BY <1>1, <3>1, <3>3, <3>4 DEF PieceType, SendType
  <2>5. CASE Leave(c)
    BY <1>1, <2>5 DEF Leave, daemonVars, PieceType, SendType
  <2> QED
    BY <2>1, <2>2, <2>3, <2>4, <2>5
<1> QED
  BY <1>3, <1>4, <1>5, TypeParts DEF TypeOK, KeyTypeOK, DaemonType, PieceType, SendType


\* The two threads in send keep them.
LEMMA SendsKeepTypes ==
  ASSUME TypeOK, DescriptorsInUse,
         \/ \E t \in Thread : Resume(t) \/ ResumeBroken(t)
         \/ SendEvent \/ SendEventBroken \/ PollNothing
  PROVE  TypeOK' /\ DescriptorsInUse'
<1>1. ASSUME NEW t \in Thread, Resume(t) PROVE TypeOK' /\ DescriptorsInUse'
  <2>1. sending[t].rest \in Seq(Half) /\ SendType
    BY TypeParts DEF SendType
  <2>2. SendType'
    BY <1>1, <2>1, SentType DEF Resume
  <2>3. UNCHANGED <<server, table, sListenFd, sClientFd, s, read, conn, coming, arrived, written,
                    handled, events, deaths, kp, secret, given, keys>>
    BY <1>1 DEF Resume, keyVars
  <2>4. DescriptorsInUse'
    BY <2>3 DEF DescriptorsInUse
  <2> QED
    BY <2>2, <2>3, <2>4, TypeParts, ZenonT(90) DEF TypeOK, KeyTypeOK, SendType
<1>2. CASE SendEvent
  <2>1. events' \in Nat /\ events' \in 0 .. MaxEvents
    BY <1>2, TypeParts, BoundAssumption DEF SendEvent
  <2>2. Halves("poll", events') \in Seq(Half) /\ "poll" \in Thread
    BY <2>1, HalvesType DEF Thread
  <2>3. SendType'
    BY <1>2, <2>2, SentType, TypeParts DEF SendEvent
  <2>4. UNCHANGED <<server, table, sListenFd, sClientFd, s, read, conn, coming, arrived, written,
                    handled, deaths, kp, secret, given, keys>>
    BY <1>2 DEF SendEvent, keyVars
  <2>5. DescriptorsInUse'
    BY <2>4 DEF DescriptorsInUse
  <2> QED
    BY <2>1, <2>3, <2>4, <2>5, TypeParts, ZenonT(90) DEF TypeOK, KeyTypeOK, SendType
<1>3. CASE Die
  BY <1>3, DieKeepsTypes
<1>4. CASE PollNothing
  <2>1. /\ UNCHANGED <<server, table, sListenFd, sClientFd, s, read, sending, conn, left, reset,
                       coming, arrived, stream, taken, written, handled>>
        /\ UNCHANGED <<events, deaths, kp, secret, given, keys>>
    BY <1>4 DEF PollNothing, vars, daemonVars, clientVars, keyVars
  <2>2. TypeOK'
    BY <2>1, ZenonT(90) DEF TypeOK, KeyTypeOK
  <2>3. DescriptorsInUse'
    BY <2>1 DEF DescriptorsInUse
  <2> QED
    BY <2>2, <2>3
<1> QED
  BY <1>1, <1>2, <1>3, <1>4 DEF ResumeBroken, SendEventBroken

\* So does the server thread while it opens and closes sockets.
LEMMA SocketsKeepTypes ==
  ASSUME TypeOK, DescriptorsInUse,
         \/ Start \/ Accept \/ AcceptFails \/ AssignClient \/ CloseListener \/ CloseClient
         \/ Socket \/ Listen
  PROVE  TypeOK' /\ DescriptorsInUse'
<1> DEFINE Kinds == Client \cup {"free", "uart", "socket", "listener"}
<1>0. Descriptor = {3, 4, 5}
  BY DEF Descriptor
<1>1. /\ UNCHANGED <<left, reset, stream, taken, written, handled, events, deaths,
                     kp, secret, given, keys, sending>>
      /\ KeyTypeOK' /\ SendType'
  <2>1. UNCHANGED <<left, reset, stream, taken, written, handled, events, deaths,
                    kp, secret, given, keys, sending>>
    BY DEF Start, Accept, AcceptFails, AssignClient, CloseListener, CloseClient, Socket, Listen,
           clientVars, keyVars
  <2> QED
    BY <2>1, TypeParts DEF KeyTypeOK, SendType
<1>2. table \in [{3, 4, 5} -> Kinds]
  BY <1>0 DEF TypeOK
<1>3. CASE Start
  <2>1. /\ server = "off" /\ BindAndListen(4, [table EXCEPT ![3] = "uart"])
        /\ UNCHANGED <<sClientFd, s, read, conn, coming, arrived>> /\ sListenFd' = 4
    BY <1>3 DEF Start, clientVars
  <2>2. /\ server' \in {"accept", "failed", "ended"}
        /\ server' = "accept" => table' = [[table EXCEPT ![3] = "uart"] EXCEPT ![4] = "listener"]
        /\ \/ table' = [[table EXCEPT ![3] = "uart"] EXCEPT ![4] = "listener"]
           \/ table' = [[table EXCEPT ![3] = "uart"] EXCEPT ![4] = "socket"]
    BY <2>1 DEF BindAndListen
  <2>3. table[5] = "free" /\ sClientFd = 0
    BY <1>0, <2>1 DEF DescriptorsInUse
  <2>4. /\ table' \in [{3, 4, 5} -> Kinds]
        /\ table'[3] = "uart" /\ table'[5] = "free"
        /\ server' = "accept" => table'[4] = "listener"
    BY <1>2, <2>2, <2>3
  <2>5. DescriptorsInUse'
    BY <2>1, <2>2, <2>3, <2>4 DEF DescriptorsInUse, Listening, Deaf, Serving
  <2> QED
    BY <1>0, <1>1, <2>1, <2>2, <2>4, <2>5 DEF TypeOK, SendType
<1>4. CASE Accept
  <2>1. server = "accept" /\ table[3] = "uart" /\ table[5] = "free" /\ table[4] = "listener"
    BY <1>4 DEF Accept, At, DescriptorsInUse, Listening, Serving
  <2>2. LowestFree = 5
    BY <2>1, LowestIs
  <2>3. PICK c \in Client : /\ conn' = [conn EXCEPT ![c] = "open"]
                            /\ table' = [table EXCEPT ![5] = c]
    BY <1>4, <2>2 DEF Accept
  <2>4. /\ s' = 5 /\ server' = "accepted"
        /\ UNCHANGED <<sListenFd, sClientFd, read, coming, arrived>>
    BY <1>4, <2>2 DEF Accept
  <2>5. /\ table' \in [{3, 4, 5} -> Kinds]
        /\ table'[3] = "uart" /\ table'[4] = "listener" /\ table'[5] \in Client
    BY <1>2, <2>1, <2>3
  <2>6. DescriptorsInUse'
    BY <2>1, <2>4, <2>5 DEF DescriptorsInUse, Listening, Deaf, Serving
  <2> QED
    BY <1>0, <1>1, <2>3, <2>4, <2>5, <2>6 DEF TypeOK, SendType
<1>5. CASE AssignClient
  <2>1. /\ server = "accepted" /\ server' = "assigned" /\ sClientFd' = s
        /\ UNCHANGED <<table, sListenFd, s, read, conn, coming, arrived>>
    BY <1>5 DEF AssignClient, At, clientVars
  <2>2. sClientFd' = 5 /\ 5 \in Descriptor
    BY <1>0, <2>1 DEF DescriptorsInUse, Serving
  <2>3. DescriptorsInUse'
    BY <2>1 DEF DescriptorsInUse, Listening, Deaf, Serving
  <2> QED
    BY <1>1, <2>1, <2>2, <2>3 DEF TypeOK, SendType
<1>6. CASE CloseListener
  <2>1. /\ server = "assigned" /\ server' = "length"
        /\ table' = [table EXCEPT ![sListenFd] = "free"]
        /\ UNCHANGED <<sListenFd, sClientFd, s, read>>
        /\ Closed({c \in Client : conn[c] = "backlog"})
    BY <1>6 DEF CloseListener, At
  <2>2. /\ table[3] = "uart" /\ table[5] \in Client /\ s = 5 /\ sListenFd = 4
        /\ sClientFd \in {0, 5}
    BY <2>1 DEF DescriptorsInUse, Listening, Serving
  <2>3. /\ table' \in [{3, 4, 5} -> Kinds]
        /\ table'[3] = "uart" /\ table'[4] = "free" /\ table'[5] \in Client
    BY <1>2, <2>1, <2>2
  <2>4. DescriptorsInUse'
    BY <2>1, <2>2, <2>3 DEF DescriptorsInUse, Listening, Deaf, Serving
  <2>5. PieceType'
    BY <1>1, <2>1, TypeParts DEF Closed, PieceType
  <2> QED
    BY <1>0, <1>1, <2>1, <2>3, <2>4, <2>5 DEF TypeOK, SendType, PieceType
<1>7. CASE CloseClient
  <2>1. /\ server = "close" /\ server' = "socket" /\ read' = <<>>
        /\ table' = [table EXCEPT ![s] = "free"]
        /\ UNCHANGED <<sListenFd, sClientFd, s>>
        /\ Closed({table[s]})
    BY <1>7 DEF CloseClient, At
  <2>2. /\ table[3] = "uart" /\ table[4] = "free" /\ s = 5 /\ sListenFd = 4
        /\ sClientFd \in {0, 5}
    BY <2>1 DEF DescriptorsInUse, Deaf, Serving
  <2>3. /\ table' \in [{3, 4, 5} -> Kinds]
        /\ table'[3] = "uart" /\ table'[4] = "free" /\ table'[5] = "free"
    BY <1>2, <2>1, <2>2
  <2>4. DescriptorsInUse'
    BY <2>1, <2>2, <2>3 DEF DescriptorsInUse, Listening, Deaf, Serving
  <2>5. PieceType'
    BY <1>1, <2>1, TypeParts DEF Closed, PieceType
  <2>6. read' \in Seq(Piece)
    BY <2>1
  <2> QED
    BY <1>0, <1>1, <2>1, <2>3, <2>4, <2>5, <2>6 DEF TypeOK, SendType, PieceType
<1>8. CASE Socket
  <2>1. server = "socket" /\ table[3] = "uart" /\ table[5] = "free" /\ table[4] = "free"
    BY <1>8 DEF Socket, At, DescriptorsInUse, Deaf, Serving
  <2>2. LowestFree = 4
    BY <2>1, LowestIs
  <2>3. /\ server' = "listen" /\ sListenFd' = 4
        /\ table' = [table EXCEPT ![4] = "socket"]
        /\ UNCHANGED <<sClientFd, s, read, conn, coming, arrived>>
    BY <1>8, <2>2 DEF Socket, clientVars
  <2>4. /\ table' \in [{3, 4, 5} -> Kinds]
        /\ table'[3] = "uart" /\ table'[4] = "socket" /\ table'[5] = "free"
    BY <1>2, <2>1, <2>3
  <2>5. DescriptorsInUse'
    BY <2>1, <2>3, <2>4 DEF DescriptorsInUse, Listening, Deaf, Serving
  <2> QED
    BY <1>0, <1>1, <2>3, <2>4, <2>5 DEF TypeOK, SendType
<1>9. CASE Listen
  <2>1. /\ server = "listen" /\ BindAndListen(sListenFd, table)
        /\ UNCHANGED <<sListenFd, sClientFd, s, read, conn, coming, arrived>>
    BY <1>9 DEF Listen, At, clientVars
  <2>2. sListenFd = 4 /\ sClientFd \in {0, 5} /\ table[3] = "uart" /\ table[5] = "free"
    BY <2>1 DEF DescriptorsInUse, Serving
  <2>3. /\ server' \in {"accept", "failed", "ended"}
        /\ server' = "accept" => table' = [table EXCEPT ![4] = "listener"]
        /\ \/ table' = [table EXCEPT ![4] = "listener"]
           \/ table' = [table EXCEPT ![4] = "socket"]
    BY <2>1, <2>2 DEF BindAndListen
  <2>4. /\ table' \in [{3, 4, 5} -> Kinds]
        /\ table'[3] = "uart" /\ table'[5] = "free"
        /\ server' = "accept" => table'[4] = "listener"
    BY <1>2, <2>2, <2>3
  <2>5. DescriptorsInUse'
    BY <2>1, <2>2, <2>3, <2>4 DEF DescriptorsInUse, Listening, Deaf, Serving
  <2> QED
    BY <1>0, <1>1, <2>1, <2>3, <2>4, <2>5 DEF TypeOK, SendType
<1>10. CASE AcceptFails
  <2>1. /\ server = "accept" /\ server' = "failed" /\ s' = -1
        /\ UNCHANGED <<table, sListenFd, sClientFd, read, conn, coming, arrived>>
    BY <1>10 DEF AcceptFails, At, clientVars
  <2>2. DescriptorsInUse'
    BY <2>1 DEF DescriptorsInUse, Listening, Deaf, Serving
  <2> QED
    BY <1>1, <2>1, <2>2 DEF TypeOK, SendType
<1> QED
  BY <1>3, <1>4, <1>5, <1>6, <1>7, <1>8, <1>9, <1>10


\* What recv takes: the oldest g pieces of what has arrived, all n asked for or
\* the session ends.
LEMMA RecvEffect ==
  ASSUME TypeOK, DescriptorsInUse, server \in {"length", "type", "payload"},
         NEW n \in Nat, NEW next, Recv(n, next)
  PROVE  /\ table[5] \in Client
         /\ \E r, q \in Seq(Piece) :
              /\ arrived[table[5]] = r \o q
              /\ Len(r) \in 1 .. n
              /\ read' = read \o r
              /\ arrived' = [arrived EXCEPT ![table[5]] = q]
              /\ server' = IF Len(r) = n THEN next ELSE "close"
         /\ UNCHANGED <<table, sListenFd, sClientFd, s, sending, conn, left, reset, coming, stream,
                        taken, written, handled, events, deaths, kp, secret, given, keys>>
<1> DEFINE p == table[5]
           l == arrived[p]
           g == Min({n, Len(l)})
           q == SubSeq(l, g + 1, Len(l))
           r == SubSeq(l, 1, g)
<1>1. Peer = p /\ p \in Client
  BY DEF DescriptorsInUse, Serving, Peer
<1>2. l \in Seq(Piece) /\ Len(l) \in Nat
  BY <1>1 DEF TypeOK
<1>3. /\ g > 0
      /\ read' = read \o r
      /\ arrived' = [arrived EXCEPT ![p] = q]
      /\ server' = IF g = n THEN next ELSE "close"
      /\ UNCHANGED <<table, sListenFd, sClientFd, s, sending, conn, left, reset, coming, stream,
                     taken, written, handled, events, deaths, kp, secret, given, keys>>
  BY <1>1 DEF Recv, keyVars
<1>4. g \in 1 .. n /\ g <= Len(l)
  <2> HIDE DEF l
  <2> QED
    BY <1>2, <1>3, MinOfTwo
<1> HIDE DEF g
<1>5. \A i \in 1 .. Len(l) : l[i] \in Piece
  BY <1>2, ElementOfSeq
<1>6. r \in Seq(Piece) /\ Len(r) = g /\ q \in Seq(Piece)
  <2> HIDE DEF l
  <2> QED
    BY <1>2, <1>4, <1>5, SubSeqProperties
<1>7. l = r \o q
  <2>1. r \o q = SubSeq(l, 1, Len(l))
    <3> HIDE DEF l
    <3>1. 1 \in 1 .. Len(l) + 1 /\ g \in 1 - 1 .. Len(l) /\ Len(l) \in g .. Len(l)
      BY <1>2, <1>4
    <3> QED
      BY <1>2, <3>1, ConcatAdjacentSubSeq
  <2>2. SubSeq(l, 1, Len(l)) = l
    BY <1>2, SubSeqFull
  <2> QED
    BY <2>1, <2>2
<1> HIDE DEF q, r
<1>8. \E y, z \in Seq(Piece) :
        /\ l = y \o z
        /\ Len(y) \in 1 .. n
        /\ read' = read \o y
        /\ arrived' = [arrived EXCEPT ![p] = z]
        /\ server' = IF Len(y) = n THEN next ELSE "close"
  BY <1>3, <1>4, <1>6, <1>7
<1> QED
  BY <1>1, <1>3, <1>8

\* What the session does in each of its places.
RecvWhole(n, from, to) == server = from /\ \E next \in to : Recv(n, next)

Ends(from, to) ==
  /\ server = from
  /\ server' \in to
  /\ AtEnd(Peer)
  /\ UNCHANGED <<table, sListenFd, sClientFd, s, read, sending, conn, left, reset, coming, arrived,
                 stream, taken, written, handled, events, deaths, kp, secret, given, keys>>

LEMMA SessionStep ==
  ASSUME \/ RecvLength \/ RecvLengthEnd \/ RecvType \/ RecvPayload
         \/ HandleOp \/ HandleCommand \/ HandleCommandBroken
  PROVE  \/ RecvWhole(2, "length", {"type", "close"})
         \/ RecvWhole(1, "type", {"payload"})
         \/ RecvWhole(2, "payload", {"handle"})
         \/ Ends("length", {"close"} \cup (IF reset[Peer] THEN {"type"} ELSE {}))
         \/ Ends("type", {"close"})
         \/ Ends("payload", {"close"})
         \/ server = "handle" /\ Handled /\ (HandleOp \/ HandleCommand)
         \/ Die
<1>1. CASE RecvLength
  BY <1>1 DEF RecvLength, RecvWhole, At
<1>2. CASE RecvLengthEnd
  BY <1>2 DEF RecvLengthEnd, Ends, GoOn, At, clientVars, keyVars
<1>3. CASE RecvType
  BY <1>3 DEF RecvType, RecvWhole, Ends, GoOn, At, clientVars, keyVars
<1>4. CASE RecvPayload
  BY <1>4 DEF RecvPayload, RecvWhole, Ends, GoOn, At, clientVars, keyVars
<1>5. CASE HandleOp \/ HandleCommand
  BY <1>5 DEF HandleOp, HandleCommand, At
<1>6. CASE HandleCommandBroken
  BY <1>6 DEF HandleCommandBroken
<1> QED
  BY <1>1, <1>2, <1>3, <1>4, <1>5, <1>6

\* The session keeps the types.
LEMMA SessionKeepsTypes ==
  ASSUME TypeOK, DescriptorsInUse,
         \/ RecvLength \/ RecvLengthEnd \/ RecvType \/ RecvPayload
         \/ HandleOp \/ HandleCommand \/ HandleCommandBroken
  PROVE  TypeOK' /\ DescriptorsInUse'
<1>0. KeyTypeOK /\ DaemonType /\ PieceType /\ SendType
  BY TypeParts
<1>1. ASSUME NEW n \in Nat, NEW from \in {"length", "type", "payload"},
             NEW to \in SUBSET {"type", "payload", "handle", "close"}, RecvWhole(n, from, to)
      PROVE  TypeOK' /\ DescriptorsInUse'
  <2>1. PICK next \in to : Recv(n, next)
    BY <1>1 DEF RecvWhole
  <2>2. server \in {"length", "type", "payload"}
    BY <1>1 DEF RecvWhole
  <2>3. /\ table[5] \in Client
        /\ read' \in Seq(Piece)
        /\ server' \in {"type", "payload", "handle", "close"}
        /\ \E q \in Seq(Piece) : arrived' = [arrived EXCEPT ![table[5]] = q]
        /\ UNCHANGED <<table, sListenFd, sClientFd, s, sending, conn, left, reset, coming, stream,
                       taken, written, handled, events, deaths, kp, secret, given, keys>>
    <3>1. next \in {"type", "payload", "handle", "close"}
      BY <1>1
    <3>2. PICK r \in Seq(Piece), q \in Seq(Piece) :
            /\ Len(r) \in 1 .. n
            /\ read' = read \o r
            /\ arrived' = [arrived EXCEPT ![table[5]] = q]
            /\ server' = IF Len(r) = n THEN next ELSE "close"
      BY <2>1, <2>2, RecvEffect
    <3>3. /\ table[5] \in Client
          /\ UNCHANGED <<table, sListenFd, sClientFd, s, sending, conn, left, reset, coming, stream,
                         taken, written, handled, events, deaths, kp, secret, given, keys>>
      BY <2>1, <2>2, RecvEffect
    <3>4. read' \in Seq(Piece)
      BY <1>0, <3>2, ConcatProperties DEF DaemonType
    <3> QED
      BY <3>1, <3>2, <3>3, <3>4
  <2>4. arrived' \in [Client -> Seq(Piece)]
    BY <1>0, <2>3 DEF PieceType
  <2>5. KeyTypeOK' /\ DaemonType' /\ PieceType' /\ SendType'
    BY <1>0, <2>3, <2>4 DEF KeyTypeOK, DaemonType, PieceType, SendType
  <2>6. DescriptorsInUse'
    BY <2>2, <2>3 DEF DescriptorsInUse, Listening, Deaf, Serving
  <2> QED
    BY <2>3, <2>5, <2>6, TypeParts DEF TypeOK, KeyTypeOK, DaemonType, PieceType, SendType
<1>2. ASSUME NEW from \in {"length", "type", "payload"},
             NEW to \in SUBSET {"type", "close"}, Ends(from, to)
      PROVE  TypeOK' /\ DescriptorsInUse'
  <2>1. KeyTypeOK' /\ DaemonType' /\ PieceType' /\ SendType'
    BY <1>0, <1>2 DEF Ends, KeyTypeOK, DaemonType, PieceType, SendType
  <2>2. DescriptorsInUse'
    BY <1>2 DEF Ends, DescriptorsInUse, Listening, Deaf, Serving
  <2>3. events' = events /\ deaths' = deaths
    BY <1>2 DEF Ends
  <2> QED
    BY <2>1, <2>2, <2>3, TypeParts DEF TypeOK, KeyTypeOK, DaemonType, PieceType, SendType
<1>3. CASE server = "handle" /\ Handled /\ (HandleOp \/ HandleCommand)
  <2>1. /\ handled' = [handled EXCEPT ![table[s]] = Append(@, read)]
        /\ read' = <<>> /\ server' = "length"
        /\ UNCHANGED <<table, sListenFd, sClientFd, s, conn, left, coming, arrived, taken, written,
                       events, deaths>>
    BY <1>3 DEF Handled, Peer
  <2>2. table[s] \in Client /\ s = 5
    BY <1>3 DEF DescriptorsInUse, Serving
  <2>3. /\ handled' \in [Client -> Seq(Seq(Piece))] /\ Len(handled'[table[s]]) \in Nat
        /\ read' \in Seq(Piece)
    <3>1. handled[table[s]] \in Seq(Seq(Piece)) /\ read \in Seq(Piece)
      BY <1>0, <2>2 DEF PieceType, DaemonType
    <3>2. Append(handled[table[s]], read) \in Seq(Seq(Piece))
      BY <3>1, AppendProperties
    <3>3. handled' \in [Client -> Seq(Seq(Piece))]
      BY <1>0, <2>1, <3>2 DEF PieceType
    <3> QED
      BY <2>1, <2>2, <3>3
  <2>4. DaemonType' /\ PieceType'
    BY <1>0, <2>1, <2>3 DEF DaemonType, PieceType
  <2>5. KeyTypeOK' /\ SendType'
    <3>1. CASE HandleOp
      BY <1>0, <2>1, <3>1 DEF HandleOp, keyVars, KeyTypeOK, SendType
    <3>2. CASE HandleCommand
      <4>1. KeyTypeOK'
        BY <1>0, <3>2, CommandType DEF HandleCommand
      <4>2. Sent("session", Target, Halves("session", Len(handled'[table[s]])))
        BY <3>2 DEF HandleCommand, Peer
      <4>3. Halves("session", Len(handled'[table[s]])) \in Seq(Half) /\ "session" \in Thread
        BY <2>3, HalvesType DEF Thread
      <4>4. SendType'
        BY <1>0, <2>1, <4>2, <4>3, SentType
      <4> QED
        BY <4>1, <4>4
    <3> QED
      BY <1>3, <3>1, <3>2
  <2>6. DescriptorsInUse'
    BY <1>3, <2>1 DEF DescriptorsInUse, Listening, Deaf, Serving
  <2> QED
    BY <2>1, <2>4, <2>5, <2>6, TypeParts DEF TypeOK, KeyTypeOK, DaemonType, PieceType, SendType
<1>4. CASE Die
  BY <1>4, DieKeepsTypes
<1>5. \A x \in {"close"} \cup (IF reset[Peer] THEN {"type"} ELSE {}) : x \in {"type", "close"}
  OBVIOUS
<1> QED
  BY <1>1, <1>2, <1>3, <1>4, <1>5, SessionStep

\* Every step keeps the types and the descriptors.
LEMMA StepKeepsTypes ==
  ASSUME TypeOK, DescriptorsInUse, [Next]_vars
  PROVE  TypeOK' /\ DescriptorsInUse'
<1>1. CASE UNCHANGED vars
  <2>1. /\ UNCHANGED <<server, table, sListenFd, sClientFd, s, read, sending, conn, left, reset,
                       coming, arrived, stream, taken, written, handled>>
        /\ UNCHANGED <<events, deaths, kp, secret, given, keys>>
    BY <1>1 DEF vars, daemonVars, clientVars, keyVars
  <2>2. TypeOK'
    BY <2>1, SMTT(30) DEF TypeOK, KeyTypeOK
  <2>3. DescriptorsInUse'
    BY <2>1 DEF DescriptorsInUse
  <2> QED
    BY <2>2, <2>3
<1> QED
  BY <1>1, ClientKeepsTypes, SendsKeepTypes, SocketsKeepTypes, SessionKeepsTypes
  DEF Next, Serve


\* The first state is typed, and no descriptor is open in it.
LEMMA InitTypes == Init => TypeOK /\ DescriptorsInUse
<1> SUFFICES ASSUME Init PROVE TypeOK /\ DescriptorsInUse
  OBVIOUS
<1>1. KeyTypeOK
  BY MaxKeysAssumption DEF Init, KeyInit, KeyTypeOK
<1>2. DaemonType /\ PieceType /\ SendType
  <2>1. <<>> \in Seq(Piece) /\ <<>> \in Seq(Half) /\ <<>> \in Seq(Seq(Piece)) /\ Len(<<>>) = 0
    OBVIOUS
  <2> QED
    BY <2>1, IdleType, BoundAssumption DEF Init, DaemonType, PieceType, SendType
<1>3. events \in 0 .. MaxEvents /\ deaths \in 0 .. MaxDeaths
  BY BoundAssumption DEF Init
<1>4. DescriptorsInUse
  BY DEF Init, DescriptorsInUse
<1> QED
  BY <1>1, <1>2, <1>3, <1>4, TypeParts

\* Every reachable state of the bridge is well typed: no descriptor but the three
\* is ever opened, and none is given out when no one is free (setupServerSocket,
\* hci_bridge_start_internal).
THEOREM BridgeTypeCorrect == Spec => [](TypeOK /\ DescriptorsInUse)
BY InitTypes, StepKeepsTypes, PTL DEF Spec

\* A closed client's number, which the poll thread goes on sending to, is never
\* given to the listening socket (hci_bridge_send, setupServerSocket).
THEOREM ClientFdHolds == Spec => []ClientFdIsClient
<1>1. TypeOK /\ DescriptorsInUse => ClientFdIsClient
  BY DEF TypeOK, DescriptorsInUse, ClientFdIsClient, Target
<1> QED
  BY <1>1, BridgeTypeCorrect, PTL

\* What a step may do to the keys: nothing, carry out a command, or forget them
\* with the daemon.
LEMMA KeyStep ==
  ASSUME [Next]_vars
  PROVE  \/ UNCHANGED keyVars
         \/ \E command \in Command, form \in Form, reply \in Reply :
              handleInternalCommand(command, form, reply)
         \/ kp' = NULL /\ secret' = NULL /\ given' = {}
<1>1. CASE \E c \in Client : Connect(c) \/ Write(c) \/ Arrive(c) \/ Read(c) \/ Leave(c)
  BY <1>1 DEF Connect, Write, Arrive, Read, Leave
<1>2. CASE \E t \in Thread : Resume(t) \/ ResumeBroken(t)
  BY <1>2 DEF Resume, ResumeBroken, Die
<1>3. CASE SendEvent \/ SendEventBroken \/ PollNothing \/ UNCHANGED vars
  BY <1>3 DEF SendEvent, SendEventBroken, PollNothing, Die, vars
<1>4. CASE \/ Start \/ Accept \/ AcceptFails \/ AssignClient \/ CloseListener \/ CloseClient
           \/ Socket \/ Listen
  BY <1>4 DEF Start, Accept, AcceptFails, AssignClient, CloseListener, CloseClient, Socket, Listen
<1>5. CASE RecvLength \/ RecvLengthEnd \/ RecvType \/ RecvPayload
  BY <1>5 DEF RecvLength, RecvLengthEnd, RecvType, RecvPayload, Recv, GoOn
<1>6. CASE HandleOp \/ HandleCommand \/ HandleCommandBroken
  BY <1>6 DEF HandleOp, HandleCommand, HandleCommandBroken, Die
<1> QED
  BY <1>1, <1>2, <1>3, <1>4, <1>5, <1>6 DEF Next, Serve

\* What secret and public keys there may be, by what kp is.
KeysInStep ==
  /\ kp = NULL => secret = NULL /\ given = {}
  /\ kp \in 1 .. MaxKeys => secret \in {NULL, kp} /\ given \subseteq {kp}
  /\ kp = Freed => secret \in {NULL, Garbage} /\ given \subseteq {Garbage}

LEMMA StepKeepsKeys ==
  ASSUME KeyTypeOK, KeyTypeOK', KeysInStep, [Next]_vars
  PROVE  KeysInStep'
<1>1. CASE UNCHANGED keyVars
  BY <1>1 DEF keyVars, KeysInStep
<1>2. ASSUME NEW command \in Command, NEW form \in Form, NEW reply \in Reply,
             handleInternalCommand(command, form, reply)
      PROVE  KeysInStep'
  <2>1. CASE given' = given \cup {KeysAt(kp)} /\ kp # NULL /\ UNCHANGED <<kp, secret, keys>>
    BY <2>1 DEF KeysInStep, KeysAt, KeyTypeOK, NULL, Freed, Garbage
  <2>2. CASE kp = NULL /\ generateKeyPair /\ Generated(reply)
    <3>1. /\ secret' = NULL
          /\ kp' # NULL /\ (kp' = Freed => given' = {})
          /\ given' \subseteq {kp'}
      BY <2>2, MaxKeysAssumption
      DEF generateKeyPair, Generated, KeysInStep, KeyTypeOK, NULL, Freed, Garbage
    <3> QED
      BY <3>1 DEF KeysInStep
  <2>3. CASE secret' \in deriveSecret /\ kp # NULL /\ UNCHANGED <<kp, given, keys>>
    BY <2>3 DEF KeysInStep, KeysAt, deriveSecret, KeyTypeOK, NULL, Freed, Garbage
  <2> QED
    BY <1>1, <1>2, <2>1, <2>2, <2>3, CommandDoes
<1>3. CASE kp' = NULL /\ secret' = NULL /\ given' = {}
  BY <1>3 DEF KeysInStep, NULL, Freed
<1> QED
  BY <1>1, <1>2, <1>3, KeyStep

\* A shared secret is that of the key pair the daemon has, and no other public key
\* was given out since it started: the first key pair is kept.  When it could not be
\* generated, no secret and no public key is that of a key pair (the key commands of
\* handleInternalCommand).
THEOREM SecretHolds == Spec => []SecretOfKeyPair
<1>1. Init => KeysInStep
  BY DEF Init, KeyInit, KeysInStep, NULL, Freed
<1>2. TypeOK /\ TypeOK' /\ KeysInStep /\ [Next]_vars => KeysInStep'
  <2>1. (TypeOK => KeyTypeOK) /\ (TypeOK' => KeyTypeOK')
    BY DEF TypeOK
  <2> QED
    BY <2>1, StepKeepsKeys
<1>3. TypeOK /\ KeysInStep => SecretOfKeyPair
  BY TypeParts DEF KeyTypeOK, KeysInStep, SecretOfKeyPair
<1> QED
  BY <1>1, <1>2, <1>3, BridgeTypeCorrect, PTL DEF Spec


-----------------------------------------------------------------------------
(* The connections and the pieces of the messages.                         *)

\* The three sequences that a client's pieces are in are sequences of pieces.
LEMMA UnhandledType ==
  ASSUME TypeOK, NEW c \in Client
  PROVE  /\ InHand(c) \in Seq(Piece) /\ arrived[c] \in Seq(Piece) /\ coming[c] \in Seq(Piece)
         /\ InHand(c) \o arrived[c] \in Seq(Piece)
         /\ Unhandled(c) \in Seq(Piece)
         /\ Len(Unhandled(c)) \in Nat
<1>1. InHand(c) \in Seq(Piece) /\ arrived[c] \in Seq(Piece) /\ coming[c] \in Seq(Piece)
  BY DEF TypeOK, InHand
<1>2. InHand(c) \o arrived[c] \in Seq(Piece)
  BY <1>1, ConcatProperties
<1>3. Unhandled(c) \in Seq(Piece)
  BY <1>1, <1>2, ConcatProperties DEF Unhandled
<1> QED
  BY <1>1, <1>2, <1>3, LenProperties

\* A client none of whose pieces move.
LEMMA PiecesStay ==
  ASSUME NEW c \in Client, PiecesFollow(c),
         Unhandled(c)' = Unhandled(c), handled'[c] = handled[c], written'[c] = written[c],
         conn'[c] # "closed" => conn[c] # "closed"
  PROVE  PiecesFollow(c)'
BY DEF PiecesFollow

\* A client whose connection is closed: nothing is left of what it wrote.
LEMMA PiecesDropped ==
  ASSUME NEW c \in Client, conn'[c] = "closed",
         InHand(c)' = <<>>, arrived'[c] = <<>>, coming'[c] = <<>>
  PROVE  PiecesFollow(c)'
<1>1. Unhandled(c)' = <<>>
  <2>1. <<>> \in Seq(Piece)
    OBVIOUS
  <2>2. <<>> \o <<>> = <<>>
    BY <2>1, ConcatEmptySeq
  <2> QED
    BY <2>2 DEF Unhandled
<1> QED
  BY <1>1 DEF PiecesFollow

\* The pieces of one message follow those of the messages before.
LEMMA PieceOfNext ==
  ASSUME NEW c \in Client, NEW w \in Nat, NEW i \in 1 .. 5
  PROVE  PieceOf(c, 5 * w + i) = [client |-> c, message |-> w + 1, part |-> i]
<1>1. (5 * w + i - 1) \div 5 = w /\ (5 * w + i - 1) % 5 = i - 1
  OBVIOUS
<1> QED
  BY <1>1 DEF PieceOf

\* What the clients and TCP do.
LEMMA ClientKeepsPieces ==
  ASSUME TypeOK, DescriptorsInUse, ConnectionsHeld, ReadSoFar, PiecesInOrder, NEW c \in Client,
         Connect(c) \/ Write(c) \/ Arrive(c) \/ Read(c) \/ Leave(c)
  PROVE  ConnectionsHeld' /\ ReadSoFar' /\ PiecesInOrder'
<1>1. UNCHANGED <<server, table, read, handled>>
  BY DEF Connect, Write, Arrive, Read, Leave, daemonVars
<1>2. \A x \in Client : InHand(x)' = InHand(x)
  BY <1>1 DEF InHand
<1>3. CASE Connect(c)
  <2>1. /\ UNCHANGED <<reset, coming, arrived, written>>
        /\ conn[c] = "none" /\ conn' = [conn EXCEPT ![c] = "backlog"]
        /\ \E d \in Descriptor : table[d] = "listener"
    BY <1>3 DEF Connect
  <2>2. table[4] = "listener"
    BY <2>1, ClientsApart DEF DescriptorsInUse, Descriptor
  <2>3. ConnectionsHeld'
    BY <1>1, <2>1, <2>2 DEF ConnectionsHeld, TypeOK
  <2>4. ReadSoFar'
    BY <1>1, <2>1 DEF ReadSoFar
  <2>5. \A x \in Client : PiecesFollow(x)'
    BY <1>1, <1>2, <2>1, PiecesStay DEF PiecesInOrder, Unhandled, TypeOK
  <2> QED
    BY <2>3, <2>4, <2>5 DEF PiecesInOrder
<1>4. CASE Write(c)
  <2> DEFINE q == MessageOf(c, written'[c])
  <2>1. /\ UNCHANGED <<conn, reset, arrived>>
        /\ conn[c] \in {"backlog", "open"}
        /\ written' = [written EXCEPT ![c] = @ + 1]
        /\ coming' = [coming EXCEPT ![c] = @ \o q]
    BY <1>4 DEF Write, MessageOf
  <2>2. written[c] \in Nat /\ written'[c] = written[c] + 1
    BY <2>1 DEF TypeOK
  <2>3. q \in Seq(Piece) /\ Len(q) = 5
    <3>1. written'[c] \in Nat
      BY <2>2
    <3> QED
      BY <3>1, MessageOfType
  <2>4. \A i \in 1 .. 5 : q[i] = PieceOf(c, 5 * written[c] + i)
    BY <2>2, PieceOfNext DEF MessageOf
  <2> HIDE DEF q
  <2>5. Unhandled(c)' = Unhandled(c) \o q
    <3>1. coming'[c] = coming[c] \o q
      BY <2>1 DEF TypeOK
    <3>2. Unhandled(c)' = (InHand(c) \o arrived[c]) \o (coming[c] \o q)
      BY <1>2, <2>1, <3>1 DEF Unhandled
    <3> DEFINE a == InHand(c) \o arrived[c]
               m == coming[c]
    <3>3. a \in Seq(Piece) /\ m \in Seq(Piece)
      BY UnhandledType
    <3>4. Unhandled(c)' = a \o (m \o q) /\ Unhandled(c) = a \o m
      BY <3>2 DEF Unhandled
    <3> HIDE DEF a, m
    <3>5. (a \o m) \o q = a \o (m \o q)
      BY <2>3, <3>3, ConcatAssociative, SMTT(30)
    <3> QED
      BY <3>4, <3>5
  <2>6. /\ \A i \in 1 .. Len(Unhandled(c)) :
             Unhandled(c)[i] = PieceOf(c, 5 * Len(handled[c]) + i)
        /\ 5 * Len(handled[c]) + Len(Unhandled(c)) = 5 * written[c]
    BY <2>1 DEF PiecesInOrder, PiecesFollow
  <2>7. Unhandled(c) \in Seq(Piece) /\ Len(Unhandled(c)) \in Nat /\ Len(handled[c]) \in Nat
    <3>1. handled[c] \in Seq(Seq(Piece))
      BY DEF TypeOK
    <3>2. Unhandled(c) \in Seq(Piece)
      BY UnhandledType
    <3> QED
      BY <3>1, <3>2
  <2>8. PiecesFollow(c)'
    <3> DEFINE u == Unhandled(c)
               h == 5 * Len(handled[c])
    <3>1. /\ Len(u \o q) = Len(u) + 5
          /\ \A i \in 1 .. Len(u) + 5 : (u \o q)[i] = IF i <= Len(u) THEN u[i] ELSE q[i - Len(u)]
      <4>1. u \in Seq(Piece)
        BY <2>7
      <4> HIDE DEF u
      <4>2. /\ Len(u \o q) = Len(u) + Len(q)
            /\ \A i \in 1 .. Len(u) + Len(q) :
                 (u \o q)[i] = IF i <= Len(u) THEN u[i] ELSE q[i - Len(u)]
        BY <2>3, <4>1, ConcatProperties
      <4> QED
        BY <2>3, <4>2
    <3> HIDE DEF u
    <3>2. u \in Seq(Piece) /\ Len(u) \in Nat /\ h \in Nat /\ h + Len(u) = 5 * written[c]
      BY <2>6, <2>7 DEF u
    <3>3. \A i \in 1 .. Len(u) : u[i] = PieceOf(c, h + i)
      BY <2>6 DEF u
    <3> HIDE DEF h
    <3>4. \A i \in 1 .. Len(u) + 5 : (u \o q)[i] = PieceOf(c, h + i)
      <4> SUFFICES ASSUME NEW i \in 1 .. Len(u) + 5
                   PROVE  (u \o q)[i] = PieceOf(c, h + i)
        OBVIOUS
      <4>1. CASE i <= Len(u)
        BY <3>1, <3>2, <3>3, <4>1
      <4>2. CASE ~(i <= Len(u))
        <5> DEFINE k == Len(u)
        <5>1. k \in Nat /\ h + k = 5 * written[c]
          BY <3>2
        <5>2. (u \o q)[i] = q[i - k]
          BY <3>1, <4>2
        <5>3. i \in 1 .. k + 5 /\ ~(i <= k)
          BY <4>2
        <5> HIDE DEF k
        <5>4. i - k \in 1 .. 5 /\ (h + k) + (i - k) = h + i
          BY <3>2, <5>1, <5>3
        <5> QED
          BY <2>4, <5>1, <5>2, <5>4
      <4> QED
        BY <4>1, <4>2
    <3>5. Unhandled(c)' = u \o q /\ Len(Unhandled(c)') = Len(u) + 5
      BY <2>5, <3>1 DEF u
    <3>6. 5 * Len(handled'[c]) = h
      BY <1>1 DEF h
    <3>7. h + (Len(u) + 5) = 5 * written'[c]
      BY <2>2, <3>2
    <3> QED
      BY <3>4, <3>5, <3>6, <3>7 DEF PiecesFollow
  <2>9. ASSUME NEW x \in Client, x # c PROVE PiecesFollow(x)'
    BY <1>1, <1>2, <2>1, <2>9, PiecesStay DEF PiecesInOrder, Unhandled, TypeOK
  <2>10. ConnectionsHeld'
    BY <1>1, <2>1 DEF ConnectionsHeld
  <2>11. ReadSoFar'
    BY <1>1, <2>1 DEF ReadSoFar
  <2> QED
    BY <2>8, <2>9, <2>10, <2>11 DEF PiecesInOrder
<1>5. CASE Arrive(c)
  <2>1. /\ UNCHANGED <<conn, reset, written>>
        /\ coming[c] # <<>> /\ conn[c] = "open" /\ ~reset[c]
        /\ arrived' = [arrived EXCEPT ![c] = Append(@, Head(coming[c]))]
        /\ coming' = [coming EXCEPT ![c] = Tail(@)]
    BY <1>5 DEF Arrive
  <2>2. /\ coming[c] \in Seq(Piece) /\ arrived[c] \in Seq(Piece) /\ InHand(c) \in Seq(Piece)
        /\ Head(coming[c]) \in Piece /\ Tail(coming[c]) \in Seq(Piece)
    BY <2>1, UnhandledType, HeadTailProperties
  <2>3. /\ arrived'[c] = arrived[c] \o <<Head(coming[c])>> /\ coming'[c] = Tail(coming[c])
        /\ <<Head(coming[c])>> \in Seq(Piece)
    BY <2>1, <2>2, AppendIsConcat, SMTT(30) DEF TypeOK
  <2>4. coming[c] = <<Head(coming[c])>> \o Tail(coming[c])
    BY <2>1, <2>2
  <2>5. Unhandled(c)' = Unhandled(c)
    <3> DEFINE y == <<Head(coming[c])>>
               z == Tail(coming[c])
               a == arrived[c]
               q == InHand(c)
    <3>1. /\ y \in Seq(Piece) /\ z \in Seq(Piece) /\ a \in Seq(Piece) /\ q \in Seq(Piece)
          /\ q \o a \in Seq(Piece)
      BY <2>2, <2>3, UnhandledType
    <3>2. Unhandled(c)' = (q \o (a \o y)) \o z
      BY <1>2, <2>3 DEF Unhandled
    <3>3. Unhandled(c) = (q \o a) \o (y \o z)
      BY <2>4 DEF Unhandled
    <3> HIDE DEF y, z, a, q
    <3>4. q \o (a \o y) = (q \o a) \o y
      BY <3>1, ConcatAssociative, SMTT(30)
    <3>5. ((q \o a) \o y) \o z = (q \o a) \o (y \o z)
      BY <3>1, ConcatAssociative, SMTT(30)
    <3> QED
      BY <3>2, <3>3, <3>4, <3>5
  <2>6. PiecesFollow(c)'
    BY <1>1, <2>1, <2>5, PiecesStay DEF PiecesInOrder
  <2>7. ASSUME NEW x \in Client, x # c PROVE PiecesFollow(x)'
    BY <1>1, <1>2, <2>1, <2>7, PiecesStay DEF PiecesInOrder, Unhandled, TypeOK
  <2>8. ConnectionsHeld'
    BY <1>1, <2>1 DEF ConnectionsHeld
  <2>9. ReadSoFar'
    <3>1. reset[table[5]] => arrived'[table[5]] = arrived[table[5]]
      BY <2>1
    <3> QED
      BY <1>1, <2>1, <3>1 DEF ReadSoFar
  <2> QED
    BY <2>6, <2>7, <2>8, <2>9 DEF PiecesInOrder
<1>6. CASE Read(c) \/ Leave(c)
  <2>1. UNCHANGED <<conn, coming, arrived, written>>
    BY <1>6 DEF Read, Leave
  <2>2. \A x \in Client : reset[x] => reset'[x]
    BY <1>6 DEF Read, Leave, TypeOK
  <2>3. ConnectionsHeld'
    BY <1>1, <2>1 DEF ConnectionsHeld
  <2>4. ReadSoFar'
    <3>1. server = "type" => table[5] \in Client
      BY DEF DescriptorsInUse, Serving
    <3> QED
      BY <1>1, <2>1, <2>2, <3>1 DEF ReadSoFar
  <2>5. \A x \in Client : PiecesFollow(x)'
    BY <1>1, <1>2, <2>1, PiecesStay DEF PiecesInOrder, Unhandled
  <2> QED
    BY <2>3, <2>4, <2>5 DEF PiecesInOrder
<1> QED
  BY <1>3, <1>4, <1>5, <1>6


\* The end of the daemon closes what is not closed.
LEMMA DieKeepsPieces ==
  ASSUME TypeOK, DescriptorsInUse, ConnectionsHeld, PiecesInOrder, Die
  PROVE  ConnectionsHeld' /\ ReadSoFar' /\ PiecesInOrder'
<1>1. /\ server' = "off" /\ read' = <<>>
      /\ table' = [d \in Descriptor |-> "free"]
      /\ Closed({c \in Client : conn[c] # "none"})
      /\ UNCHANGED <<written, handled>>
  BY DEF Die
<1>2. table'[5] = "free" /\ \A c \in Client : table'[5] # c
  BY <1>1, ClientsApart DEF Descriptor
<1>3. \A c \in Client : conn'[c] \in {"none", "closed"} /\ InHand(c)' = <<>>
  BY <1>1, <1>2 DEF Closed, TypeOK, InHand
<1>4. ConnectionsHeld'
  BY <1>2, <1>3 DEF ConnectionsHeld
<1>5. ReadSoFar'
  BY <1>1 DEF ReadSoFar
<1>6. ASSUME NEW c \in Client PROVE PiecesFollow(c)'
  <2>1. CASE conn[c] = "none"
    <3>1. conn'[c] = conn[c] /\ coming'[c] = coming[c] /\ arrived'[c] = arrived[c]
      BY <1>1, <2>1 DEF Closed
    <3>2. InHand(c) = <<>>
      BY <2>1 DEF ConnectionsHeld, InHand
    <3>3. Unhandled(c)' = Unhandled(c)
      BY <1>3, <3>1, <3>2 DEF Unhandled
    <3> QED
      BY <1>1, <3>1, <3>3, PiecesStay DEF PiecesInOrder
  <2>2. CASE conn[c] # "none"
    <3>1. conn'[c] = "closed" /\ coming'[c] = <<>> /\ arrived'[c] = <<>>
      BY <1>1, <2>2 DEF Closed
    <3> QED
      BY <1>3, <3>1, PiecesDropped
  <2> QED
    BY <2>1, <2>2
<1> QED
  BY <1>4, <1>5, <1>6 DEF PiecesInOrder

\* A connection that was reset stays so whatever is sent on it.
LEMMA SentKeepsReset ==
  ASSUME TypeOK, NEW t, NEW x, NEW rest, Sent(t, x, rest)
  PROVE  \A c \in Client : reset[c] => reset'[c]
<1>1. CASE Put(t, x, rest) \/ NotSent(t)
  BY <1>1 DEF Put, NotSent
<1>2. CASE x \in Client /\ ~reset[x] /\ ToNobody(t, x)
  BY <1>2 DEF ToNobody, TypeOK
<1> QED
  BY <1>1, <1>2 DEF Sent

\* A step that leaves the pieces and the session alone.
LEMMA NothingMoves ==
  ASSUME TypeOK, DescriptorsInUse, ConnectionsHeld, ReadSoFar, PiecesInOrder,
         UNCHANGED <<server, table, read, conn, coming, arrived, written, handled>>,
         \A c \in Client : reset[c] => reset'[c]
  PROVE  ConnectionsHeld' /\ ReadSoFar' /\ PiecesInOrder'
<1>1. ConnectionsHeld'
  BY DEF ConnectionsHeld
<1>2. ReadSoFar'
  <2>1. server = "type" => table[5] \in Client
    BY DEF DescriptorsInUse, Serving
  <2> QED
    BY <2>1 DEF ReadSoFar
<1>3. \A c \in Client : PiecesFollow(c)'
  BY PiecesStay DEF PiecesInOrder, Unhandled, InHand
<1> QED
  BY <1>1, <1>2, <1>3 DEF PiecesInOrder

\* The two threads in send.
LEMMA SendsKeepPieces ==
  ASSUME TypeOK, DescriptorsInUse, ConnectionsHeld, ReadSoFar, PiecesInOrder,
         \/ \E t \in Thread : Resume(t) \/ ResumeBroken(t)
         \/ SendEvent \/ SendEventBroken \/ PollNothing
  PROVE  ConnectionsHeld' /\ ReadSoFar' /\ PiecesInOrder'
<1>1. ASSUME NEW t \in Thread, Resume(t)
      PROVE  ConnectionsHeld' /\ ReadSoFar' /\ PiecesInOrder'
  <2>1. /\ UNCHANGED <<server, table, read, conn, coming, arrived, written, handled>>
        /\ Sent(t, sending[t].to, sending[t].rest)
    BY <1>1 DEF Resume
  <2>2. \A c \in Client : reset[c] => reset'[c]
    BY <2>1, SentKeepsReset
  <2> QED
    BY <2>1, <2>2, NothingMoves
<1>2. CASE SendEvent
  <2>1. /\ UNCHANGED <<server, table, read, conn, coming, arrived, written, handled>>
        /\ Sent("poll", Target, Halves("poll", events'))
    BY <1>2 DEF SendEvent
  <2>2. \A c \in Client : reset[c] => reset'[c]
    BY <2>1, SentKeepsReset
  <2> QED
    BY <2>1, <2>2, NothingMoves
<1>3. CASE PollNothing
  BY <1>3, NothingMoves DEF PollNothing, vars, daemonVars, clientVars
<1> QED
  BY <1>1, <1>2, <1>3, DieKeepsPieces DEF ResumeBroken, SendEventBroken

\* The server thread while it opens and closes sockets.
LEMMA SocketsKeepPieces ==
  ASSUME TypeOK, DescriptorsInUse, ConnectionsHeld, ReadSoFar, PiecesInOrder,
         \/ Start \/ Accept \/ AcceptFails \/ AssignClient \/ CloseListener \/ CloseClient
         \/ Socket \/ Listen
  PROVE  ConnectionsHeld' /\ ReadSoFar' /\ PiecesInOrder'
<1>0. table \in [{3, 4, 5} -> Client \cup {"free", "uart", "socket", "listener"}]
  BY DEF TypeOK, Descriptor
<1>1. /\ UNCHANGED <<written, handled, reset>>
      /\ server' \in {"accept", "accepted", "assigned", "length", "socket", "listen", "failed",
                      "ended"}
  BY DEF Start, Accept, AcceptFails, AssignClient, CloseListener, CloseClient, Socket, Listen,
         BindAndListen, clientVars
<1>2. ReadSoFar'
  <2>1. read' = <<>>
    <3>1. CASE CloseClient
      BY <3>1 DEF CloseClient
    <3>2. CASE Start \/ Accept \/ AcceptFails \/ AssignClient \/ CloseListener \/ Socket \/ Listen
      <4>1. read' = read /\ server \notin {"type", "payload", "handle", "close"}
        BY <3>2 DEF Start, Accept, AcceptFails, AssignClient, CloseListener, Socket, Listen, At
      <4> QED
        BY <4>1 DEF ReadSoFar
    <3> QED
      BY <3>1, <3>2
  <2> QED
    BY <1>1, <2>1 DEF ReadSoFar
\* No client is on a descriptor, and none is given one.
<1>3. ASSUME table[5] = "free", table'[5] = "free", read' = read,
             UNCHANGED <<conn, coming, arrived>>,
             table[4] # "listener" \/ table'[4] = "listener"
      PROVE  ConnectionsHeld' /\ PiecesInOrder'
  <2>1. ConnectionsHeld'
    BY <1>3 DEF ConnectionsHeld
  <2>2. \A c \in Client : PiecesFollow(c)'
    BY <1>1, <1>3, ClientsApart, PiecesStay DEF PiecesInOrder, Unhandled, InHand
  <2> QED
    BY <2>1, <2>2 DEF PiecesInOrder
<1>4. CASE Start
  <2>1. /\ UNCHANGED <<read, conn, coming, arrived>>
        /\ BindAndListen(4, [table EXCEPT ![3] = "uart"])
    BY <1>4 DEF Start, clientVars
  <2>2. table[4] = "free" /\ table[5] = "free"
    BY <1>4 DEF Start, DescriptorsInUse, Descriptor
  <2>3. table'[5] = "free"
    BY <1>0, <2>1, <2>2 DEF BindAndListen
  <2> QED
    BY <1>2, <1>3, <2>1, <2>2, <2>3
<1>5. CASE Accept
  <2>1. server = "accept" /\ table[3] = "uart" /\ table[5] = "free" /\ table[4] = "listener"
    BY <1>5 DEF Accept, At, DescriptorsInUse, Listening, Serving
  <2>2. LowestFree = 5
    BY <2>1, LowestIs
  <2>3. PICK c \in Client : /\ conn[c] = "backlog"
                            /\ conn' = [conn EXCEPT ![c] = "open"]
                            /\ table' = [table EXCEPT ![5] = c]
    BY <1>5, <2>2 DEF Accept
  <2>4. UNCHANGED <<read, coming, arrived>> /\ read = <<>>
    BY <1>5, <2>1 DEF Accept, ReadSoFar
  <2>5. ConnectionsHeld'
    BY <1>0, <2>1, <2>3, ClientsApart, ZenonT(90) DEF ConnectionsHeld, TypeOK
  <2>6. \A x \in Client : InHand(x) = <<>> /\ InHand(x)' = <<>>
    BY <2>4 DEF InHand
  <2>7. \A x \in Client : conn[x] # "closed" <=> conn'[x] # "closed"
    BY <2>3 DEF TypeOK
  <2>8. \A x \in Client : PiecesFollow(x)'
    BY <1>1, <2>4, <2>6, <2>7, PiecesStay DEF PiecesInOrder, Unhandled
  <2> QED
    BY <1>2, <2>5, <2>8 DEF PiecesInOrder
<1>6. CASE AcceptFails \/ AssignClient
  BY <1>1, <1>2, <1>6, PiecesStay
  DEF AcceptFails, AssignClient, clientVars, ConnectionsHeld, PiecesInOrder, Unhandled, InHand
<1>7. CASE CloseListener
  <2>1. /\ table' = [table EXCEPT ![4] = "free"] /\ table[5] \in Client
        /\ read' = read /\ read = <<>>
        /\ Closed({c \in Client : conn[c] = "backlog"})
    BY <1>7 DEF CloseListener, At, DescriptorsInUse, Serving, ReadSoFar
  <2>2. table'[5] = table[5]
    BY <1>0, <2>1
  <2>3. \A x \in Client : InHand(x) = <<>> /\ InHand(x)' = <<>>
    BY <2>1 DEF InHand
  <2>4. \A x \in Client : conn'[x] = IF conn[x] = "backlog" THEN "closed" ELSE conn[x]
    BY <2>1 DEF Closed
  <2>5. ConnectionsHeld'
    BY <2>2, <2>4 DEF ConnectionsHeld
  <2>6. ASSUME NEW x \in Client PROVE PiecesFollow(x)'
    <3>1. CASE conn[x] = "backlog"
      BY <2>1, <2>3, <3>1, PiecesDropped DEF Closed
    <3>2. CASE conn[x] # "backlog"
      <4>1. conn'[x] = conn[x] /\ arrived'[x] = arrived[x] /\ coming'[x] = coming[x]
        BY <2>1, <3>2 DEF Closed
      <4>2. Unhandled(x)' = Unhandled(x)
        BY <2>3, <4>1 DEF Unhandled
      <4> QED
        BY <1>1, <4>1, <4>2, PiecesStay DEF PiecesInOrder
    <3> QED
      BY <3>1, <3>2
  <2> QED
    BY <1>2, <2>5, <2>6 DEF PiecesInOrder
<1>8. CASE CloseClient
  <2>1. /\ table[5] \in Client /\ table[4] = "free" /\ read' = <<>>
        /\ table' = [table EXCEPT ![5] = "free"] /\ Closed({table[5]})
    BY <1>8 DEF CloseClient, At, DescriptorsInUse, Deaf, Serving
  <2>2. table'[5] = "free" /\ table'[4] = "free"
    BY <1>0, <2>1
  <2>3. \A x \in Client : InHand(x)' = <<>> /\ table'[5] # x
    BY <2>1, <2>2, ClientsApart DEF InHand
  <2>4. \A x \in Client : conn'[x] = IF x = table[5] THEN "closed" ELSE conn[x]
    BY <2>1 DEF Closed
  <2>5. ConnectionsHeld'
    BY <2>1, <2>2, <2>3, <2>4 DEF ConnectionsHeld
  <2>6. ASSUME NEW x \in Client PROVE PiecesFollow(x)'
    <3>1. CASE x = table[5]
      BY <2>1, <2>3, <2>4, <3>1, PiecesDropped DEF Closed
    <3>2. CASE x # table[5]
      <4>1. conn'[x] = conn[x] /\ arrived'[x] = arrived[x] /\ coming'[x] = coming[x]
        BY <2>1, <3>2 DEF Closed
      <4>2. Unhandled(x)' = Unhandled(x)
        BY <2>3, <3>2, <4>1 DEF Unhandled, InHand
      <4> QED
        BY <1>1, <4>1, <4>2, PiecesStay DEF PiecesInOrder
    <3> QED
      BY <3>1, <3>2
  <2> QED
    BY <1>2, <2>5, <2>6 DEF PiecesInOrder
<1>9. CASE Socket
  <2>1. /\ table[3] = "uart" /\ table[5] = "free" /\ table[4] = "free"
        /\ UNCHANGED <<read, conn, coming, arrived>>
    BY <1>9 DEF Socket, At, DescriptorsInUse, Deaf, Serving, clientVars
  <2>2. LowestFree = 4
    BY <2>1, LowestIs
  <2>3. table'[5] = "free"
    BY <1>0, <1>9, <2>1, <2>2 DEF Socket
  <2> QED
    BY <1>2, <1>3, <2>1, <2>3
<1>10. CASE Listen
  <2>1. /\ table[5] = "free" /\ table[4] = "socket" /\ BindAndListen(4, table)
        /\ UNCHANGED <<read, conn, coming, arrived>>
    BY <1>10 DEF Listen, At, DescriptorsInUse, Serving, clientVars
  <2>2. table'[5] = "free"
    BY <1>0, <2>1 DEF BindAndListen
  <2> QED
    BY <1>2, <1>3, <2>1, <2>2
<1> QED
  BY <1>4, <1>5, <1>6, <1>7, <1>8, <1>9, <1>10


\* recv moves pieces into the hand of the session.
LEMMA RecvKeepsPieces ==
  ASSUME TypeOK, DescriptorsInUse, ConnectionsHeld, ReadSoFar, PiecesInOrder,
         NEW n \in Nat, NEW from, NEW to, RecvWhole(n, from, to),
         \/ n = 2 /\ from = "length" /\ to = {"type", "close"}
         \/ n = 1 /\ from = "type" /\ to = {"payload"}
         \/ n = 2 /\ from = "payload" /\ to = {"handle"}
  PROVE  ConnectionsHeld' /\ ReadSoFar' /\ PiecesInOrder'
<1>0. PICK p \in Client : p = table[5]
  BY DEF DescriptorsInUse, Serving, RecvWhole
<1> DEFINE l == arrived[p]
           m == coming[p]
<1>1. PICK next \in to : Recv(n, next)
  BY DEF RecvWhole
<1>2. server = from /\ server \in {"length", "type", "payload"}
  BY DEF RecvWhole
<1>3. PICK r \in Seq(Piece), q \in Seq(Piece) :
        /\ l = r \o q
        /\ Len(r) \in 1 .. n
        /\ read' = read \o r
        /\ arrived' = [arrived EXCEPT ![p] = q]
        /\ server' = IF Len(r) = n THEN next ELSE "close"
  BY <1>0, <1>1, <1>2, RecvEffect, ZenonT(90)
<1>4. UNCHANGED <<table, conn, reset, coming, written, handled>>
  BY <1>1, <1>2, RecvEffect
<1>5. /\ read \in Seq(Piece) /\ l \in Seq(Piece) /\ m \in Seq(Piece)
      /\ Len(read) \in Nat /\ Len(r) \in Nat
  BY <1>4 DEF TypeOK
<1>6. Len(read') = Len(read) + Len(r)
  BY <1>3, <1>5, ConcatProperties
<1>7. arrived[table[5]] # <<>>
  <2>1. Len(r \o q) = Len(r) + Len(q) /\ Len(q) \in Nat
    BY ConcatProperties
  <2>2. Len(r \o q) # 0
    BY <1>3, <1>5, <2>1
  <2> QED
    BY <1>0, <1>3, <2>2
<1>8. ReadSoFar'
  <2>1. CASE from = "length"
    <3>1. read = <<>> /\ Len(read) = 0
      BY <1>2, <2>1 DEF ReadSoFar
    <3>2. server' \in {"type", "close"} /\ (server' = "type" => Len(read') = 2)
      BY <1>1, <1>3, <1>6, <2>1, <3>1
    <3> QED
      BY <3>2 DEF ReadSoFar
  <2>2. CASE from = "type"
    <3>1. Len(read) = 2
      BY <1>2, <1>7, <2>2 DEF ReadSoFar
    <3>2. server' \in {"payload", "close"} /\ (server' = "payload" => Len(read') = 3)
      BY <1>1, <1>3, <1>6, <2>2, <3>1
    <3> QED
      BY <3>2 DEF ReadSoFar
  <2>3. CASE from = "payload"
    <3>1. Len(read) = 3
      BY <1>2, <2>3 DEF ReadSoFar
    <3>2. server' = IF Len(r) = 2 THEN "handle" ELSE "close"
      BY <1>1, <1>3, <2>3
    <3>3. Len(r) = 2 => Len(read') = 5
      BY <1>6, <3>1
    <3>4. server' \in {"handle", "close"} /\ (server' = "handle" => Len(read') = 5)
      BY <3>2, <3>3
    <3> QED
      BY <3>4 DEF ReadSoFar
  <2> QED
    BY <2>1, <2>2, <2>3
<1>9. ConnectionsHeld'
  BY <1>4 DEF ConnectionsHeld
<1>10. Unhandled(p)' = Unhandled(p)
  <2>1. arrived'[p] = q
    BY <1>3, <1>4 DEF TypeOK
  <2>2. Unhandled(p)' = ((read \o r) \o q) \o m /\ Unhandled(p) = (read \o (r \o q)) \o m
    BY <1>0, <1>3, <1>4, <2>1 DEF Unhandled, InHand
  <2>3. (read \o r) \o q = read \o (r \o q)
    <3>1. read \in Seq(Piece)
      BY <1>5
    <3> HIDE DEF l, m
    <3> QED
      BY <3>1, ConcatAssociative
  <2> QED
    BY <2>2, <2>3
<1>11. PiecesFollow(p)'
  BY <1>4, <1>10, PiecesStay DEF PiecesInOrder
<1>12. ASSUME NEW x \in Client, x # p PROVE PiecesFollow(x)'
  <2>1. Unhandled(x)' = Unhandled(x)
    BY <1>0, <1>3, <1>4, <1>12 DEF Unhandled, InHand, TypeOK
  <2> QED
    BY <1>4, <2>1, PiecesStay DEF PiecesInOrder
<1>13. \A x \in Client : PiecesFollow(x)'
  BY <1>11, <1>12
<1> QED
  BY <1>8, <1>9, <1>13 DEF PiecesInOrder

\* A message that is handled was the next of its client, and whole.
LEMMA HandledIsNext ==
  ASSUME TypeOK, DescriptorsInUse, ReadSoFar, PiecesInOrder, server = "handle"
  PROVE  LET p == table[5]
             n == Len(handled[p])
             rest == arrived[p] \o coming[p]
         IN  /\ p \in Client /\ n \in Nat
             /\ read = [i \in 1 .. 5 |-> [client |-> p, message |-> n + 1, part |-> i]]
             /\ rest \in Seq(Piece)
             /\ Len(Unhandled(p)) = 5 + Len(rest)
             /\ \A i \in 1 .. Len(rest) : Unhandled(p)[5 + i] = rest[i]
<1> DEFINE p == table[5]
           n == Len(handled[p])
           rest == arrived[p] \o coming[p]
           w == MessageOf(p, n + 1)
<1>1. p \in Client
  BY DEF DescriptorsInUse, Serving
<1>2. /\ read \in Seq(Piece) /\ Len(read) = 5 /\ InHand(p) = read
      /\ arrived[p] \in Seq(Piece) /\ coming[p] \in Seq(Piece) /\ n \in Nat
  BY <1>1 DEF TypeOK, ReadSoFar, InHand
<1>3. rest \in Seq(Piece)
  BY <1>2, ConcatProperties
<1>4. Unhandled(p) = read \o rest
  <2> DEFINE a == arrived[p]
             m == coming[p]
  <2>1. read \in Seq(Piece) /\ a \in Seq(Piece) /\ m \in Seq(Piece)
    BY <1>2
  <2>2. Unhandled(p) = (read \o a) \o m /\ rest = a \o m
    BY <1>2 DEF Unhandled
  <2> HIDE DEF a, m, rest, p
  <2>3. (read \o a) \o m = read \o (a \o m)
    BY <2>1, ConcatAssociative
  <2> QED
    BY <2>2, <2>3
<1>5. /\ Len(read \o rest) = 5 + Len(rest)
      /\ \A i \in 1 .. 5 + Len(rest) :
           (read \o rest)[i] = IF i <= 5 THEN read[i] ELSE rest[i - 5]
  <2> HIDE DEF rest
  <2>1. /\ Len(read \o rest) = Len(read) + Len(rest)
        /\ \A i \in 1 .. Len(read) + Len(rest) :
             (read \o rest)[i] = IF i <= Len(read) THEN read[i] ELSE rest[i - Len(read)]
    BY <1>2, <1>3, ConcatProperties
  <2> QED
    BY <1>2, <2>1
<1>6. Len(rest) \in Nat
  BY <1>3, LenProperties
<1> HIDE DEF rest
<1>7. \A i \in 1 .. Len(rest) : Unhandled(p)[5 + i] = rest[i]
  <2> SUFFICES ASSUME NEW i \in 1 .. Len(rest) PROVE Unhandled(p)[5 + i] = rest[i]
    OBVIOUS
  <2>1. 5 + i \in 1 .. 5 + Len(rest) /\ ~(5 + i <= 5) /\ 5 + i - 5 = i
    BY <1>6
  <2> QED
    BY <1>4, <1>5, <2>1
<1>8. Len(Unhandled(p)) = 5 + Len(rest)
  BY <1>4, <1>5
<1>9. read = w
  <2>1. \A i \in 1 .. 5 : read[i] = [client |-> p, message |-> n + 1, part |-> i]
    <3> SUFFICES ASSUME NEW i \in 1 .. 5
                 PROVE  read[i] = [client |-> p, message |-> n + 1, part |-> i]
      OBVIOUS
    <3>1. i \in 1 .. 5 + Len(rest) /\ i <= 5
      BY <1>6
    <3>2. Unhandled(p)[i] = read[i]
      BY <1>4, <1>5, <3>1
    <3>3. Unhandled(p)[i] = PieceOf(p, 5 * n + i)
      BY <1>1, <1>8, <3>1 DEF PiecesInOrder, PiecesFollow
    <3>4. PieceOf(p, 5 * n + i) = [client |-> p, message |-> n + 1, part |-> i]
      BY <1>1, <1>2, PieceOfNext
    <3> QED
      BY <3>2, <3>3, <3>4
  <2>2. w \in Seq(Piece) /\ Len(w) = 5
        /\ \A i \in 1 .. 5 : w[i] = [client |-> p, message |-> n + 1, part |-> i]
    <3>1. p \in Client /\ n + 1 \in Nat
      BY <1>1, <1>2
    <3> HIDE DEF p, n
    <3> QED
      BY <3>1, MessageOfType
  <2> HIDE DEF w
  <2>3. Len(read) = Len(w) /\ \A i \in 1 .. Len(read) : read[i] = w[i]
    BY <1>2, <2>1, <2>2
  <2>4. read \in Seq(Piece)
    BY <1>2
  <2> QED
    BY <2>2, <2>3, <2>4, SeqEqual
<1> QED
  BY <1>1, <1>2, <1>3, <1>7, <1>8, <1>9 DEF rest, MessageOf


\* A message is handled: it leaves the hand of the session.
LEMMA HandledKeepsPieces ==
  ASSUME TypeOK, DescriptorsInUse, ConnectionsHeld, ReadSoFar, PiecesInOrder,
         server = "handle", Handled
  PROVE  ConnectionsHeld' /\ ReadSoFar' /\ PiecesInOrder'
<1>1. PICK p \in Client : p = table[5]
  BY DEF DescriptorsInUse, Serving
<1>2. /\ handled' = [handled EXCEPT ![p] = Append(@, read)]
      /\ read' = <<>> /\ server' = "length"
      /\ UNCHANGED <<table, conn, coming, arrived, written>>
  BY <1>1 DEF Handled, Peer, DescriptorsInUse, Serving
<1> DEFINE n == Len(handled[p])
           rest == arrived[p] \o coming[p]
<1>3. /\ rest \in Seq(Piece) /\ n \in Nat
      /\ Len(Unhandled(p)) = 5 + Len(rest)
      /\ \A i \in 1 .. Len(rest) : Unhandled(p)[5 + i] = rest[i]
  BY <1>1, HandledIsNext
<1>4. Unhandled(p)' = rest
  <2>1. arrived[p] \in Seq(Piece)
    BY DEF TypeOK
  <2>2. <<>> \o arrived[p] = arrived[p]
    BY <2>1, ConcatEmptySeq
  <2>3. InHand(p)' = <<>>
    BY <1>2 DEF InHand
  <2> QED
    BY <1>2, <2>2, <2>3 DEF Unhandled
<1>5. Len(handled'[p]) = n + 1
  <2>1. handled[p] \in Seq(Seq(Piece)) /\ read \in Seq(Piece)
    BY DEF TypeOK
  <2>2. Len(Append(handled[p], read)) = n + 1
    BY <2>1, AppendProperties
  <2> QED
    BY <1>2, <2>2 DEF TypeOK
<1>6. PiecesFollow(p)'
  <2>1. Len(rest) \in Nat
    BY <1>3, LenProperties
  <2>2. written[p] \in Nat
    BY DEF TypeOK
  <2>3. /\ \A i \in 1 .. Len(Unhandled(p)) : Unhandled(p)[i] = PieceOf(p, 5 * n + i)
        /\ conn[p] # "closed" => 5 * n + Len(Unhandled(p)) = 5 * written[p]
    BY DEF PiecesInOrder, PiecesFollow
  <2> HIDE DEF rest, n
  <2>4. \A i \in 1 .. Len(rest) : rest[i] = PieceOf(p, 5 * (n + 1) + i)
    <3> SUFFICES ASSUME NEW i \in 1 .. Len(rest) PROVE rest[i] = PieceOf(p, 5 * (n + 1) + i)
      OBVIOUS
    <3>1. 5 + i \in 1 .. 5 + Len(rest) /\ 5 * n + (5 + i) = 5 * (n + 1) + i
      BY <1>3, <2>1
    <3>2. Unhandled(p)[5 + i] = PieceOf(p, 5 * n + (5 + i))
      BY <1>3, <2>3, <3>1
    <3> QED
      BY <1>3, <3>1, <3>2
  <2>5. conn[p] # "closed" => 5 * (n + 1) + Len(rest) = 5 * written[p]
    BY <1>3, <2>1, <2>2, <2>3
  <2> QED
    BY <1>2, <1>4, <1>5, <2>4, <2>5 DEF PiecesFollow
<1>7. ASSUME NEW x \in Client, x # p PROVE PiecesFollow(x)'
  <2>1. Unhandled(x)' = Unhandled(x) /\ handled'[x] = handled[x]
    BY <1>1, <1>2, <1>7 DEF Unhandled, InHand, TypeOK
  <2> QED
    BY <1>2, <2>1, PiecesStay DEF PiecesInOrder
<1>8. \A x \in Client : PiecesFollow(x)'
  BY <1>6, <1>7
<1>9. ConnectionsHeld' /\ ReadSoFar'
  BY <1>2 DEF ConnectionsHeld, ReadSoFar
<1> QED
  BY <1>8, <1>9 DEF PiecesInOrder

\* The session goes on without a message.
LEMMA EndKeepsPieces ==
  ASSUME TypeOK, DescriptorsInUse, ConnectionsHeld, ReadSoFar, PiecesInOrder,
         NEW from, NEW to, Ends(from, to),
         \/ from = "length" /\ to = {"close"} \cup (IF reset[Peer] THEN {"type"} ELSE {})
         \/ from \in {"type", "payload"} /\ to = {"close"}
  PROVE  ConnectionsHeld' /\ ReadSoFar' /\ PiecesInOrder'
<1>1. /\ UNCHANGED <<table, read, conn, coming, arrived, written, handled, reset>>
      /\ server = from /\ server' \in to /\ AtEnd(Peer) /\ Peer = table[5]
  BY DEF Ends, Peer, DescriptorsInUse, Serving
<1>2. ConnectionsHeld'
  BY <1>1 DEF ConnectionsHeld
<1>3. ReadSoFar'
  <2>1. CASE server' = "close"
    BY <2>1 DEF ReadSoFar
  <2>2. CASE server' = "type" /\ server = "length" /\ reset[table[5]]
    <3>1. arrived[table[5]] = <<>> /\ read = <<>>
      BY <1>1, <2>2 DEF AtEnd, ReadSoFar
    <3> QED
      BY <1>1, <2>2, <3>1 DEF ReadSoFar
  <2> QED
    BY <1>1, <2>1, <2>2
<1>4. \A x \in Client : PiecesFollow(x)'
  BY <1>1, PiecesStay DEF PiecesInOrder, Unhandled, InHand
<1> QED
  BY <1>2, <1>3, <1>4 DEF PiecesInOrder

\* Every step keeps the connections and the pieces.
LEMMA StepKeepsPieces ==
  ASSUME TypeOK, DescriptorsInUse, ConnectionsHeld, ReadSoFar, PiecesInOrder, [Next]_vars
  PROVE  ConnectionsHeld' /\ ReadSoFar' /\ PiecesInOrder'
<1>1. CASE UNCHANGED vars
  BY <1>1, NothingMoves DEF vars, daemonVars, clientVars
<1>2. CASE \/ RecvLength \/ RecvLengthEnd \/ RecvType \/ RecvPayload
           \/ HandleOp \/ HandleCommand \/ HandleCommandBroken
  <2>1. CASE \/ RecvWhole(2, "length", {"type", "close"})
             \/ RecvWhole(1, "type", {"payload"})
             \/ RecvWhole(2, "payload", {"handle"})
    BY <2>1, RecvKeepsPieces
  <2>2. CASE \/ Ends("length", {"close"} \cup (IF reset[Peer] THEN {"type"} ELSE {}))
             \/ Ends("type", {"close"})
             \/ Ends("payload", {"close"})
    BY <2>2, EndKeepsPieces
  <2>3. CASE server = "handle" /\ Handled
    BY <2>3, HandledKeepsPieces
  <2> QED
    BY <1>2, <2>1, <2>2, <2>3, SessionStep, DieKeepsPieces
<1> QED
  BY <1>1, <1>2, ClientKeepsPieces, SendsKeepPieces, SocketsKeepPieces DEF Next, Serve

\* Nothing is connected, read or written in the first state.
LEMMA InitPieces == Init => ConnectionsHeld /\ ReadSoFar /\ PiecesInOrder
<1> SUFFICES ASSUME Init PROVE ConnectionsHeld /\ ReadSoFar /\ PiecesInOrder
  OBVIOUS
<1>1. ConnectionsHeld
  BY ClientsApart DEF Init, ConnectionsHeld, Descriptor
<1>2. ReadSoFar
  BY DEF Init, ReadSoFar
<1>3. ASSUME NEW c \in Client PROVE PiecesFollow(c)
  <2>1. /\ InHand(c) = <<>> /\ arrived[c] = <<>> /\ coming[c] = <<>> /\ handled[c] = <<>>
        /\ written[c] = 0 /\ <<>> \in Seq(Piece)
    BY <1>3 DEF Init, InHand
  <2>2. <<>> \o <<>> = <<>>
    BY <2>1, ConcatEmptySeq
  <2>3. Unhandled(c) = <<>>
    BY <2>1, <2>2 DEF Unhandled
  <2> QED
    BY <2>1, <2>3 DEF PiecesFollow
<1> QED
  BY <1>1, <1>2, <1>3 DEF PiecesInOrder

\* What is handled grows by the next message of its client, or not at all.
LEMMA HandledStep ==
  ASSUME TypeOK, DescriptorsInUse, ReadSoFar, PiecesInOrder, [Next]_vars
  PROVE  \/ handled' = handled
         \/ \E p \in Client :
              handled' = [handled EXCEPT ![p] = Append(@, MessageOf(p, Len(@) + 1))]
<1>1. CASE \E c \in Client : Connect(c) \/ Write(c) \/ Arrive(c) \/ Read(c) \/ Leave(c)
  BY <1>1 DEF Connect, Write, Arrive, Read, Leave
<1>2. CASE \E t \in Thread : Resume(t) \/ ResumeBroken(t)
  BY <1>2 DEF Resume, ResumeBroken, Die
<1>3. CASE SendEvent \/ SendEventBroken \/ PollNothing \/ UNCHANGED vars
  BY <1>3 DEF SendEvent, SendEventBroken, PollNothing, Die, vars, clientVars
<1>4. CASE \/ Start \/ Accept \/ AcceptFails \/ AssignClient \/ CloseListener \/ CloseClient
           \/ Socket \/ Listen
  BY <1>4
  DEF Start, Accept, AcceptFails, AssignClient, CloseListener, CloseClient, Socket, Listen,
      clientVars
<1>5. CASE RecvLength \/ RecvLengthEnd \/ RecvType \/ RecvPayload \/ HandleCommandBroken
  BY <1>5 DEF RecvLength, RecvLengthEnd, RecvType, RecvPayload, Recv, GoOn, clientVars,
              HandleCommandBroken, Die
<1>6. CASE HandleOp \/ HandleCommand
  <2>1. server = "handle" /\ Handled
    BY <1>6 DEF HandleOp, HandleCommand, At
  <2>2. Peer = table[5] /\ table[5] \in Client
    BY <2>1 DEF Peer, DescriptorsInUse, Serving
  <2>3. read = MessageOf(table[5], Len(handled[table[5]]) + 1)
    BY <2>1, HandledIsNext DEF MessageOf
  <2> QED
    BY <2>1, <2>2, <2>3 DEF Handled
<1> QED
  BY <1>1, <1>2, <1>3, <1>4, <1>5, <1>6 DEF Next, Serve


\* The messages of a client that are queued or carried out are its first ones,
\* whole and in order, whatever pieces TCP brings them in, whenever a connection
\* breaks, and for any number of clients and messages (the recv calls of
\* hci_bridge_start_internal).
THEOREM WholeMessagesHold == Spec => []WholeMessages
<1> DEFINE Inv == TypeOK /\ DescriptorsInUse /\ ConnectionsHeld /\ ReadSoFar /\ PiecesInOrder
<1>1. Init => Inv /\ WholeMessages
  BY InitTypes, InitPieces DEF Init, WholeMessages
<1>2. ASSUME Inv, WholeMessages, [Next]_vars PROVE Inv' /\ WholeMessages'
  <2>1. Inv'
    BY <1>2, StepKeepsTypes, StepKeepsPieces
  <2>2. \A c \in Client : \A n \in 1 .. Len(handled[c]) : handled[c][n] = MessageOf(c, n)
    BY <1>2 DEF WholeMessages, MessageOf
  <2>3. \A c \in Client : \A n \in 1 .. Len(handled'[c]) : handled'[c][n] = MessageOf(c, n)
    <3>1. CASE handled' = handled
      BY <2>2, <3>1
    <3>2. ASSUME NEW p \in Client,
                 handled' = [handled EXCEPT ![p] = Append(@, MessageOf(p, Len(@) + 1))]
          PROVE  \A c \in Client : \A n \in 1 .. Len(handled'[c]) : handled'[c][n] = MessageOf(c, n)
      <4> DEFINE h == handled[p]
                 m == MessageOf(p, Len(h) + 1)
      <4>1. h \in Seq(Seq(Piece)) /\ Len(h) \in Nat
        BY <1>2 DEF TypeOK
      <4>2. m \in Seq(Piece)
        <5>1. Len(h) + 1 \in Nat
          BY <4>1
        <5> HIDE DEF h
        <5> QED
          BY <5>1, MessageOfType
      <4>3. handled'[p] = Append(h, m) /\ \A c \in Client : c # p => handled'[c] = handled[c]
        BY <1>2, <3>2 DEF TypeOK
      <4>4. /\ Len(Append(h, m)) = Len(h) + 1
            /\ \A n \in 1 .. Len(h) : Append(h, m)[n] = h[n]
            /\ Append(h, m)[Len(h) + 1] = m
        <5> HIDE DEF h, m
        <5> QED
          BY <4>1, <4>2, AppendProperties
      <4>5. \A n \in 1 .. Len(h) : h[n] = MessageOf(p, n)
        BY <2>2
      <4> HIDE DEF h
      <4>6. \A n \in 1 .. Len(h) + 1 : Append(h, m)[n] = MessageOf(p, n)
        BY <4>1, <4>4, <4>5
      <4> QED
        BY <2>2, <4>3, <4>4, <4>6
    <3> QED
      BY <1>2, <3>1, <3>2, HandledStep
  <2> QED
    BY <2>1, <2>3 DEF WholeMessages, MessageOf
<1> QED
  BY <1>1, <1>2, PTL DEF Spec

-----------------------------------------------------------------------------
(* What the two threads send.                                              *)

\* The other half of a message, for each of its halves.
LEMMA OtherHalfIs ==
  ASSUME NEW h \in Half
  PROVE  /\ OtherHalf(h) \in Half /\ OtherHalf(OtherHalf(h)) = h
         /\ OtherHalf(h).from = h.from /\ OtherHalf(h).number = h.number
         /\ OtherHalf(h).half = 3 - h.half
         /\ h.from \in Thread /\ h.number \in Nat /\ h.half \in {1, 2}
<1>1. PICK f \in Thread, n \in Nat, k \in 1 .. 2 : h = [from |-> f, number |-> n, half |-> k]
  BY DEF Half
<1>2. OtherHalf(h) = [from |-> f, number |-> n, half |-> 3 - k] /\ 3 - k \in 1 .. 2
  BY <1>1 DEF OtherHalf
<1>3. OtherHalf([from |-> f, number |-> n, half |-> 3 - k])
        = [from |-> f, number |-> n, half |-> 3 - (3 - k)]
  BY DEF OtherHalf
<1>4. 3 - (3 - k) = k
  OBVIOUS
<1>5. h.half = k /\ k \in {1, 2}
  BY <1>1
<1> QED
  BY <1>1, <1>2, <1>3, <1>4, <1>5 DEF Half

\* What is sent first is among what is sent.
LEMMA ConcatRange ==
  ASSUME NEW S, NEW q \in Seq(S), NEW r \in Seq(S)
  PROVE  Range(q \o r) = Range(q) \cup Range(r)
<1> DEFINE z == q \o r
<1>1. /\ z \in Seq(S) /\ Len(z) = Len(q) + Len(r)
      /\ \A i \in 1 .. Len(q) + Len(r) : z[i] = IF i <= Len(q) THEN q[i] ELSE r[i - Len(q)]
      /\ Len(q) \in Nat /\ Len(r) \in Nat
  BY ConcatProperties, LenProperties
<1>2. /\ DOMAIN q = 1 .. Len(q) /\ DOMAIN r = 1 .. Len(r)
      /\ DOMAIN z = 1 .. Len(q) + Len(r)
  <2>1. DOMAIN z = 1 .. Len(z)
    BY <1>1, LenProperties
  <2> QED
    BY <1>1, <2>1, LenProperties
<1> HIDE DEF z
<1>3. \A i \in 1 .. Len(q) : z[i] = q[i] /\ i \in DOMAIN z
  BY <1>1, <1>2
<1>4. \A i \in 1 .. Len(r) : z[Len(q) + i] = r[i] /\ Len(q) + i \in DOMAIN z
  BY <1>1, <1>2
<1>5. ASSUME NEW i \in DOMAIN z PROVE z[i] \in Range(q) \cup Range(r)
  <2>1. CASE i <= Len(q)
    BY <1>1, <1>2, <2>1 DEF Range
  <2>2. CASE ~(i <= Len(q))
    <3>1. i - Len(q) \in 1 .. Len(r)
      BY <1>1, <1>2, <2>2
    <3> QED
      BY <1>1, <1>2, <2>2, <3>1 DEF Range
  <2> QED
    BY <2>1, <2>2
<1>6. Range(z) \subseteq Range(q) \cup Range(r)
  BY <1>5 DEF Range
<1>7. Range(q) \subseteq Range(z)
  BY <1>2, <1>3 DEF Range
<1>8. Range(r) \subseteq Range(z)
  BY <1>2, <1>4 DEF Range
<1>9. Range(z) = Range(q) \cup Range(r)
  BY <1>6, <1>7, <1>8
<1> QED
  BY <1>9 DEF z

LEMMA AppendedRange ==
  ASSUME NEW S, NEW q \in Seq(S), NEW a \in S
  PROVE  q \o <<a>> \in Seq(S) /\ Range(q \o <<a>>) = Range(q) \cup {a}
<1> DEFINE y == <<a>>
<1>1. y \in Seq(S) /\ Range(y) = {a}
  BY DEF Range
<1> HIDE DEF y
<1>2. q \o y \in Seq(S) /\ Range(q \o y) = Range(q) \cup {a}
  BY <1>1, ConcatRange, ConcatProperties
<1> QED
  BY <1>2 DEF y

\* Two halves appended one after the other.
LEMMA PairAppended ==
  ASSUME NEW q \in Seq(Half), NEW a \in Half, NEW b \in Half
  PROVE  q \o <<a, b>> = (q \o <<a>>) \o <<b>>
<1> DEFINE z == <<a>> \o <<b>>
<1>1. <<a>> \in Seq(Half) /\ <<b>> \in Seq(Half) /\ Len(<<a>>) = 1 /\ Len(<<b>>) = 1
  OBVIOUS
<1>2. /\ z \in Seq(Half) /\ Len(z) = 2
      /\ \A i \in 1 .. 2 : z[i] = IF i <= 1 THEN <<a>>[i] ELSE <<b>>[i - 1]
  BY <1>1, ConcatProperties
<1>3. z[1] = a /\ z[2] = b
  BY <1>2
<1>4. <<a, b>> \in Seq(Half) /\ Len(<<a, b>>) = 2 /\ <<a, b>>[1] = a /\ <<a, b>>[2] = b
  OBVIOUS
<1> HIDE DEF z
<1>5. \A i \in 1 .. 2 : z[i] = <<a, b>>[i]
  BY <1>3, <1>4
<1>6. z = <<a, b>>
  BY <1>2, <1>4, <1>5, SeqEqual
<1>7. (q \o <<a>>) \o <<b>> = q \o z
  <2> DEFINE x == <<a>>
             y == <<b>>
  <2>1. x \in Seq(Half) /\ y \in Seq(Half)
    BY <1>1
  <2> HIDE DEF x, y
  <2>2. (q \o x) \o y = q \o (x \o y)
    BY <2>1, ConcatAssociative
  <2> QED
    BY <2>2 DEF x, y, z
<1> QED
  BY <1>6, <1>7

\* Each thread's halves come once and in order.
Ordered(q) ==
  \A i, j \in 1 .. Len(q) : i < j /\ q[i].from = q[j].from => Follows(q[j], q[i])

\* They still do when one more is sent that follows those of its thread.
LEMMA OrderedAppend ==
  ASSUME NEW q \in Seq(Half), Ordered(q), NEW h \in Half,
         \A g \in Range(q) : g.from = h.from => Follows(h, g)
  PROVE  Ordered(q \o <<h>>)
<1> DEFINE z == q \o <<h>>
<1>1. /\ <<h>> \in Seq(Half) /\ Len(<<h>>) = 1 /\ <<h>>[1] = h
  OBVIOUS
<1>2. /\ Len(z) = Len(q) + 1 /\ Len(q) \in Nat
      /\ \A i \in 1 .. Len(q) + 1 : z[i] = IF i <= Len(q) THEN q[i] ELSE <<h>>[i - Len(q)]
  BY <1>1, ConcatProperties, LenProperties
<1>3. \A i \in 1 .. Len(q) : z[i] = q[i]
  BY <1>2
<1>4. z[Len(q) + 1] = h
  <2>1. Len(q) + 1 \in 1 .. Len(q) + 1 /\ ~(Len(q) + 1 <= Len(q)) /\ Len(q) + 1 - Len(q) = 1
    BY <1>2
  <2> QED
    BY <1>1, <1>2, <2>1
<1>5. \A i \in 1 .. Len(q) : q[i] \in Range(q)
  <2>1. DOMAIN q = 1 .. Len(q)
    BY LenProperties
  <2> QED
    BY <2>1 DEF Range
<1> HIDE DEF z
<1>6. ASSUME NEW i \in 1 .. Len(z), NEW j \in 1 .. Len(z), i < j, z[i].from = z[j].from
      PROVE  Follows(z[j], z[i])
  <2>1. i \in 1 .. Len(q)
    BY <1>2, <1>6
  <2>2. CASE j \in 1 .. Len(q)
    BY <1>3, <1>6, <2>1, <2>2 DEF Ordered
  <2>3. CASE j = Len(q) + 1
    BY <1>3, <1>4, <1>5, <1>6, <2>1, <2>3
  <2> QED
    BY <1>2, <2>2, <2>3
<1>7. Ordered(z)
  BY <1>6 DEF Ordered
<1> QED
  BY <1>7 DEF z

\* One of a sequence.
LEMMA OneOf ==
  ASSUME NEW S, NEW q \in Seq(S), NEW i \in 1 .. Len(q)
  PROVE  SubSeq(q, i, i) = <<q[i]>>
<1> DEFINE z == SubSeq(q, i, i)
           y == <<q[i]>>
<1>1. i \in Int /\ q[i] \in S
  BY ElementOfSeq
<1>2. \A j \in i .. i : q[j] \in S
  BY <1>1
<1>3. z \in Seq(S) /\ Len(z) = 1 /\ \A j \in 1 .. 1 : z[j] = q[i + j - 1]
  <2>1. /\ z \in Seq(S)
        /\ Len(z) = IF i <= i THEN i - i + 1 ELSE 0
        /\ \A j \in 1 .. i - i + 1 : z[j] = q[i + j - 1]
    BY <1>1, <1>2, SubSeqProperties
  <2> QED
    BY <1>1, <2>1
<1>4. z[1] = q[i]
  <2>1. i + 1 - 1 = i
    BY <1>1
  <2> QED
    BY <1>3, <2>1
<1>5. y \in Seq(S) /\ Len(y) = 1 /\ y[1] = q[i]
  BY <1>1
<1> HIDE DEF z, y
<1>6. \A j \in 1 .. Len(z) : z[j] = y[j]
  BY <1>3, <1>4, <1>5
<1>7. z = y
  BY <1>3, <1>5, <1>6, SeqEqual
<1> QED
  BY <1>7 DEF z, y

\* A message, or the second half of one, goes out whole, or a half of it, or nothing.
LEMMA PutOutcome ==
  ASSUME SendType, NEW t \in Thread, NEW c \in Client, NEW h \in Half, NEW rest,
         rest = <<h, OtherHalf(h)>> \/ rest = <<h>>,
         Put(t, c, rest)
  PROVE  /\ UNCHANGED reset
         /\ \/ /\ stream' = stream
               /\ sending' = [sending EXCEPT ![t] = [to |-> c, rest |-> rest]]
            \/ /\ rest = <<h, OtherHalf(h)>>
               /\ stream' = [stream EXCEPT ![c] = @ \o <<h>>]
               /\ sending' = [sending EXCEPT ![t] = [to |-> c, rest |-> <<OtherHalf(h)>>]]
            \/ /\ stream' = [stream EXCEPT ![c] = @ \o rest]
               /\ sending' = [sending EXCEPT ![t] = Idle]
<1> DEFINE n == Min({Room(c), Len(rest)})
           o == OtherHalf(h)
<1>1. /\ stream' = [stream EXCEPT ![c] = @ \o SubSeq(rest, 1, n)]
      /\ sending' = [sending EXCEPT ![t] =
           IF n = Len(rest) THEN Idle ELSE [to |-> c, rest |-> SubSeq(rest, n + 1, Len(rest))]]
      /\ reset' = reset
  BY DEF Put
<1>2. o \in Half
  BY OtherHalfIs
<1> HIDE DEF o
<1>3. rest \in Seq(Half) /\ Len(rest) \in {1, 2} /\ Len(rest) # 0
  <2>1. CASE rest = <<h, o>>
    BY <1>2, <2>1
  <2>2. CASE rest = <<h>>
    BY <2>2
  <2> QED
    BY <2>1, <2>2 DEF o
<1>4. n \in Nat /\ n <= Len(rest)
  <2>1. Room(c) \in Nat
    BY BoundAssumption DEF SendType, Room
  <2> QED
    BY <1>3, <2>1, MinOfTwo
<1> HIDE DEF n
<1>5. CASE n = 0
  <2>1. SubSeq(rest, 1, n) = <<>> /\ SubSeq(rest, n + 1, Len(rest)) = rest /\ n # Len(rest)
    <3>1. SubSeq(rest, 1, 0) = <<>>
      BY SubSeqEmpty
    <3>2. SubSeq(rest, 1, Len(rest)) = rest
      BY <1>3, SubSeqFull
    <3>3. n + 1 = 1
      BY <1>5
    <3> QED
      BY <1>3, <1>5, <3>1, <3>2, <3>3
  <2>2. stream[c] \o <<>> = stream[c]
    <3>1. stream[c] \in Seq(Half)
      BY DEF SendType
    <3> QED
      BY <3>1, ConcatEmptySeq
  <2>3. stream' = stream
    BY <1>1, <2>1, <2>2 DEF SendType
  <2> QED
    BY <1>1, <2>1, <2>3
<1>6. CASE n = Len(rest)
  <2>1. SubSeq(rest, 1, n) = rest
    BY <1>3, <1>6, SubSeqFull
  <2> QED
    BY <1>1, <1>6, <2>1
<1>7. CASE n = 1 /\ Len(rest) = 2
  <2>1. rest = <<h, o>>
    <3>1. Len(<<h>>) = 1
      OBVIOUS
    <3> QED
      BY <1>7, <3>1 DEF o
  <2>2. SubSeq(rest, 1, 1) = <<h>> /\ SubSeq(rest, 2, 2) = <<o>>
    <3>1. rest[1] = h /\ rest[2] = o
      BY <2>1
    <3>2. 1 \in 1 .. Len(rest) /\ 2 \in 1 .. Len(rest)
      BY <1>7
    <3>3. SubSeq(rest, 1, 1) = <<rest[1]>>
      BY <1>3, <3>2, OneOf
    <3>4. SubSeq(rest, 2, 2) = <<rest[2]>>
      BY <1>3, <3>2, OneOf
    <3> QED
      BY <3>1, <3>3, <3>4
  <2>3. SubSeq(rest, 1, n) = <<h>> /\ SubSeq(rest, n + 1, Len(rest)) = <<o>> /\ n # Len(rest)
    <3>1. n + 1 = 2
      BY <1>7
    <3> QED
      BY <1>7, <2>2, <3>1
  <2> QED
    BY <1>1, <2>1, <2>3 DEF o
<1>8. n = 0 \/ n = Len(rest) \/ (n = 1 /\ Len(rest) = 2)
  <2>1. Len(rest) = 1 \/ Len(rest) = 2
    BY <1>3
  <2>2. CASE Len(rest) = 1
    BY <1>4, <2>2
  <2>3. CASE Len(rest) = 2
    BY <1>4, <2>3
  <2> QED
    BY <2>1, <2>2, <2>3
<1> QED
  BY <1>5, <1>6, <1>7, <1>8

\* SendsComplete by client.
Complete(c, h) ==
  \/ OtherHalf(h) \in Range(stream[c])
  \/ /\ h.half = 1
     /\ \/ sending[h.from] = [to |-> c, rest |-> <<OtherHalf(h)>>]
        \/ left[c] \/ conn[c] = "closed"

LEMMA CompleteIs ==
  /\ SendsComplete <=> \A c \in Client : /\ Ordered(stream[c])
                                         /\ \A h \in Range(stream[c]) : Complete(c, h)
  /\ SendsComplete' <=> \A c \in Client : /\ Ordered(stream'[c])
                                          /\ \A h \in Range(stream'[c]) : Complete(c, h)'
BY DEF SendsComplete, Ordered, Complete

\* What is in a stream.
LEMMA InStream ==
  ASSUME SendType, NEW c \in Client
  PROVE  stream[c] \in Seq(Half) /\ \A h \in Range(stream[c]) : h \in Half
<1>1. stream[c] \in Seq(Half) /\ DOMAIN stream[c] = 1 .. Len(stream[c])
  BY LenProperties DEF SendType
<1>2. \A i \in 1 .. Len(stream[c]) : stream[c][i] \in Half
  BY <1>1, ElementOfSeq
<1> QED
  BY <1>1, <1>2 DEF Range

\* The numbers only grow, and a client that has left, or is disconnected, stays so.
Later ==
  /\ \A t \in Thread, c \in Client :
       /\ LastNumber(t, c) \in Nat /\ LastNumber(t, c)' \in Nat
       /\ LastNumber(t, c) <= LastNumber(t, c)'
  /\ \A c \in Client :
       /\ left[c] => left'[c]
       /\ conn[c] = "closed" => conn'[c] = "closed"
       /\ conn'[c] = "none" => conn[c] = "none"

\* A thread that is blocked stays in order when nothing of its own is sent.
LEMMA BlockedStays ==
  ASSUME SendType, Later, NEW u \in Thread, BlockedInOrder(u), sending'[u] = sending[u],
         \A c \in Client : /\ Range(stream[c]) \subseteq Range(stream'[c])
                           /\ \A g \in Range(stream'[c]) \ Range(stream[c]) : g.from # u
  PROVE  BlockedInOrder(u)'
<1> SUFFICES ASSUME sending[u].to # NoClient PROVE BlockedInOrder(u)'
  BY DEF BlockedInOrder
<1>0. sending[u].to \in Client
  BY DEF SendType
<1>1. PICK c \in Client : \E h : c = sending[u].to /\ h = sending[u].rest[1]
  BY <1>0
<1> PICK h : c = sending[u].to /\ h = sending[u].rest[1]
  BY <1>1
<1>2. /\ conn[c] # "none"
      /\ h.from = u /\ h.number \in 1 .. LastNumber(u, c)
      /\ \/ h.half = 1 /\ sending[u].rest = <<h, OtherHalf(h)>>
         \/ h.half = 2 /\ sending[u].rest = <<h>> /\ OtherHalf(h) \in Range(stream[c])
      /\ \A g \in Range(stream[c]) : g.from = u => Follows(h, g)
  BY <1>1 DEF BlockedInOrder
<1>3. c = sending'[u].to /\ h = sending'[u].rest[1] /\ sending'[u].rest = sending[u].rest
  BY <1>1
<1>4. conn'[c] # "none"
  BY <1>1, <1>2 DEF Later
<1>5. h.number \in 1 .. LastNumber(u, c)'
  <2>1. /\ LastNumber(u, c) \in Nat /\ LastNumber(u, c)' \in Nat
        /\ LastNumber(u, c) <= LastNumber(u, c)'
    BY <1>1 DEF Later
  <2> QED
    BY <1>2, <2>1
<1>6. OtherHalf(h) \in Range(stream[c]) => OtherHalf(h) \in Range(stream'[c])
  BY <1>1
<1>7. \A g \in Range(stream'[c]) : g.from = u => Follows(h, g)
  BY <1>1, <1>2
<1> QED
  BY <1>2, <1>3, <1>4, <1>5, <1>6, <1>7 DEF BlockedInOrder

\* Thread t goes on with, or ends, a send of halves that follow what it has sent to c.
Adds(t, c, new) ==
  /\ conn[c] # "none" /\ conn' = conn /\ left' = left
  /\ \A x \in Client : reset'[x] => left[x]
  /\ \A u \in Thread \ {t} : sending'[u] = sending[u]
  /\ sending[t].to \in {c, NoClient}
  /\ \A x \in Client \ {c} : stream'[x] = stream[x]
  /\ Range(stream'[c]) = Range(stream[c]) \cup new
  /\ \A h \in new : h.from = t /\ h.number <= LastNumber(t, c)'
  /\ BlockedInOrder(t)' /\ Ordered(stream'[c])
  /\ \A h \in Range(stream'[c]) : h.from = t => Complete(c, h)'

\* Nothing changes for the other thread, and for the other clients.
LEMMA SendsGrow ==
  ASSUME SendType, SendsInOrder, SendsComplete, Later,
         NEW t \in Thread, NEW c \in Client, NEW new, Adds(t, c, new)
  PROVE  SendsInOrder' /\ SendsComplete'
<1>0. /\ conn[c] # "none" /\ conn' = conn /\ left' = left
      /\ \A x \in Client : reset'[x] => left[x]
      /\ sending[t].to \in {c, NoClient}
      /\ \A x \in Client \ {c} : stream'[x] = stream[x]
      /\ Range(stream'[c]) = Range(stream[c]) \cup new
      /\ \A h \in new : h.from = t /\ h.number <= LastNumber(t, c)'
      /\ BlockedInOrder(t)' /\ Ordered(stream'[c])
      /\ \A h \in Range(stream'[c]) : h.from = t => Complete(c, h)'
  BY DEF Adds
<1>1. \A u \in Thread : u # t => sending'[u] = sending[u]
  BY DEF Adds
<1>2. \A u \in Thread : BlockedInOrder(u)'
  <2> SUFFICES ASSUME NEW u \in Thread, u # t PROVE BlockedInOrder(u)'
    BY <1>0
  <2>1. BlockedInOrder(u)
    BY DEF SendsInOrder
  <2>2. \A x \in Client : /\ Range(stream[x]) \subseteq Range(stream'[x])
                          /\ \A g \in Range(stream'[x]) \ Range(stream[x]) : g.from # u
    BY <1>0
  <2> QED
    BY <1>1, <2>1, <2>2, BlockedStays
<1>3. ASSUME NEW x \in Client
      PROVE  /\ reset'[x] => left'[x]
             /\ conn'[x] = "none" => stream'[x] = <<>>
             /\ \A h \in Range(stream'[x]) : h.number <= LastNumber(h.from, x)'
             /\ Ordered(stream'[x])
             /\ \A h \in Range(stream'[x]) : Complete(x, h)'
  <2>1. reset'[x] => left'[x]
    BY <1>0
  <2>2. conn'[x] = "none" => stream'[x] = <<>>
    BY <1>0 DEF SendsInOrder
  <2>3. ASSUME NEW h \in Range(stream[x])
        PROVE  h.number <= LastNumber(h.from, x)'
    <3>1. h \in Half /\ h.number <= LastNumber(h.from, x)
      BY <2>3, InStream DEF SendsInOrder
    <3>2. h.from \in Thread /\ h.number \in Nat
      BY <3>1, OtherHalfIs
    <3>3. /\ LastNumber(h.from, x) \in Nat /\ LastNumber(h.from, x)' \in Nat
          /\ LastNumber(h.from, x) <= LastNumber(h.from, x)'
      BY <3>2 DEF Later
    <3> QED
      BY <3>1, <3>2, <3>3
  <2>4. Ordered(stream[x]) /\ \A h \in Range(stream[x]) : Complete(x, h)
    BY CompleteIs
  <2>5. ASSUME NEW h \in Range(stream[x]), x # c \/ h.from # t
        PROVE  Complete(x, h)'
    <3>1. h \in Half /\ h.from \in Thread
      BY <2>5, InStream, OtherHalfIs
    <3>2. Range(stream[x]) \subseteq Range(stream'[x])
      BY <1>0
    <3>3. sending[h.from] = [to |-> x, rest |-> <<OtherHalf(h)>>]
            => sending'[h.from] = sending[h.from]
      <4>1. CASE h.from # t
        BY <1>1, <3>1, <4>1
      <4>2. CASE h.from = t /\ x # c
        <5>1. sending[t].to # x
          BY <1>0, <4>2, ClientsApart DEF NoClient
        <5> QED
          BY <4>2, <5>1
      <4> QED
        BY <2>5, <4>1, <4>2
    <3> QED
      BY <1>0, <2>4, <3>2, <3>3 DEF Complete
  <2>6. CASE x = c
    <3>1. \A h \in Range(stream'[c]) : h.number <= LastNumber(h.from, c)'
      BY <1>0, <2>3, <2>6
    <3>2. \A h \in Range(stream'[c]) : Complete(c, h)'
      BY <1>0, <2>5, <2>6
    <3> QED
      BY <1>0, <2>1, <2>2, <2>6, <3>1, <3>2
  <2>7. CASE x # c
    BY <1>0, <2>1, <2>2, <2>3, <2>4, <2>5, <2>7
  <2> QED
    BY <2>6, <2>7
<1> QED
  BY <1>2, <1>3, CompleteIs DEF SendsInOrder

\* Whatever becomes of a message, or the second half of one, that is sent to c.
LEMMA SentKeepsSends ==
  ASSUME SendType, SendType', SendsInOrder, SendsComplete, Later,
         NEW t \in Thread, NEW c \in Client, NEW h \in Half, NEW rest,
         h.from = t, h.number \in 1 .. LastNumber(t, c)',
         \/ h.half = 1 /\ rest = <<h, OtherHalf(h)>>
         \/ h.half = 2 /\ rest = <<h>> /\ OtherHalf(h) \in Range(stream[c]),
         \A g \in Range(stream[c]) : g.from = t => Follows(h, g),
         sending[t] = Idle \/ sending[t] = [to |-> c, rest |-> rest],
         Sent(t, c, rest),
         conn[c] # "none", conn' = conn, left' = left
  PROVE  SendsInOrder' /\ SendsComplete'
<1> DEFINE o == OtherHalf(h)
<1>1. /\ o \in Half /\ OtherHalf(o) = h /\ o.from = t /\ o.number = h.number
      /\ o.half = 3 - h.half /\ h.half \in {1, 2} /\ h.number \in Nat
  BY OtherHalfIs
<1> HIDE DEF o
<1>2. sending[t].to \in {c, NoClient}
  BY DEF Idle
<1>3. /\ stream[c] \in Seq(Half) /\ Ordered(stream[c])
      /\ \A g \in Range(stream[c]) : g \in Half /\ Complete(c, g)
  BY InStream, CompleteIs
<1>4. c # NoClient
  BY ClientsApart DEF NoClient
<1>5. \A x \in Client : reset[x] => left[x]
  BY DEF SendsInOrder
\* A half that is not complete waits for the half that is sent now, or c has left.
<1>6. ASSUME NEW g \in Range(stream[c]), g.from = t, OtherHalf(g) \notin Range(stream[c])
      PROVE  /\ g.half = 1
             /\ \/ left[c] \/ conn[c] = "closed"
                \/ rest = <<h>> /\ g = o /\ sending[t] = [to |-> c, rest |-> <<h>>]
  <2>1. /\ g.half = 1
        /\ sending[t] = [to |-> c, rest |-> <<OtherHalf(g)>>] \/ left[c] \/ conn[c] = "closed"
    BY <1>3, <1>6 DEF Complete
  <2>2. CASE sending[t] = [to |-> c, rest |-> <<OtherHalf(g)>>]
    <3>1. sending[t] = [to |-> c, rest |-> rest]
      BY <1>4, <2>2 DEF Idle
    <3>2. rest = <<OtherHalf(g)>>
      BY <2>2, <3>1
    <3>3. rest = <<h>> /\ OtherHalf(g) = h
      BY <3>2
    <3>4. g = OtherHalf(h)
      BY <1>3, <3>3, OtherHalfIs
    <3> QED
      BY <2>1, <3>1, <3>3, <3>4 DEF o
  <2> QED
    BY <2>1, <2>2
\* Nothing fits, and all of it is still to be sent.
<1>7. CASE /\ stream' = stream /\ reset' = reset
           /\ sending' = [sending EXCEPT ![t] = [to |-> c, rest |-> rest]]
  <2>1. /\ sending'[t] = [to |-> c, rest |-> rest]
        /\ \A u \in Thread \ {t} : sending'[u] = sending[u]
    BY <1>7 DEF SendType
  <2>2. BlockedInOrder(t)'
    BY <1>1, <1>7, <2>1 DEF BlockedInOrder, o
  <2>3. \A g \in Range(stream[c]) : g.from = t => Complete(c, g)'
    BY <1>1, <1>6, <1>7, <2>1 DEF Complete
  <2> QED
    <3>1. Adds(t, c, {})
      BY <1>2, <1>3, <1>5, <1>7, <2>1, <2>2, <2>3 DEF Adds
    <3> QED
      BY <3>1, SendsGrow
\* The first half goes out.
<1>8. CASE /\ rest = <<h, o>> /\ reset' = reset
           /\ stream' = [stream EXCEPT ![c] = @ \o <<h>>]
           /\ sending' = [sending EXCEPT ![t] = [to |-> c, rest |-> <<o>>]]
  <2>1. /\ sending'[t] = [to |-> c, rest |-> <<o>>] /\ stream'[c] = stream[c] \o <<h>>
        /\ \A u \in Thread \ {t} : sending'[u] = sending[u]
        /\ \A x \in Client \ {c} : stream'[x] = stream[x]
    BY <1>8 DEF SendType
  <2>2. h.half = 1 /\ o.half = 2
    <3>1. rest # <<h>>
      BY <1>8
    <3> QED
      BY <1>1, <3>1
  <2>3. Range(stream'[c]) = Range(stream[c]) \cup {h}
    BY <1>3, <2>1, AppendedRange
  <2>4. \A g \in Range(stream'[c]) : g.from = t => Follows(o, g)
    <3>1. Follows(o, h)
      BY <1>1, <2>2 DEF Follows
    <3>2. ASSUME NEW g \in Range(stream[c]), g.from = t PROVE Follows(o, g)
      <4>1. Follows(h, g) /\ g.half \in {1, 2} /\ g.number \in Nat
        BY <1>3, <3>2, OtherHalfIs
      <4> QED
        BY <1>1, <2>2, <4>1 DEF Follows
    <3> QED
      BY <2>3, <3>1, <3>2
  <2>5. BlockedInOrder(t)'
    <3>1. sending'[t].rest[1] = o /\ sending'[t].to = c /\ sending'[t].rest = <<o>>
      BY <2>1
    <3>2. conn'[c] # "none" /\ o.from = t /\ o.number \in 1 .. LastNumber(t, c)'
      BY <1>1
    <3>3. OtherHalf(o) \in Range(stream'[c])
      BY <1>1, <2>3
    <3> QED
      BY <2>2, <2>4, <3>1, <3>2, <3>3 DEF BlockedInOrder
  <2>6. Ordered(stream'[c])
    BY <1>3, <2>1, OrderedAppend
  <2>7. \A g \in Range(stream'[c]) : g.from = t => Complete(c, g)'
    <3>1. Complete(c, h)'
      BY <2>1, <2>2 DEF Complete, o
    <3>2. ASSUME NEW g \in Range(stream[c]), g.from = t PROVE Complete(c, g)'
      <4>1. rest # <<h>>
        BY <1>8
      <4> QED
        BY <1>6, <2>3, <3>2, <4>1 DEF Complete
    <3> QED
      BY <2>3, <3>1, <3>2
  <2>8. \A g \in {h} : g.from = t /\ g.number <= LastNumber(t, c)'
    OBVIOUS
  <2> QED
    <3>1. Adds(t, c, {h})
      BY <1>2, <1>5, <1>8, <2>1, <2>3, <2>5, <2>6, <2>7, <2>8 DEF Adds
    <3> QED
      BY <3>1, SendsGrow
\* All of it goes out.
<1>9. CASE /\ reset' = reset
           /\ stream' = [stream EXCEPT ![c] = @ \o rest]
           /\ sending' = [sending EXCEPT ![t] = Idle]
  <2>1. /\ sending'[t] = Idle /\ stream'[c] = stream[c] \o rest
        /\ \A u \in Thread \ {t} : sending'[u] = sending[u]
        /\ \A x \in Client \ {c} : stream'[x] = stream[x]
    BY <1>9 DEF SendType
  <2>2. BlockedInOrder(t)'
    BY <2>1 DEF BlockedInOrder, Idle
  <2>3. CASE rest = <<h>> /\ h.half = 2 /\ o \in Range(stream[c])
    <3>1. Range(stream'[c]) = Range(stream[c]) \cup {h}
      BY <1>3, <2>1, <2>3, AppendedRange
    <3>2. Ordered(stream'[c])
      BY <1>3, <2>1, <2>3, OrderedAppend
    <3>3. Complete(c, h)'
      BY <2>3, <3>1 DEF Complete, o
    <3>4. ASSUME NEW g \in Range(stream[c]), g.from = t PROVE Complete(c, g)'
      <4>1. CASE g = o
        BY <1>1, <3>1, <4>1 DEF Complete
      <4>2. CASE g # o
        BY <1>6, <3>1, <3>4, <4>2 DEF Complete
      <4> QED
        BY <4>1, <4>2
    <3>5. \A g \in Range(stream'[c]) : g.from = t => Complete(c, g)'
      BY <3>1, <3>3, <3>4
    <3>6. \A g \in {h} : g.from = t /\ g.number <= LastNumber(t, c)'
      OBVIOUS
    <3> QED
      <4>1. Adds(t, c, {h})
        BY <1>2, <1>5, <1>9, <2>1, <2>2, <3>1, <3>2, <3>5, <3>6 DEF Adds
      <4> QED
        BY <4>1, SendsGrow
  <2>4. CASE rest = <<h, o>> /\ h.half = 1
    <3> DEFINE q == stream[c] \o <<h>>
    <3>1. q \in Seq(Half) /\ Range(q) = Range(stream[c]) \cup {h} /\ Ordered(q)
      <4>1. Ordered(q)
        BY <1>3, OrderedAppend
      <4>2. Range(q) = Range(stream[c]) \cup {h}
        BY <1>3, AppendedRange
      <4>3. q \in Seq(Half)
        BY <1>3, AppendedRange
      <4> QED
        BY <4>1, <4>2, <4>3
    <3>2. stream'[c] = q \o <<o>>
      <4>1. stream[c] \o <<h, o>> = (stream[c] \o <<h>>) \o <<o>>
        BY <1>1, <1>3, PairAppended
      <4> QED
        BY <2>1, <2>4, <4>1
    <3> HIDE DEF q
    <3>3. \A g \in Range(q) : g.from = t => Follows(o, g)
      <4>1. Follows(o, h)
        BY <1>1, <2>4 DEF Follows
      <4>2. ASSUME NEW g \in Range(stream[c]), g.from = t PROVE Follows(o, g)
        <5>1. Follows(h, g) /\ g.half \in {1, 2} /\ g.number \in Nat
          BY <1>3, <4>2, OtherHalfIs
        <5> QED
          BY <1>1, <2>4, <5>1 DEF Follows
      <4> QED
        BY <3>1, <4>1, <4>2
    <3>4. Range(stream'[c]) = Range(stream[c]) \cup {h, o}
      <4>1. Range(stream'[c]) = Range(q) \cup {o}
        BY <1>1, <3>1, <3>2, AppendedRange
      <4> QED
        BY <3>1, <4>1
    <3>5. Ordered(stream'[c])
      BY <1>1, <3>1, <3>2, <3>3, OrderedAppend
    <3>6. Complete(c, h)' /\ Complete(c, o)'
      BY <1>1, <3>4 DEF Complete, o
    <3>7. ASSUME NEW g \in Range(stream[c]), g.from = t PROVE Complete(c, g)'
      <4>1. rest # <<h>>
        BY <2>4
      <4> QED
        BY <1>6, <3>4, <3>7, <4>1 DEF Complete
    <3>8. \A g \in Range(stream'[c]) : g.from = t => Complete(c, g)'
      BY <3>4, <3>6, <3>7
    <3>9. \A g \in {h, o} : g.from = t /\ g.number <= LastNumber(t, c)'
      BY <1>1
    <3> QED
      <4>1. Adds(t, c, {h, o})
        BY <1>2, <1>5, <1>9, <2>1, <2>2, <3>4, <3>5, <3>8, <3>9 DEF Adds
      <4> QED
        BY <4>1, SendsGrow
  <2> QED
    BY <2>3, <2>4 DEF o
\* The client has left, and nothing more goes out.
<1>10. CASE /\ left[c] /\ stream' = stream /\ sending' = [sending EXCEPT ![t] = Idle]
            /\ \A x \in Client : reset'[x] => reset[x] \/ x = c
  <2>1. sending'[t] = Idle /\ \A u \in Thread \ {t} : sending'[u] = sending[u]
    BY <1>10 DEF SendType
  <2>2. BlockedInOrder(t)'
    BY <2>1 DEF BlockedInOrder, Idle
  <2>3. \A g \in Range(stream[c]) : g.from = t => Complete(c, g)'
    BY <1>6, <1>10 DEF Complete
  <2> QED
    <3>1. Adds(t, c, {})
      BY <1>2, <1>3, <1>5, <1>10, <2>1, <2>2, <2>3 DEF Adds
    <3> QED
      BY <3>1, SendsGrow
<1>11. CASE Put(t, c, rest)
  BY <1>7, <1>8, <1>9, <1>11, PutOutcome DEF o
<1>12. CASE left[c] /\ ToNobody(t, c)
  BY <1>10, <1>12 DEF ToNobody, SendType
<1>13. CASE reset[c] /\ NotSent(t)
  BY <1>5, <1>10, <1>13 DEF NotSent
<1> QED
  BY <1>11, <1>12, <1>13, ClientsApart DEF Sent

\* A step that sends nothing, or ends the daemon with its connections.
LEMMA QuietKeepsSends ==
  ASSUME SendType, SendsInOrder, SendsComplete, Later,
         stream' = stream, \A c \in Client : reset'[c] => left'[c],
         \/ sending' = sending
         \/ /\ \A t \in Thread : sending'[t] = Idle
            /\ \A c \in Client : conn'[c] \in {"none", "closed"}
  PROVE  SendsInOrder' /\ SendsComplete'
<1>1. \A t \in Thread : BlockedInOrder(t)'
  <2> SUFFICES ASSUME NEW t \in Thread PROVE BlockedInOrder(t)'
    OBVIOUS
  <2>1. CASE sending'[t] = Idle
    BY <2>1 DEF BlockedInOrder, Idle
  <2>2. CASE sending'[t] = sending[t]
    <3>1. BlockedInOrder(t)
      BY DEF SendsInOrder
    <3> QED
      BY <2>2, <3>1, BlockedStays
  <2> QED
    BY <2>1, <2>2
<1>2. ASSUME NEW c \in Client
      PROVE  /\ conn'[c] = "none" => stream'[c] = <<>>
             /\ \A h \in Range(stream'[c]) : h.number <= LastNumber(h.from, c)'
             /\ Ordered(stream'[c])
             /\ \A h \in Range(stream'[c]) : Complete(c, h)'
  <2>1. conn'[c] = "none" => stream'[c] = <<>>
    BY DEF SendsInOrder, Later
  <2>2. Ordered(stream'[c]) /\ \A h \in Range(stream[c]) : Complete(c, h)
    BY CompleteIs
  <2>3. ASSUME NEW h \in Range(stream[c])
        PROVE  h.number <= LastNumber(h.from, c)' /\ Complete(c, h)'
    <3>1. h \in Half /\ h.number <= LastNumber(h.from, c)
      BY <2>3, InStream DEF SendsInOrder
    <3>2. h.from \in Thread /\ h.number \in Nat
      BY <3>1, OtherHalfIs
    <3>3. /\ LastNumber(h.from, c) \in Nat /\ LastNumber(h.from, c)' \in Nat
          /\ LastNumber(h.from, c) <= LastNumber(h.from, c)'
      BY <3>2 DEF Later
    <3>4. h.number <= LastNumber(h.from, c)'
      BY <3>1, <3>2, <3>3
    <3>5. CASE sending' = sending
      <4>1. (left[c] => left'[c]) /\ (conn[c] = "closed" => conn'[c] = "closed")
        BY DEF Later
      <4>2. Complete(c, h)
        BY <2>2, <2>3
      <4>3. Complete(c, h)'
        BY <3>5, <4>1, <4>2 DEF Complete
      <4> QED
        BY <3>4, <4>3
    <3>6. CASE \A x \in Client : conn'[x] \in {"none", "closed"}
      <4>1. conn'[c] = "closed"
        <5>1. stream[c] # <<>>
          BY <2>3 DEF Range
        <5> QED
          BY <2>1, <3>6, <5>1
      <4> QED
        BY <2>2, <3>4, <4>1 DEF Complete
    <3> QED
      BY <3>4, <3>5, <3>6
  <2> QED
    BY <2>1, <2>2, <2>3
<1> QED
  BY <1>1, <1>2, CompleteIs DEF SendsInOrder

\* In each step the numbers grow or stay, and who has gone is gone.
LEMMA StepLater ==
  ASSUME TypeOK, TypeOK', DescriptorsInUse, ReadSoFar, PiecesInOrder, [Next]_vars
  PROVE  Later
<1>1. /\ events \in Nat /\ events' \in Nat
      /\ \A c \in Client : Len(handled[c]) \in Nat /\ Len(handled'[c]) \in Nat
      /\ conn \in [Client -> {"none", "backlog", "open", "closed"}]
  BY BoundAssumption, LenProperties DEF TypeOK
<1>2. \A c \in Client : Len(handled[c]) <= Len(handled'[c])
  <2>1. CASE handled' = handled
    BY <1>1, <2>1
  <2>2. ASSUME NEW p \in Client,
               handled' = [handled EXCEPT ![p] = Append(@, MessageOf(p, Len(@) + 1))]
        PROVE  \A c \in Client : Len(handled[c]) <= Len(handled'[c])
    <3>1. /\ handled[p] \in Seq(Seq(Piece)) /\ MessageOf(p, Len(handled[p]) + 1) \in Seq(Piece)
      <4>1. Len(handled[p]) + 1 \in Nat
        BY <1>1
      <4> QED
        BY <4>1, MessageOfType DEF TypeOK
    <3>2. Len(Append(handled[p], MessageOf(p, Len(handled[p]) + 1))) = Len(handled[p]) + 1
      BY <3>1, AppendProperties
    <3>3. /\ handled'[p] = Append(handled[p], MessageOf(p, Len(handled[p]) + 1))
          /\ \A c \in Client \ {p} : handled'[c] = handled[c]
      BY <2>2 DEF TypeOK
    <3> QED
      BY <1>1, <3>2, <3>3
  <2> QED
    BY <2>1, <2>2, HandledStep
<1> DEFINE Goes == /\ events <= events'
                   /\ \A c \in Client : /\ left[c] => left'[c]
                                        /\ conn[c] = "closed" => conn'[c] = "closed"
                                        /\ conn'[c] = "none" => conn[c] = "none"
<1>3. Goes
  <2>1. CASE UNCHANGED <<events, left, conn>>
    BY <1>1, <2>1
  <2>2. CASE \E c \in Client : Connect(c) \/ Write(c) \/ Arrive(c) \/ Read(c) \/ Leave(c)
    <3>1. CASE \E c \in Client : Write(c) \/ Arrive(c) \/ Read(c)
      BY <2>1, <3>1 DEF Write, Arrive, Read
    <3>2. CASE \E c \in Client : Connect(c)
      BY <1>1, <3>2 DEF Connect
    <3>3. CASE \E c \in Client : Leave(c)
      BY <1>1, <3>3 DEF Leave, TypeOK
    <3> QED
      BY <2>2, <3>1, <3>2, <3>3
  <2>3. CASE Die
    BY <1>1, <2>3 DEF Die, Closed
  <2>4. CASE \E t \in Thread : Resume(t)
    BY <2>1, <2>4 DEF Resume
  <2>5. CASE SendEvent
    BY <1>1, <2>5 DEF SendEvent
  <2>6. CASE PollNothing \/ UNCHANGED vars
    BY <2>1, <2>6 DEF PollNothing, vars, clientVars
  <2>7. CASE Start \/ AcceptFails \/ AssignClient \/ Socket \/ Listen
    BY <2>1, <2>7 DEF Start, AcceptFails, AssignClient, Socket, Listen, clientVars
  <2>8. CASE Accept
    BY <1>1, <2>8 DEF Accept
  <2>9. CASE CloseListener \/ CloseClient
    BY <1>1, <2>9 DEF CloseListener, CloseClient, Closed
  <2>10. CASE RecvLength \/ RecvLengthEnd \/ RecvType \/ RecvPayload
    BY <2>1, <2>10 DEF RecvLength, RecvLengthEnd, RecvType, RecvPayload, Recv, GoOn, clientVars
  <2>11. CASE HandleOp \/ HandleCommand
    BY <2>1, <2>11 DEF HandleOp, HandleCommand, Handled
  <2> QED
    BY <2>1, <2>2, <2>3, <2>4, <2>5, <2>6, <2>7, <2>8, <2>9, <2>10, <2>11
    DEF Next, Serve, ResumeBroken, SendEventBroken, HandleCommandBroken
<1> QED
  BY <1>1, <1>2, <1>3 DEF Later, LastNumber

\* A new event or reply, to the client of the descriptor if there is one.
LEMMA NewKeepsSends ==
  ASSUME TypeOK, TypeOK', DescriptorsInUse, ConnectionsHeld, SendsInOrder, SendsComplete, Later,
         NEW t \in Thread, sending[t] = Idle,
         NEW n \in Nat, Sent(t, Target, Halves(t, n)),
         \A c \in Client : Target = c => LastNumber(t, c) < n /\ n <= LastNumber(t, c)',
         server # "off", conn' = conn, left' = left
  PROVE  SendsInOrder' /\ SendsComplete'
<1>0. SendType /\ SendType'
  <2>1. (TypeOK => SendType) /\ (TypeOK' => SendType')
    BY DEF TypeOK, SendType
  <2> QED
    BY <2>1
<1>1. Target \in Client => conn[Target] # "none"
  <2>1. sClientFd \in {0, 5}
    BY DEF DescriptorsInUse
  <2>2. Target = "free" \/ Target = table[5]
    BY <2>1 DEF Target
  <2> QED
    BY <2>2, ClientsApart DEF ConnectionsHeld
<1>2. ASSUME NEW c \in Client, Target = c PROVE SendsInOrder' /\ SendsComplete'
  <2> DEFINE h == [from |-> t, number |-> n, half |-> 1]
  <2>1. /\ h \in Half /\ h.from = t /\ h.number = n /\ h.half = 1
        /\ OtherHalf(h) = [from |-> t, number |-> n, half |-> 2]
    BY DEF Half, OtherHalf
  <2>2. Halves(t, n) = <<h, OtherHalf(h)>>
    BY <2>1 DEF Halves
  <2> HIDE DEF h
  <2>3. LastNumber(t, c) \in Nat /\ LastNumber(t, c)' \in Nat /\ LastNumber(t, c) < n
        /\ n <= LastNumber(t, c)'
    BY <1>2 DEF Later
  <2>4. h.number \in 1 .. LastNumber(t, c)'
    BY <2>1, <2>3
  <2>5. ASSUME NEW g \in Range(stream[c]), g.from = t PROVE Follows(h, g)
    <3>1. g.number <= LastNumber(t, c)
      BY <2>5 DEF SendsInOrder
    <3>2. g.number \in Nat
      BY <1>0, InStream, OtherHalfIs
    <3> QED
      BY <2>1, <2>3, <3>1, <3>2 DEF Follows
  <2>6. Sent(t, c, <<h, OtherHalf(h)>>)
    BY <1>2, <2>2
  <2> QED
    BY <1>0, <1>1, <1>2, <2>1, <2>4, <2>5, <2>6, SentKeepsSends
<1>3. CASE Target \notin Client
  <2>1. NotSent(t)
    BY <1>3 DEF Sent
  <2>2. stream' = stream /\ reset' = reset /\ sending' = sending
    BY <1>0, <2>1 DEF NotSent, SendType
  <2>3. \A c \in Client : reset'[c] => left'[c]
    BY <2>2 DEF SendsInOrder
  <2> QED
    BY <1>0, <2>2, <2>3, QuietKeepsSends
<1> QED
  BY <1>2, <1>3

\* A thread that goes on with what it was blocked with.
LEMMA ResumeKeepsSends ==
  ASSUME TypeOK, TypeOK', SendsInOrder, SendsComplete, Later, NEW t \in Thread, Resume(t)
  PROVE  SendsInOrder' /\ SendsComplete'
<1>1. SendType /\ SendType'
  <2>1. (TypeOK => SendType) /\ (TypeOK' => SendType')
    BY DEF TypeOK, SendType
  <2> QED
    BY <2>1
<1>2. sending[t].to # NoClient /\ sending[t].to \in Client
  BY <1>1 DEF Resume, SendType
<1>3. PICK c \in Client : c = sending[t].to
  BY <1>2
<1>4. PICK rest : rest = sending[t].rest
  OBVIOUS
<1>5. PICK h : h = rest[1]
  OBVIOUS
<1>6. /\ conn[c] # "none"
      /\ h.from = t /\ h.number \in 1 .. LastNumber(t, c)
      /\ \/ h.half = 1 /\ rest = <<h, OtherHalf(h)>>
         \/ h.half = 2 /\ rest = <<h>> /\ OtherHalf(h) \in Range(stream[c])
      /\ \A g \in Range(stream[c]) : g.from = t => Follows(h, g)
  BY <1>2, <1>3, <1>4, <1>5 DEF SendsInOrder, BlockedInOrder
<1>7. h \in Half
  <2>1. rest \in Seq(Half)
    BY <1>1, <1>4 DEF SendType
  <2>2. 1 \in 1 .. Len(rest)
    <3>1. CASE rest = <<h, OtherHalf(h)>>
      BY <3>1
    <3>2. CASE rest = <<h>>
      BY <3>2
    <3> QED
      BY <1>6, <3>1, <3>2
  <2> QED
    BY <1>5, <2>1, <2>2, ElementOfSeq
<1>8. h.number \in 1 .. LastNumber(t, c)'
  <2>1. /\ LastNumber(t, c) \in Nat /\ LastNumber(t, c)' \in Nat
        /\ LastNumber(t, c) <= LastNumber(t, c)'
    BY DEF Later
  <2> QED
    BY <1>6, <2>1
<1>9. sending[t] = [to |-> c, rest |-> rest]
  BY <1>1, <1>3, <1>4 DEF SendType
<1>10. Sent(t, c, rest) /\ conn' = conn /\ left' = left
  BY <1>3, <1>4 DEF Resume
<1> QED
  BY <1>1, <1>6, <1>7, <1>8, <1>9, <1>10, SentKeepsSends

\* Every step keeps what is sent in order and complete.
LEMMA StepKeepsSends ==
  ASSUME TypeOK, TypeOK', DescriptorsInUse, ConnectionsHeld, ReadSoFar, PiecesInOrder,
         SendsInOrder, SendsComplete, [Next]_vars
  PROVE  SendsInOrder' /\ SendsComplete'
<1>0. SendType /\ Later
  BY StepLater, TypeParts
<1>1. CASE UNCHANGED <<stream, sending>> /\ \A c \in Client : reset'[c] => left'[c]
  BY <1>0, <1>1, QuietKeepsSends
<1>2. \A c \in Client : reset[c] => left[c]
  BY DEF SendsInOrder
<1>3. CASE UNCHANGED <<stream, sending, reset, left>>
  BY <1>1, <1>2, <1>3
<1>4. CASE \E c \in Client : Connect(c) \/ Write(c) \/ Arrive(c) \/ Read(c) \/ Leave(c)
  <2>1. CASE \E c \in Client : Connect(c) \/ Write(c) \/ Arrive(c) \/ Read(c)
    BY <1>3, <2>1 DEF Connect, Write, Arrive, Read, daemonVars
  <2>2. CASE \E c \in Client : Leave(c)
    BY <1>1, <1>2, <2>2 DEF Leave, TypeOK, daemonVars
  <2> QED
    BY <1>4, <2>1, <2>2
<1>5. CASE Die
  <2>1. /\ stream' = stream /\ reset' = reset /\ left' = left
        /\ sending' = [t \in Thread |-> Idle] /\ Closed({c \in Client : conn[c] # "none"})
    BY <1>5 DEF Die
  <2>2. \A t \in Thread : sending'[t] = Idle
    BY <2>1
  <2>3. \A c \in Client : conn'[c] \in {"none", "closed"}
    BY <2>1 DEF Closed
  <2> QED
    BY <1>0, <1>2, <2>1, <2>2, <2>3, QuietKeepsSends
<1>6. CASE \E t \in Thread : Resume(t)
  BY <1>0, <1>6, ResumeKeepsSends
<1>7. CASE SendEvent
  <2>1. /\ server # "off" /\ sending["poll"] = Idle /\ events' = events + 1
        /\ Sent("poll", Target, Halves("poll", events')) /\ conn' = conn /\ left' = left
    BY <1>7 DEF SendEvent, Polling
  <2>2. events \in Nat /\ events' \in Nat /\ "poll" \in Thread
    BY <2>1, BoundAssumption DEF TypeOK, Thread
  <2>3. PICK n \in Nat : n = events'
    BY <2>2
  <2>4. \A c \in Client : LastNumber("poll", c) < n /\ n <= LastNumber("poll", c)'
    BY <2>1, <2>2, <2>3 DEF LastNumber
  <2>5. Sent("poll", Target, Halves("poll", n))
    BY <2>1, <2>3
  <2> QED
    BY <1>0, <2>1, <2>2, <2>4, <2>5, NewKeepsSends
<1>8. CASE PollNothing \/ UNCHANGED vars
  BY <1>3, <1>8 DEF PollNothing, vars, clientVars, daemonVars
<1>9. CASE \/ Start \/ Accept \/ AcceptFails \/ AssignClient \/ CloseListener \/ CloseClient
           \/ Socket \/ Listen
  BY <1>3, <1>9
  DEF Start, Accept, AcceptFails, AssignClient, CloseListener, CloseClient, Socket, Listen,
      clientVars
<1>10. CASE RecvLength \/ RecvLengthEnd \/ RecvType \/ RecvPayload
  BY <1>3, <1>10 DEF RecvLength, RecvLengthEnd, RecvType, RecvPayload, Recv, GoOn, clientVars
<1>11. CASE HandleOp
  BY <1>3, <1>11 DEF HandleOp, Handled
<1>12. CASE HandleCommand
  <2>1. /\ server = "handle" /\ sending["session"] = Idle /\ Handled
        /\ Sent("session", Target, Halves("session", Len(handled'[Peer])))
        /\ conn' = conn /\ left' = left /\ "session" \in Thread
    BY <1>12 DEF HandleCommand, At, Handled, Thread
  <2>2. /\ Peer = table[5] /\ table[5] \in Client
        /\ Target = Peer \/ Target = "free"
    BY <2>1 DEF Peer, Target, DescriptorsInUse, Serving
  <2>3. PICK p \in Client : p = Peer
    BY <2>2
  <2>4. /\ handled[p] \in Seq(Seq(Piece)) /\ read \in Seq(Piece)
        /\ handled'[p] = Append(handled[p], read)
    BY <2>1, <2>3 DEF Handled, TypeOK
  <2>5. Len(handled'[p]) = Len(handled[p]) + 1 /\ Len(handled[p]) \in Nat
    BY <2>4, AppendProperties, LenProperties
  <2>6. PICK n \in Nat : n = Len(handled'[p])
    BY <2>5
  <2>7. \A c \in Client : Target = c
          => LastNumber("session", c) < n /\ n <= LastNumber("session", c)'
    <3>1. LastNumber("session", p) < n /\ n <= LastNumber("session", p)'
      BY <2>5, <2>6 DEF LastNumber
    <3> QED
      BY <2>2, <2>3, <3>1, ClientsApart
  <2>8. Sent("session", Target, Halves("session", n))
    BY <2>1, <2>3, <2>6
  <2> QED
    BY <1>0, <2>1, <2>7, <2>8, NewKeepsSends
<1> QED
  BY <1>4, <1>5, <1>6, <1>7, <1>8, <1>9, <1>10, <1>11, <1>12
  DEF Next, Serve, ResumeBroken, SendEventBroken, HandleCommandBroken

\* Nothing is sent in the first state.
LEMMA InitSends == Init => SendsInOrder /\ SendsComplete
<1> SUFFICES ASSUME Init PROVE SendsInOrder /\ SendsComplete
  OBVIOUS
<1>1. \A t \in Thread : sending[t].to = NoClient
  BY DEF Init, Idle
<1>2. \A c \in Client : stream[c] = <<>> /\ ~reset[c] /\ Len(stream[c]) = 0
  BY DEF Init
<1>3. Range(<<>>) = {}
  BY DEF Range
<1> QED
  BY <1>1, <1>2, <1>3 DEF SendsInOrder, SendsComplete, BlockedInOrder

\* The descriptors, the connections, the pieces and the two threads stay in step,
\* together with the types and what is sent: the inductive invariant of the bridge.
THEOREM SessionStaysInStep == Spec => [](SessionInStep /\ SendsComplete)
<1> DEFINE Inv == TypeOK /\ SessionInStep /\ SendsComplete
<1>1. Init => Inv
  BY InitTypes, InitPieces, InitSends DEF SessionInStep
<1>2. Inv /\ [Next]_vars => Inv'
  <2> SUFFICES ASSUME Inv, [Next]_vars PROVE Inv'
    OBVIOUS
  <2>1. DescriptorsInUse /\ ConnectionsHeld /\ ReadSoFar /\ PiecesInOrder /\ SendsInOrder
    BY DEF SessionInStep
  <2>2. TypeOK' /\ DescriptorsInUse'
    BY <2>1, StepKeepsTypes
  <2>3. ConnectionsHeld' /\ ReadSoFar' /\ PiecesInOrder'
    BY <2>1, StepKeepsPieces
  <2>4. SendsInOrder' /\ SendsComplete'
    BY <2>1, <2>2, StepKeepsSends
  <2> QED
    BY <2>2, <2>3, <2>4 DEF SessionInStep
<1> QED
  BY <1>1, <1>2, PTL DEF Spec

\* What a client is sent is complete, and each thread's part of it in order, although
\* a send may have to wait, the other thread may send meanwhile, and the descriptor
\* may be closed and given to the next client (hci_bridge_send, without a lock).
THEOREM SendsCompleteHolds == Spec => []SendsComplete
BY SessionStaysInStep, PTL

=============================================================================
