------------------------------ MODULE HciPoll ------------------------------
(***************************************************************************)
(* The daemon's use of the link: hci_open_device_internal, then            *)
(* hci_do_poll, which drives the engine at the host and feeds it from the  *)
(* operation queue.  The session thread queues operations meanwhile.       *)
(*                                                                         *)
(* The controller at the chip end is not in the repository.  It runs an    *)
(* engine like the host's and keeps to its contract; it answers a command  *)
(* with a COMMAND COMPLETE event, with a COMMAND STATUS event first, or    *)
(* not at all, and sends events nobody asked for.                          *)
(*                                                                         *)
(* Abstracted: the counts of 5000 and 10000 waits.  The first is never     *)
(* reached (the daemon would exit), the second may be reached at any poll  *)
(* at which the code counts.                                               *)
(***************************************************************************)
EXTENDS Ubcsp, OpQueue

CONSTANTS
  MaxOps,          \* bound: operations the clients queue, Op numbers them
  MaxUnsolicited,  \* bound: events the chip sends of itself
  MaxTimeouts,     \* bound: how often the poll loop gives up on an answer
  Patient,         \* TRUE: it does so only when the command is acknowledged
  Answers,         \* what may follow a command, a subset of Answer
  MaxNoise,        \* bound: frames towards each end damaged or lost
  NoisyPhases      \* bound: when they may be, a subset of Phase

Answer == {"complete", "status", "nothing"}
Phase == {"opening", "polling"}

ASSUME MaxOpsAssumption == MaxOps \in Nat \ {0} /\ Op = 1 .. MaxOps
ASSUME MaxUnsolicitedAssumption == MaxUnsolicited \in Nat
ASSUME MaxTimeoutsAssumption == MaxTimeouts \in Nat
ASSUME PatientAssumption == Patient \in BOOLEAN
ASSUME AnswersAssumption == Answers \subseteq Answer
ASSUME NoiseAssumption == MaxNoise \in [End -> Nat] /\ NoisyPhases \subseteq Phase

VARIABLES
  phase,             \* "opening": hci_open_device_internal; "polling": hci_do_poll
  fetchNewCommand,   \* locals of hci_do_poll
  responseExpected,
  timeouts,          \* how often the loop gave up
  queued,            \* operations the clients have queued: 1 .. queued
  sentOps,           \* history: operations given to ubcsp_send_packet, in order
  arrived,           \* arrived[e]: history, packets that came out at e
  confirmed,         \* confirmed[e]: history, how many packets of e were reported SENT
  completed,         \* history: operations whose COMMAND COMPLETE was received
  events,            \* events[n]: history, what the packet n of the chip is
  chipQueue,         \* events the chip has still to send
  chipMayCall,       \* the chip's engine reported SENT since its last packet
  unsolicited,       \* events the chip has sent of itself
  noise              \* noise[e]: frames towards e damaged or lost so far

hostVars == <<phase, fetchNewCommand, responseExpected, timeouts, sentOps>>
chipVars == <<events, chipQueue, chipMayCall, unsolicited>>
vars == <<config, poll, line, dataQueue, queueHead, queueTail, phase,
          fetchNewCommand, responseExpected, timeouts, queued, sentOps, arrived,
          confirmed, completed, events, chipQueue, chipMayCall, unsolicited, noise>>

\* Events, by number: one nobody asked for, and the two answers to operation k.
Notification == 1
Complete(k) == 2 * k
Status(k) == 2 * k + 1

\* Packets are numbered in the order in which an end gives them to its engine.
Reliable(id) == [id |-> id, reliable |-> TRUE]

AnswerTo(k, a) ==
  CASE a = "complete" -> <<Complete(k)>>
    [] a = "status" -> <<Status(k), Complete(k)>>
    [] a = "nothing" -> <<>>

TypeOK ==
  /\ config \in [End -> Config]
  /\ poll \in [End -> Poll]
  /\ line \in [End -> Seq(Frame)]
  /\ QueueType
  /\ phase \in Phase
  /\ fetchNewCommand \in BOOLEAN
  /\ responseExpected \in BOOLEAN
  /\ timeouts \in 0 .. MaxTimeouts
  /\ queued \in 0 .. MaxOps
  /\ sentOps \in Seq(Op)
  /\ arrived \in [End -> Seq(Nat)]
  /\ arrived["chip"] \in Seq(Op)
  /\ confirmed \in [End -> Nat]
  /\ completed \subseteq Op
  /\ events \in Seq(Nat)
  /\ chipQueue \in Seq(Nat)
  /\ chipMayCall \in BOOLEAN
  /\ unsolicited \in 0 .. MaxUnsolicited
  /\ noise \in [End -> Nat]

Init ==
  /\ config = [e \in End |-> FirstConfig]
  /\ poll = [e \in End |-> FirstPoll]
  /\ line = [e \in End |-> <<>>]
  /\ QueueInit
  /\ phase = "opening"
  /\ fetchNewCommand = TRUE
  /\ responseExpected = FALSE
  /\ timeouts = 0
  /\ queued = 0
  /\ sentOps = <<>>
  /\ arrived = [e \in End |-> <<>>]
  /\ confirmed = [e \in End |-> 0]
  /\ completed = {}
  /\ events = <<>>
  /\ chipQueue = <<>>
  /\ chipMayCall = FALSE
  /\ unsolicited = 0
  /\ noise = [e \in End |-> 0]

-----------------------------------------------------------------------------
(* Both ends: the receive loop takes a frame.                              *)

\* What the engine at e was given to send, in order.
Given(e) == IF e = "host" THEN sentOps ELSE events

Receive(e) ==
  LET new == poll'[e].activity \ poll[e].activity
  IN  /\ ReceiveStep(e)
      /\ confirmed' = [confirmed EXCEPT ![e] =
                         IF "SENT" \in new /\ @ < Len(Given(e)) THEN @ + 1 ELSE @]
      /\ arrived' = [arrived EXCEPT ![e] =
                       IF "RECEIVED" \in new THEN Append(@, poll'[e].packet.id) ELSE @]
      /\ UNCHANGED <<queueVars, hostVars, queued, completed, chipVars, noise>>

-----------------------------------------------------------------------------
(* The host.                                                               *)

Received == "RECEIVED" \in poll["host"].activity

\* The poll of the host goes on with what the caller left of its engine.
Continue == TransmitStep("host", Returned("host"), line["chip"])

\* hci_open_device_internal polls until a packet comes, whatever it is, and
\* forgets it; main then starts the server and calls hci_do_poll.
OpenPoll ==
  /\ phase = "opening"
  /\ Continue
  /\ phase' = IF Received THEN "polling" ELSE "opening"
  /\ UNCHANGED <<queueVars, fetchNewCommand, responseExpected, timeouts, queued,
                 sentOps, arrived, confirmed, completed, chipVars, noise>>

\* The two ifs of hci_do_poll on the activity.  The slips fetch at every poll, and
\* without a look at the flag that the loop begins with and a timeout sets.
Fetch_slip == TRUE
Fetch_unasked_slip == Received \/ (Sent("host") /\ ~responseExpected)

Fetch == fetchNewCommand \/ Received \/ (Sent("host") /\ ~responseExpected)
Expect == responseExpected /\ ~Received

NoteCompleted ==
  completed' = completed \cup
    {k \in Op : Received /\ events[poll["host"].packet.id] = Complete(k)}

\* An operation is fetched and given to the engine.
SendOp ==
  /\ phase = "polling"
  /\ Fetch
  /\ ~isQueueEmpty
  /\ \E rest \in Abandoned("host") :
       TransmitStep("host", ubcsp_send_packet(Returned("host"), Reliable(NextOp)),
                    line["chip"] \o rest)
  /\ dequeueIntoSendPacket
  /\ sentOps' = Append(sentOps, NextOp)
  /\ responseExpected' = TRUE
  /\ fetchNewCommand' = FALSE
  /\ NoteCompleted
  /\ UNCHANGED <<phase, timeouts, queued, arrived, confirmed, chipVars, noise>>

\* Nothing to fetch, or not the time for it.
PollOn ==
  /\ phase = "polling"
  /\ ~(Fetch /\ ~isQueueEmpty)
  /\ Continue
  /\ fetchNewCommand' = Fetch
  /\ responseExpected' = Expect
  /\ NoteCompleted
  /\ UNCHANGED <<queueVars, phase, timeouts, queued, sentOps, arrived, confirmed, chipVars, noise>>

\* The wait that makes timeout reach its limit.
Timeout ==
  /\ phase = "polling"
  /\ ~Fetch
  /\ ~Sent("host")
  /\ Polled("host").delay > 0
  /\ timeouts < MaxTimeouts
  /\ Patient => config["host"].send_packet = NoPacket
  /\ Continue
  /\ fetchNewCommand' = TRUE
  /\ responseExpected' = TRUE
  /\ timeouts' = timeouts + 1
  /\ UNCHANGED <<queueVars, phase, queued, sentOps, arrived, confirmed, completed, chipVars, noise>>

HostPoll == OpenPoll \/ SendOp \/ PollOn \/ Timeout

\* The session thread queues a client's operation.  Bound: the clients queue at
\* most QueueSlots operations between two moments at which the queue is empty.
QueueOp ==
  /\ phase = "polling"
  /\ queued < MaxOps
  /\ queueTail < QueueSlots
  /\ queue_hci_op(queued + 1)
  /\ queued' = queued + 1
  /\ UNCHANGED <<config, poll, line, hostVars, arrived, confirmed, completed, chipVars, noise>>

-----------------------------------------------------------------------------
(* The chip.                                                               *)

\* What the chip has to send after its poll returned: the answer to the
\* command received, or an event of its own, or what it had.
ChipWork ==
  IF "RECEIVED" \in poll["chip"].activity
  THEN {chipQueue \o AnswerTo(poll["chip"].packet.id, a) : a \in Answers}
  ELSE {chipQueue} \cup
       {chipQueue \o <<Notification>> : x \in {u \in {unsolicited} : u < MaxUnsolicited}}

ChipPoll ==
  \E work \in ChipWork, rest \in Abandoned("chip") :
    LET free == chipMayCall \/ Sent("chip")
        submits == free /\ work # <<>>
    IN  /\ IF submits
           THEN TransmitStep("chip", ubcsp_send_packet(Returned("chip"), Reliable(Len(events) + 1)),
                             line["host"] \o rest)
           ELSE rest = <<>> /\ TransmitStep("chip", Returned("chip"), line["host"])
        /\ chipMayCall' = (free /\ ~submits)
        /\ chipQueue' = IF submits THEN Tail(work) ELSE work
        /\ events' = IF submits THEN Append(events, Head(work)) ELSE events
        /\ unsolicited' = IF "RECEIVED" \notin poll["chip"].activity /\ work # chipQueue
                          THEN unsolicited + 1 ELSE unsolicited
        /\ UNCHANGED <<queueVars, hostVars, queued, arrived, confirmed, completed, noise>>

-----------------------------------------------------------------------------

\* The oldest frame on its way to e is damaged, or lost, as in BcspLink; the escape that
\* ubcsp_send_packet leaves over when it drops a frame does so to the next one.
Noise(e) ==
  /\ phase \in NoisyPhases
  /\ noise[e] < MaxNoise[e]
  /\ line[e] # <<>>
  /\ \/ line' = [line EXCEPT ![e] = Tail(@)]
     \/ /\ Head(line[e]) # BadFrame
        /\ line' = [line EXCEPT ![e] = <<BadFrame>> \o Tail(@)]
  /\ noise' = [noise EXCEPT ![e] = @ + 1]
  /\ UNCHANGED <<config, poll, queueVars, hostVars, queued, arrived, confirmed, completed,
                 chipVars>>

Next ==
  \/ \E e \in End : Receive(e) \/ Noise(e)
  \/ OpenPoll
  \/ SendOp
  \/ PollOn
  \/ Timeout
  \/ QueueOp
  \/ ChipPoll

Spec == Init /\ [][Next]_vars

\* Both ends poll in endless loops and take what arrives, a frame ends, and
\* the waits that nothing interrupts reach the limit.  No client must send.
Fairness ==
  /\ \A e \in End : WF_vars(Receive(e))
  /\ WF_vars(HostPoll)
  /\ WF_vars(ChipPoll)
  /\ SF_vars(SendLast("host", Returned("host"), line["chip"]) /\ HostPoll)
  /\ SF_vars(SendLast("chip", Returned("chip"), line["host"]) /\ ChipPoll)
  /\ SF_vars(Timeout)

FairSpec == Spec /\ Fairness

-----------------------------------------------------------------------------

\* No operation is lost, repeated or overtaken between the session thread and
\* the engine, though the two threads work on the queue at once and its indices
\* restart when it runs empty.
QueueKeepsOrder == sentOps \o Pending = [i \in 1 .. queued |-> i]

\* The operations reach the chip once each and in order, and the next one is
\* handed to the engine only when the engine is done with the last.
Commands == INSTANCE ReliableChannel WITH
  Message <- Op,
  submitted <- sentOps,
  delivered <- arrived["chip"],
  confirmed <- confirmed["host"]

\* hci_do_poll keeps the promise of ReliableChannel for its commands.
CommandsReliable == Commands!Spec

\* ubcsp_send_packet "can only be called when the activity indication from
\* ubcsp_poll indicates that a packet can be sent": never while the engine
\* still holds a packet.
SendOnlyWhenFree ==
  [][sentOps' # sentOps => config["host"].send_packet = NoPacket]_vars

\* "If we get a COMMAND_COMPLETE code, we check with the op code we sent and if
\* they match we write the next command", the comment before hci_do_poll: the
\* next operation is written only when the last one is complete, or given up.
OneCommandWindow ==
  [][sentOps' # sentOps /\ sentOps # <<>> /\ timeouts = 0
       => sentOps[Len(sentOps)] \in completed']_vars

\* Every operation queued reaches the chip, also when the chip leaves a command
\* without an answer.
EveryOpArrives == []<>(Len(arrived["chip"]) = queued)

=============================================================================
