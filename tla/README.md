# Verification of ble-hci-bridge

TLA+ models, TLC configurations and TLAPS proofs for this repository, an OpenWrt
package feed. The program with logic of its own is `ble-hci-bridge`: a daemon
that brings up a Bluetooth controller on a UART, speaks BCSP with it, and offers
its HCI to one client over TCP. The rest of the feed is two small utilities,
shell scripts, and build recipes for third-party software.

Paths below are relative to `ble-hci-bridge/` unless they say otherwise.

## 1. The system

| Part | State | Operations | Hard part | What makes it correct |
|---|---|---|---|---|
| MicroBCSP engine, link establishment (`src/ubcsp.c`) | `link_establishment_state`, `_resp`, `_packet`, `delay`, the frame being sent | `ubcsp_initialize`, the branches of `ubcsp_recevied_packet` on channel 1, the branches of `ubcsp_poll` that send | two engines, messages late, repeated or lost; a reset of either end | both ends come up; neither takes an old SYNC for a reset; a reset is noticed and repaired |
| MicroBCSP engine, packets (`src/ubcsp.c`) | `send_packet`, `receive_packet`, `sequence_number`, `ack_number`, `send_ack` | `ubcsp_send_packet`, `ubcsp_receive_packet`, the rest of `ubcsp_poll` and `ubcsp_recevied_packet` | lost packets and acknowledgements, numbers that wrap, acknowledgements in every frame | reliable packets come out once each, in order, and are reported when they have |
| MicroBCSP engine, octets (`src/ubcsp.c`) | `send_ptr`, `next_send_ptr`, escape flags, `receive_index`, CRC | `ubcsp_put_slip_uart`, `ubcsp_setup_packet`, the octet loop, `ubcsp_calc_crc`, `ubcsp_crc_reverse` | frames cut off in the middle; lengths at the limits | what is accepted is what was sent |
| UART (`src/uart_bcsp_hci.c`) | the descriptor, the two directions of the line | `put_uart`, `get_uart`, opening | octets lost on a full buffer | (environment of the engine) |
| HCI operation queue (`src/uart_bcsp_hci.c`) | three arrays of 64, `queueHead`, `queueTail`, a mutex | `queue_hci_op`, `dequeueIntoSendPacket`, `isQueueEmpty`, `queueSize` | two threads; indices that reset only when the queue is empty | first in, first out; nothing lost or repeated |
| HCI poll loop (`src/uart_bcsp_hci.c`, `src/main.c`) | `fetchNewCommand`, `responseExpected`, `timeout` | `hci_open_device_internal`, `hci_do_poll` | events at any time, answers that never come | commands go out one at a time, none is lost, none blocks the others for ever |
| TCP server and session (`src/hci_bridge.c`) | `sListenFd`, `sClientFd`, the session's buffers | `setupServerSocket`, `hci_bridge_start_internal`, `session`, `hci_bridge_send` | descriptors closed by one thread and used by the other; partial reads | a message goes whole to the client of the moment or nowhere |
| Internal commands (`src/hci_bridge.c`, `src/ecdh.c`, `src/encryption.c`) | `kp`, `secret` | `handleInternalCommand` | order of commands, failures in the middle of one | one reply per command; keys used only when there are some |
| Daemon life cycle (`src/main.c`, `etc/init.d/playgroundServices`) | running or not | `main`, respawn by procd | a restart with the chip in any state | the link comes up again |
| `gjallarhorn` | a countdown | the loop of `main` | none, one thread | flash is erased only after ten consecutive reads of a pressed button |
| `lsids` | none | prints identifiers from flash | none | the text matches the octets |
| Logging, network scripts, init files, `nodejs-mips`, `v8-mips`, `redbridge-dev` | none | copies of files, build recipes | none | not modelled |

How they interact. The main thread runs `hci_do_poll` for ever: it calls
`ubcsp_poll`, which reads and writes the UART one octet at a time and reports
what happened in `activity`; it takes operations from the queue and gives them to
the engine, and sends received events to the client's socket. The server thread
accepts one client, reads its messages in `session`, puts HCI messages into the
queue, and answers internal commands itself on the same socket. The queue's mutex
is the only lock taken; the sockets and `sClientFd` are shared without one.

## 2. The modules

| Module | Models |
|---|---|
| `Ubcsp` | the engine of `src/ubcsp.c`, at one end and at the other, and the line between them |
| `ReliableChannel` | abstract: what one direction of the link promises about reliable packets |
| `BcspLink` | two engines, their callers, and noise |
| `BcspWindow` | `WindowOfOne`: why `BcspLink` implements `ReliableChannel` |
| `BcspRestart` | `BcspLink` with restarts of an end |
| `BcspRestartOrder` | `RestartInStep`: why no packet comes out twice in spite of restarts |
| `BcspRestartLoss` | `NothingUnpaid`: why a restart costs at most one packet |
| `FrameLine` | abstract: what SLIP, checksum, length and CRC promise about one direction of the UART |
| `SlipFrame` | one direction of the UART, an octet at a time: the sender's and the receiver's half of `src/ubcsp.c` |
| `UbcspCrc` | the CRC of `src/ubcsp.c`, and CRC-CCITT as the reference |
| `OpQueue` | the HCI operation queue |
| `HciPoll` | the daemon's two loops and the session's producer, over `Ubcsp` and `OpQueue`, with a controller |
| `HciTurn` | `InTurn`: why the poll loop gives the engine an operation only when it is free |
| `InternalCommands` | `handleInternalCommand`: key pair, secret, one reply per command |
| `HciBridge` | server thread, poll thread and clients over TCP, with `InternalCommands`; end and start of the daemon |
| `BridgeSession` | `SessionInStep`: why the bridge keeps its descriptors and its messages, both ways |
| `UbcspProof` | lemmas: every step of an engine keeps its type |
| `BcspLinkProof`, `BcspWindowProof` | theorems about `BcspLink`, with `BcspWindow` |
| `BcspRestartProof`, `BcspLossProof` | theorems about `BcspRestart`, with `BcspRestartOrder` and `BcspRestartLoss` |
| `HciPollProof`, `HciBridgeProof`, `SlipFrameProof` | theorems about `HciPoll` with `HciTurn`, `HciBridge` with `BridgeSession`, `SlipFrame` |
| `MCBcspLink`, `MCBcspRestart`, `MCHciPoll`, `MCSlipFrame`, `MCHciBridge` | values of the bounds for TLC; `MCSlipFrame` also puts `UbcspCrc` under `SlipFrame` |

### `Ubcsp`

`config[e]` is `struct ubcsp_configuration` of the engine at end `e`, with
`send_ptr`/`send_size` replaced by the frame they clock out (`sending`). `poll[e]`
holds the locals of the running call of `ubcsp_poll`: `delay`, `*activity`, and
the packet put in the caller's buffer. `line[e]` holds the frames on their way to
`e`. The chip is not in the repository; BCSP is symmetric and `ubcsp.c`
implements both halves, so the same engine stands at that end.

`ubcsp_poll` makes one transmit step, takes every octet there is, settles the
delay and returns; its caller looks at the activity and calls it again. The model
cuts this loop at the receive loop, in two kinds of step:

- `ReceiveStep(e)` takes one frame: the octets up to `SLIP_FRAME` and
  `ubcsp_recevied_packet`. There is one action per branch: `ReceiveBad`,
  `ReceiveSync`, `ReceivePeerReset`, `ReceiveSyncResp`, `ReceiveConf`,
  `ReceiveConfResp`, `ReceiveAck`, `ReceiveDuplicate`, `ReceivePacket`.
- `TransmitStep(e, c, w)` goes from the end of the receive loop to the receive
  loop of the next call, where `c` and `w` are what the caller left of the
  configuration and of the outgoing line. There is one action per branch:
  `SendDelayed`, `SendOctet`, `SendLast`, `StartLe`, `StartConfResp`,
  `StartData`, `StartAck`, `SendNothing`.

Between two visits to the receive loop an engine reads nothing another process
writes and appends at most to its outgoing line, so joining those statements in
one step hides no interleaving.

Abstracted: the octets of a frame. A frame the checks reject is of kind `"bad"`.
`SendOctet` may be taken any number of times before `SendLast`. A transmission
that `ubcsp_send_packet`, a peer reset, a CONF RESP or a restart drops leaves
nothing on the line or a bad frame (`Abandoned`), since the octets that follow it
fail the header or length check (`SlipFrame` checks that they do). When it is dropped
between the two octets of an escape, `send_slip_escape` stays set and the next frame is
spoilt too: that is one of the frames that `Noise` of `BcspLink` and `HciPoll` damages,
and in `SlipFrame` it is modelled as it is. A damaged frame that
passes the checks, and the establishment message that is none of the four, are not modelled. The length of
the delay in seconds is abstracted to a count of polls, as in the code.

An operator whose name ends in `_slip` is the operator it is named for, with one
mistake a programmer could make in it. Nothing uses it; putting it in the other's
place makes a named property fail, which shows that the property depends on the
code (section 3).

### `BcspLink`

The callers keep to the contract in `ubcsp.c`: `Submit` calls
`ubcsp_send_packet` only after a poll reported SENT; RECEIVED is answered with
`ubcsp_receive_packet`. `NextPoll` is a poll that submits nothing. `Noise` loses
or damages the oldest frame of a line: the line itself, a full output buffer, or an
escape left over by a dropped transmission. `submitted`, `delivered` and `confirmed`
are history variables: no guard reads them.

### `BcspWindow`

`WindowOfOne` says of each end and direction: the engine and its caller agree on
whether there is a packet (`CallerInStep`); of the packets submitted all but the last
are delivered and reported sent, and `sequence_number` here with `ack_number` there
tell whether the last one is, too (`Counted`); the data on its way is old, then that
packet, never old behind new (`DataInOrder`); so are the acknowledgements
(`AcksInOrder`); and no establishment message, whose header carries ACK 0, is on its
way once a packet was reported sent (`EstablishmentOver`). The frames on their way are
those of the line and, behind them, the one being clocked out.

### `BcspRestart`

`Restart(e)` puts an end back to its first poll: the daemon's static data is
fresh, or the chip was reset. What was on its way to it is lost
(`tcflush` in the daemon) or arrives afterwards. With `OnlySettled` an end
restarts only when nothing of an earlier establishment is pending anywhere; the
run `reset_stalls` shows what happens otherwise. `reached[e]` is history: the
packets `e` has received in any of its lives, whereas `delivered[e]` begins again
with each.

### `BcspRestartOrder`, `BcspRestartLoss`

`RestartInStep` says three things. The packets in the frames on their way are in the
order they were submitted, each under one number, and the packet that came out last
is not among them under the number expected next (`PacketsInOrder`). A header of the
establishment carries ACK 0 (`EngineInStep`). And either `Handshake` holds, or one end
has restarted and the other, still active, has not taken a SYNC yet (`Unnoticed`):
then it sends nothing of an establishment, and the one that restarted nothing but
SYNC, behind whatever data is left of its former life.

`NothingUnpaid` follows the recovery through its phases. While both ends are in one
establishment and have heard of each other (`Agreed`), their numbers tell which data
is new and which acknowledgement counts (`NumbersAgree`, in substance `WindowOfOne`
without its histories, which restarts make meaningless). After a restart that is not
noticed yet (`UnheardPays`), and then until the end that restarted hears of the new
establishment (`UnansweredPays`), they do not: an acknowledgement or a report of SENT may
be about a packet that never arrived. `Paid`, `PaidInFlight` and `PaidWhenCleared` say
that the restarts pay for what is lost so, including what the engine holds while the
caller has been told SENT already.

### `SlipFrame`, `FrameLine`, `UbcspCrc`

`Ubcsp` takes whole frames for granted; `SlipFrame` is where they come from. `tx` is
the transmit part of `struct ubcsp_configuration` (`send_ptr` as the block it
points into and a place in it), `rx` the receive part with
`ubcsp_receive_header` and the caller's buffer. A step of the sender is the
transmit part of one `ubcsp_poll`, which puts at most one octet and the closing
`SLIP_FRAME`: `StartFrame`, `PutEscaped`, `PutPlain`, `PutEscape`, `SendNothing`. A
step of the receiver is one round of its `while` loop: `ReceiveEscaped`,
`ReceiveEscape`, `ReceivePlain`, `Accept`, `Restart`; `Passes` is the three checks of
`ubcsp_recevied_packet`. `Drop` is what `ubcsp_send_packet`, `ubcsp_initialize` and
a CONF RESP do to a transmission. The escape octet that may be pending survives it,
as in the code, and becomes the first octet of the next header. `Disturb` loses or
damages the oldest octet of the wire. An octet behind `SLIP_ESCAPE` that no escape
can have is looked up beside the table `ubcsp_deslip`; the value read is one of
`Stray`.

Which frame is sent, and the poll's delay, are in `Ubcsp`. Frames carry a payload or are
acknowledgements. A reliable packet without payload cannot occur in the daemon: the
session refuses a message of length one, since `recv` then returns 0. `sent`,
`accepted`, `position`, `whole` and the two tags of an octet are history.
The CRC functions are parameters of `SlipFrame`, because their definition needs
`Bitwise`, which proofs cannot use; `MCSlipFrame` gives them the table of the code.

### `InternalCommands`, `HciBridge`

`kp` and `secret` are numbers of key pairs; `kp = Freed` after a key generation that
failed, because the code frees it and keeps the pointer. Later commands take what they
find there for the key pair (`KeysAt`): it is `Garbage`, the key of no pair, and so is
the secret derived from it. `given`, history, is the public keys that replies carried
since the daemon started. What a command carries is
right, too short, or of lengths that do not agree; what OpenSSL does is success or
failure. Each case of the `switch` is one operator, which gives the reply. The
commands that read through a null or freed pointer or past their end may end the
daemon (`MayCrash`) or not, except that a secret is never derived from no key pair.
`SecretOfKeyPair` says that the two cases never mix: a secret belongs to the one key
pair of the daemon and no other public key was given out, or there is no key pair, and
whatever was given out is garbage.

In `HciBridge`, `server` is where the server thread is, `table` the daemon's open
descriptors, which the kernel gives out lowest first, and `sListenFd`, `sClientFd`
and `s` are the variables of those names. The thread's loop is cut at each system
call and each assignment of a variable the other thread reads: `Accept`, `AcceptFails`,
`AssignClient`, `CloseListener`, `RecvLength`, `RecvType`, `RecvPayload`,
`HandleOp`, `HandleCommand`, `CloseClient`, `Socket`, `Listen`. `SendEvent` is the
poll thread's `hci_bridge_send`. `setupServerSocket` has no `return` at its end, so
the value compared with `PG_OK` is any of `SetupReturns`; with another the thread is gone
(`"ended"`), as it is when `bind` or `listen` fails or `accept` returns -1
(`"failed"`). `Start` is `main` after the link is up.

Outside the repository are TCP and the clients. The kernel completes a connection
while the socket listens (`Connect`) and resets it if that socket is closed first.
A message is five pieces (two of the length, the type, two of the rest) that arrive
one by one, so a `recv` may find a part. A client that closes its socket with
something unread resets the connection; a send to one that has left may be answered
with a reset; a send on a connection that was reset raises SIGPIPE, which nothing in
the daemon handles, so it ends and procd starts it again. What the daemon sends is
two halves. A send that does not fit puts what fits and waits until the client has
read (`Resume`); while it waits it holds no lock, so the other thread's send may come
between. `sClientFd` is read when send is entered. On Linux a
send on a TCP socket that listens or is not connected raises SIGPIPE as well, so a wrong
descriptor would lead to `Die`, too; `ClientFdIsClient` says that there is none.

`BridgeSession` says what holds in every state of it. The descriptors are opened and
closed in an order in which the lowest free one is always the same: 3 for the UART, 4
to listen, 5 for the client (`DescriptorsInUse`); an open connection is the one with
the descriptor, one in the backlog has a socket that listens (`ConnectionsHeld`); the
place in `session` tells how much of a message was read (`ReadSoFar`); what was read,
what has arrived and what is coming are, in this order, the pieces behind the
messages handled (`PiecesInOrder`); and a thread that is blocked in send has a whole
message to send or the second half of one whose first half is the last it has sent to
that client, and no thread has sent a message that is not there yet (`SendsInOrder`).

### `OpQueue`, `HciPoll`

Each function of the queue is one critical section of `queueLock`, so one step.
`isQueueEmpty` and `dequeueIntoSendPacket` are two critical sections in
`hci_do_poll`; they are joined in `SendOp`, because only that thread removes
operations, so an operation seen stays until it is taken. `OpenPoll` is the loop of
`hci_open_device_internal`, which discards the first packet; `SendOp`, `PollOn`
and `Timeout` are the ways through the loop of `hci_do_poll`. The counts of 5000
and 10000 waits are abstracted: the first is never reached, the second may be at
any poll at which the code counts. With `Patient` (TRUE in every run) it is
reached only when the command has been acknowledged: an acknowledgement takes
milliseconds, 10000 waits at least a second.

`ChipPoll` is the controller, which is external: an engine like the host's, a
caller that keeps to its contract, answers to commands from `Answers`, and
`MaxUnsolicited` events of its own. `Noise(e)` is that of `BcspLink`; `NoisyPhases` says
in which phases it may happen, to keep the run in reach of TLC. The packets of each end are numbered in the order
in which its engine was given them; `events` says which event a packet of the chip is.

`HciTurn` says why the daemon's flags are enough, though `hci_do_poll` fetches on every
packet received and never asks whether SENT was reported. While an event is to come
(`Owed`: on its way, waiting, or to be decided by the chip) the last operation has
arrived and is not acknowledged, so the host has nothing to fetch for (`HostInTurn`); the
chip can send its event at once, and has no other (`ChipInTurn`); and the event is the
first frame to acknowledge the operation (`DataInTurn`, `AnswerInTurn`), so that when it
has come, the engine of the host is free.

## 3. What is checked

In all runs of the link `SeqModulus = 2` and, but for `restart_order` and `link_serves`,
`PollDelay = 1`.
With a window of one, two sequence numbers are the hardest case for telling a new packet from an old one,
and they wrap after two packets; a delay of one poll already separates
"delayed" from "not delayed". The code's values are 8 and 25; the theorems hold
for all. The two have `PollDelay = 0`: a delay only adds polls that send
nothing, which their properties, what is sent in which order and that it arrives in the
end, do not tell apart. The deadlock
check is on in every run: the engines and the poll thread poll for ever.

Passing:

| Run | Question | Bounds |
|---|---|---|
| `link_reliable` | Do both directions implement `ReliableChannel`: once each, in order, one at a time, reported only when delivered? Can an active end meet a SYNC of its own establishment (`NoSyncToActive`)? Can one end be active when the other is not even answered (`ActiveAgreement`)? Can an end that is not active have nothing to send (`LeUntilActive`)? `Handshake` is the invariant from which the last three are proved, `WindowOfOne` the one from which the first is | two packets of the host, one of the chip, the chip's reliable or not; a frame to the host lost or damaged, so an acknowledgement, a packet, or an establishment message: a CONF can come when the SYNC RESP before it was lost. A line holds one whole frame besides the one being sent, so a message sent before its sender advanced can meet a peer that has |
| `link_serves` | Does the link come up, and does the packet arrive and is it reported, whatever frame is lost? | a packet of the host; a frame each way lost or damaged, so the packet, its acknowledgement, or two messages of the establishment |
| `hci_commands` | Do operations go through the queue, the poll loop and the link once each and in order (`QueueKeepsOrder`, `CommandsReliable`), and does each arrive although commands stay unanswered (`EveryOpArrives`)? `InTurn` is the invariant from which `CommandsReliable` is proved | two operations, queued together or one after the other, when the indices start again; an answer or none; one wait given up; once the device is open, a frame to the chip lost or damaged, so an operation or the acknowledgement of an event |
| `restart_order` | Does a restart of the chip make a packet come out twice or out of order (`DeliveredInOrder`), and how many packets does it cost (`LossBounded`: one, besides one still outstanding)? `RestartInStep` is the invariant from which the first is proved | two packets of the host, a restart at any point of a settled link, also with a packet or its acknowledgement under way, so that the packet after the lost one is seen to come out |
| `restart_recovers` | Do both ends become active again (`LinkRecovers`)? | a restart on a settled link |
| `slip_frames` | Is every accepted frame one that was sent, in order and at most once (`AcceptedAsSent`, the refinement of `FrameLine`)? What does a fault cost (`WholeIsAccepted`: only the frames it touches and the one behind)? Is `send_ptr` ever read outside its block (`ReadsInside`), or an octet stored outside the buffer (`TypeOK`)? Is the CRC the one of other implementations (`CrcIsCcitt`)? It is compared for the frames accepted and, an octet at a time, for each of the 256 octets, by every entry of the table | three frames sent, from an acknowledgement, a payload of which every octet is escaped, and one that does not fit the receive buffer (4 octets in place of 512); one transmission dropped at any octet, also between the two of an escape, and one octet lost, or turned into `SLIP_FRAME`, `SLIP_ESCAPE` or another; two octets on the wire, as many as one poll puts |
| `bridge_serves` | Are messages handled whole, however TCP splits them (`WholeMessages`)? Does the poll thread ever send to the listening socket (`ClientFdIsClient`), or a descriptor leak (`TypeOK`)? Does the secret belong to the key pair, and no public key given out to another (`SecretOfKeyPair`)? Does a client get all of each event and reply, in each thread's order (`SendsComplete`)? Is every later client served (`ServesAgain`)? `SessionInStep` is the invariant from which all but the last and `SecretOfKeyPair` are proved | two clients, one after the other or one in the backlog; two messages of the first, one of the second; an event; one end of the daemon; room for one and a half messages, so that a send waits and the other thread's may come between; `accept`, `bind` and `listen` may fail, `setupServerSocket` returns `PG_OK`; two key generations |

`hci_commands` has a premise the code does not check: the chip sends at most one
event per command, and none of its own while a command is unacknowledged (its one
event of its own ends `hci_open_device_internal`). Without the premise commands are
lost; `send_not_free` is that case.

`SendsComplete` is what is left of the encoding the comment before `hci_bridge_send`
promises. That a client finds one whole message behind the other (`EncodingKept`) is
false: the kernel releases the socket while a send waits for room, so the
other thread's message may come in the middle, and `socketLock`, declared for this,
is never taken (`encoding_torn`). But nothing is lost or sent twice by that, though
`sClientFd` may be closed and given to the next client while a thread waits in send on it.

`ServesAgain` is about a daemon whose `setupServerSocket` returns `PG_OK`. The function
has no `return` at its end; with `{0, 1}` for `SetupReturns` TLC finds the property
violated, since then the server thread is gone after the first client. It is gone, too,
when `accept`, `bind` or `listen` fails, which the property counts as an end the code
means. The daemon runs on without a server either way.

`WholeIsAccepted` also says what is never accepted: a packet whose
payload and CRC do not fit the receive buffer (511 or 512 octets in the daemon) is
refused each time it is sent. A damaged closing `SLIP_FRAME` behind a frame that just
fills the buffer lets what follows be swallowed up to the next `SLIP_FRAME`, without
harm: the frame before it is then accepted late, as it was sent.

By what each property can be broken (the `_slip` operators): `TypeOK` by a
delay that runs below zero or a sequence number that leaves its field;
`NoSyncToActive` and `Handshake` by a SYNC RESP that activates the link;
`ActiveAgreement` and `LeUntilActive` by answering CONF in every state;
`HostToChipReliable` by taking every frame for an acknowledgement;
`ChipToHostReliable` by acknowledging one packet too many; `WindowOfOne` by
a data frame that acknowledges the packet expected next; `LinkServes` by
answering CONF only on an active link, so that each end waits for the other; `QueueKeepsOrder` by resetting
only one index; `InTurn` and `CommandsReliable` by fetching at every poll; `EveryOpArrives` by
not looking at `fetchNewCommand`; `DeliveredInOrder` by not looking at sequence numbers;
`LossBounded` by taking every frame for an acknowledgement; `RestartInStep` by a reset that forgets the message to send; `LinkRecovers` by a reset
that forgets the message to send. In `SlipFrame`: `TypeOK` by storing a payload
without a look at the buffer's length, `ReadsInside` by not counting the second octet
of an escape, `AcceptedAsSent` by leaving out the CRC,
`WholeIsAccepted` by not starting again behind a frame that fails a check,
`CrcIsCcitt` by taking in only the lower half of each octet. In `HciBridge`: `TypeOK`
by not closing the client's socket, `ClientFdIsClient` and `SessionInStep` by not closing the
listening one, `WholeMessages` by taking what `recv` returns for the whole payload,
`SecretOfKeyPair` by a new key pair for each request, `SendsComplete` by dropping what
there is no room for, `ServesAgain` by not noticing that the client has closed.

Violated, each a disagreement of the code with its own comments
(`PROJECT.json` quotes them):

| Run | What happens |
|---|---|
| `send_not_free` | an event nobody asked for, or a COMMAND STATUS followed by COMMAND COMPLETE, makes `hci_do_poll` hand over an operation while the last one is not acknowledged; the last one is overwritten |
| `command_window` | a COMMAND STATUS ends the wait for a command, though the comment says that it does not |
| `reset_clears_silently` | the SYNC of a reset chip carries ACK 0, which clears a packet with another sequence number; the report is dropped with the return of PEER_RESET |
| `encoding_torn` | a send that does not fit waits without a lock; the other thread's message comes between its two halves |
| `reset_stalls` | `ubcsp_initialize` leaves `link_establishment_resp`. If a CONF was waiting for its answer, the engine is then uninitialized with no message to send, and answers no SYNC |

An unreliable packet may be reported SENT without being sent: `ubcsp_sent_packet` runs at
the end of every frame, also of an establishment message that was still to be sent when the
packet was submitted. `BcspLink` has these steps; no run asks about them, because the
daemon sends reliable packets only.

### Fairness

`BcspLink!Fairness`: weak fairness of `NextPoll(e)` and `Receive(e)`, because both
ends poll in endless loops and the receive loop runs until nothing is there;
strong fairness of `FinishFrame(e)`, because a frame has finitely many octets, so of
the polls that send one of them some sends the last. Nothing requires a caller to
submit or the line to deliver; noise is bounded by `MaxNoise`. `HciPoll` is fair in the
same way to the host's and the chip's polls, and strongly fair to `Timeout`, since
waits that nothing interrupts are counted up to the limit. Clients need not queue
anything. `HciBridge!Fairness` is weak fairness of the server thread, of a thread that
waits in send and may go on, of the arrival of what TCP has taken, and of `Start`, since
procd starts the daemon again. Clients need not write, read or leave; a client that
stays is served, not waited out.

## 4. What is proved

Everything here holds for all values of the constants that satisfy the assumptions the
modules name (`SeqModulusAssumption`, `ClientAssumption`, ...), which TLC evaluates in
every run. The inductive invariants `Handshake`, `WindowOfOne`, `InTurn`,
`RestartInStep` and `SessionInStep` are also checked by TLC, in `link_reliable`,
`hci_commands`, `restart_order` and `bridge_serves`. `NothingUnpaid` is not in a run, for its time: TLC finds it true under
`RestartOrder.cfg`, with the packets of `HostTwo` and with a packet of the chip instead.
The runs check no other safety invariant that is not proved, but for those named at the
end of this section.

### The link: `UbcspProof`, `BcspLinkProof`, `BcspWindowProof`

For every `SeqModulus` of at least two, `PollDelay` (zero included), `LineMax`, number
of packets, reliability and amount of noise:

- `TypeCorrect`: `Spec => []TypeOK`. `UbcspProof` has one lemma per kind of step of an
  engine (`TransmitType`, `ReceiveType`), shared by every module that has engines.
- `HandshakeHolds`: `Spec => []Handshake`, and from it `NoSpuriousReset`,
  `BothEndsAgree`, `EstablishmentNeverStops`: `NoSyncToActive`, `ActiveAgreement` and
  `LeUntilActive`.
- `WindowHolds`: `Spec => []WindowOfOne`, and from it `HostToChipHolds` and
  `ChipToHostHolds`: each direction of the link implements `ReliableChannel`, initial
  state by initial state and step by step.

`NoSyncToActive`, `ActiveAgreement` and `LeUntilActive` are not inductive. `Handshake`
adds why they hold: a CONF RESP is sent only in answer to a CONF by an end that has
seen its own SYNC answered and has no SYNC left to send or being sent (`PastSync`), so
on the line no SYNC is behind a CONF RESP (`SyncsFirst`), and the end it makes active
has taken every SYNC before. `TransmitAdvance` and `ReceiveAdvance` say what one step
does to the engine, `HandshakeStep` what that does to the invariant.

The refinement needs `WindowOfOne`, since `ReliableChannel` speaks only of the three
histories. A packet that is taken for new must be the one submitted last, which
`DataInOrder` and `Counted` give; an acknowledgement that clears a packet must come
after its delivery, which `AcksInOrder` gives. That leaves the headers of link
establishment: an ACK other than the number of the packet outstanding clears it, and
theirs is 0. That is harmless while nothing was reported sent, since the packet
outstanding then has number 0. That none comes later needs the order of CONF and data on
the line: the peer answers a CONF, so none may come behind the first packet.
`Handshake` supplies what each end has been through by then.

### Restarts: `BcspRestartProof`, `BcspLossProof`

For the same constants and any number of restarts of both ends:

- `RestartTypeCorrect`: `RestartSpec => []RestartTypeOK`.
- `RestartOrderHolds`, `NoPacketAgain`: under `OnlySettled`, `RestartSpec =>
  []RestartInStep`, and from it `DeliveredInOrder`.
- `RestartsPayForLosses`, `RestartLosesOne`: if moreover all packets are reliable,
  `RestartSpec => []NothingUnpaid`, and from it, with `RestartInStep`, `LossBounded`.

`OnlySettled` is needed: without it TLC refutes `DeliveredInOrder` (the chip restarts a
second time during the establishment that follows the first, and a packet comes out
twice), as it does `LeUntilActive` (`reset_stalls`). It is a premise about when the chip is
reset, not one the code enforces. All packets of the daemon are reliable; an
unreliable one may be lost without any restart.

After a restart the two ends number packets from different beginnings, so the argument of
`WindowOfOne` fails: the ACK 0 of a SYNC may clear a packet that never arrived, and
CONF RESP reports SENT over one still held. What survives, for `NoPacketAgain`, is the order
of packets, which no reset changes, and that a packet is never sent under two numbers:
the SYNC by which the other end notices acknowledges zero, so it clears the packet held
unless its number is zero already, which is the number it has after the reset. The
packet delivered last is held, if at all, under a number other than the one expected.

For `RestartLosesOne`, until the SYNC is taken the restart has cost the other end
nothing (`UnheardPays`): the acknowledgements of the former life come before any SYNC,
and those that count mean delivery. That SYNC may then clear one packet that did not arrive. If
it does not, CONF RESP reports SENT over that packet instead, and its replacement in the
engine loses it; never both, since a packet that was cleared is not there to be
reported over. In the other direction the packet of the end that restarted is lost with
it, if it was not delivered; a frame of it still on the line may yet arrive
(`PaidInFlight`). `Paid` counts all of these as they stand, not only what is lost by
`LossBounded`'s measure; without that, the next `Submit` would break the invariant.

### The UART: `SlipFrameProof`

- `HeaderKept`: `ubcsp_recevied_packet` takes out of a header what
  `ubcsp_send_header` put into it, and the header passes its checksum, for
  every frame whose length fits twelve bits.
- `FrameTypeCorrect`, `ReadsInsideHolds`: `Spec => []TypeOK` and `Spec =>
  []ReadsInside`, for every receive buffer, set of frames and amount of
  disturbance. The receiver stores nothing outside its header and buffer, whatever
  octets come; the sender reads nothing outside the block it points into.

Both of the latter are one induction (`FramesTyped`). `send_ptr` alone would not do:
the escape that a dropped frame left over is put and counted as an octet of the next,
so `send_ptr` then lags behind `send_size`, by one octet, and the invariant says that it
never leads. Their hypothesis `CrcTyped` says that the two CRC functions take
and give 16 bits; they are `uint16` in the code. It is a hypothesis and not an
assumption of the module because TLC would have to evaluate it for 2^24 arguments.

### The queue and the poll loop: `HciPollProof`

- `PollTypeCorrect`: `Spec => []TypeOK`.
- `QueueOrderHolds`: `Spec => []QueueKeepsOrder`.

For any number of operations and slots, any noise, whatever the chip answers and however
long it waits (`Patient` or not). `QueueInStep` is the inductive invariant: what was handed to
the engine is 1 to some k, and the slots from `queueHead` to `queueTail` hold k + 1
onwards. The type of `arrived` needs one fact more, that every packet the host's engine
sends is an operation (`HostSendsOps`).

Under `OneEventEach` (`Patient`, at most one event of the chip's own, and at most one
per command: the premise of section 3, and the values of `hci_commands`), with any amount of noise in either direction and phase:

- `InTurnHolds`: `Spec => []InTurn`.
- `PollKeepsContract`: `Spec => Link!Spec`. The poll loop, the queue and the chip
  together are a behaviour of `BcspLink`, with `hci_do_poll` as the caller at the host:
  `mayCall` is true there when the engine is active and holds nothing, `packets` and
  `submitted` are the operations sent so far, and the noise is that of `HciPoll`.
- `CommandsHold`: `Spec => CommandsReliable`, the same step by step as `ReliableChannel`,
  by the theorems about `BcspLink` in place of a second proof.

`InTurn` and the invariants of the link need each other. That an event still to come finds
its command unacknowledged is `InTurn`; that the frame which brings the event is the one
which acknowledges the command, and is new, is `WindowOfOne` of the link below, which holds
only as long as the host calls `ubcsp_send_packet` when it may. So the induction is
over both at once (`TurnInv`): each step of `HciPoll` keeps `InTurn`, and is by `InTurn` a
step of the link (`ReceiveIsLink`, `PollOnIsLink`, `SubmitIsLink`) or leaves it alone, which
keeps `Handshake` and `WindowOfOne`. Without `OneEventEach` the theorems are false, as
`send_not_free` shows: a second event finds the engine with an operation it still holds.

### The bridge: `HciBridgeProof`

For all clients, numbers of messages, events, key pairs and ends of the daemon, every
send buffer and whatever `setupServerSocket` returns:

- `BridgeTypeCorrect`: `Spec => [](TypeOK /\ DescriptorsInUse)`; no descriptor leaks.
- `ClientFdHolds`: `Spec => []ClientFdIsClient`. `sClientFd` is 0 or 5, never 4.
- `WholeMessagesHold`: `Spec => []WholeMessages`, from `ConnectionsHeld`, `ReadSoFar` and
  `PiecesInOrder`.
- `SecretHolds`: `Spec => []SecretOfKeyPair`. It speaks only of a daemon that has a
  secret; `KeysInStep` says also before there is one what was given out: nothing while there
  was no attempt at a key pair, then that key pair's, or garbage for good.
- `SessionStaysInStep`, `SendsCompleteHolds`: `Spec => [](SessionInStep /\ SendsComplete)`
  and `Spec => []SendsComplete`. Neither is inductive without the other. That what a
  thread waits to send comes behind all it has sent to that client, and is the other
  half of it, is `BlockedInOrder`; that the next message is later than all before it is the
  bound in `SendsInOrder`. A thread may wait with the descriptor of a client whose
  session is over while the server thread accepts the next one: it then still sends to
  the former.

`ClientAssumption` (no client is one of the names that `table` uses for other things)
is the only assumption not about a bound.

### What stays with TLC, and why

- Liveness under fairness (`LinkServes`, `LinkRecovers`, `EveryOpArrives`,
  `ServesAgain`): the prover has no ENABLED.
- `AcceptedAsSent`: depends on which damage the CRC detects; false for an arbitrary CRC,
  and for the real one false if enough octets are damaged.
- `WholeIsAccepted`: that a receiver's CRC equals the sender's is an induction over the
  payload.
- `CrcIsCcitt`: `UbcspCrc` rests on `Bitwise`, which is recursive.

## 5. What is not modelled, and the plan

To prove next: a bound for restarts that are not on a settled link, once `ubcsp_initialize`
clears `link_establishment_resp`; today the engine may stop there (`reset_stalls`), so
there is nothing to promise.

Not modelled, and why:

- `gjallarhorn`: a countdown of one thread in two dozen lines, with no partner. Its
  one oddity is a read that fails: the octet of the last one is looked at before the
  return value.
- `lsids`: prints identifiers read from flash once, in a straight line.
- Two programs that `hci_open_device` runs before it opens the UART, and the
  configuration of the terminal: I/O. The 5000 waits of `hci_open_device_internal`
  are never reached between two engines that work.
- What OpenSSL computes, the contents of replies, and the memory that is leaked when a
  step fails.
- The bound of 64 operations of the queue: nothing compares `queueTail` with it, and
  nothing in the repository says how many a client may queue.
- Logging, scripts, and the packaging of node.js and V8.
