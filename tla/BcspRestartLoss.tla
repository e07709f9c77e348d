-------------------------- MODULE BcspRestartLoss --------------------------
(***************************************************************************)
(* Why a restart on a settled link costs at most one reliable packet.      *)
(*                                                                         *)
(* After the restart of an end the link passes through three phases: the   *)
(* other end has not taken a SYNC yet (Unheard); it has begun again, and   *)
(* the end that restarted still takes frames from before (Unanswered);     *)
(* the numbers of both engines agree again (NumbersAgree), as they did     *)
(* before.  In the first two the establishment may acknowledge or report   *)
(* SENT one packet that did not arrive; Paid and PaidInFlight say that     *)
(* there is a restart for each.  NothingUnpaid is inductive, together with *)
(* RestartTypeOK and RestartInStep, when all packets are reliable.         *)
(***************************************************************************)
EXTENDS BcspRestartOrder

Held(e) == config[e].send_packet # NoPacket

\* The caller at e was told SENT, or will be when the poll returns.
Free(e) == mayCall[e] \/ Sent(e)

IsActive(e) == config[e].link_establishment_state = active

\* What e has submitted and the other end never received.
Unreached(e) == (1 .. packets[e]) \ reached[Other(e)]

\* The engine holds a packet of which the caller was told SENT, or will be when the
\* link becomes active: the caller may put the next one in its place.
Early(e) == Held(e) /\ (Free(e) \/ ~IsActive(e))

\* The frames of l and then x.
Stream(l, x) == Range(l) \cup {x}

-----------------------------------------------------------------------------

\* Data in l and then x, for an engine with ack_number a: p says that the last packet
\* is held and not delivered yet; then nothing old comes behind it, else nothing is new.
DataAgrees(l, x, a, p) ==
  IF p
  THEN NeverBehind(l, x, Fresh(a), Stale(a)) /\ x \notin Stale(a)
  ELSE Without(l, x, Fresh(a))

\* Acknowledgements in l and then x, for an engine with sequence number s from one
\* with ack_number a: first those that change nothing, then those of a delivery.
\* Establishment headers, with ACK 0, only come before (q: no more will).
AnswersAgree(l, x, s, a, q) ==
  /\ Without(l, x, NotAcking(s) \cap NotAcking(a))
  /\ a # s => /\ NeverBehind(l, x, Acking(a), NotAcking(a))
              /\ q \/ Without(l, x, Acking(a))
  /\ s # 0 => q /\ Without(l, x, LeFrames)

\* No CONF, which calls for such a header, comes behind data in l and then x (n: nor
\* will one), nor at all once a packet was delivered or acknowledged (b).
ConfsFirst(l, x, n, b) ==
  /\ NeverBehind(l, x, DataFrames, ConfFrames)
  /\ ~Without(l, x, DataFrames) \/ b => n
  /\ b => Without(l, x, ConfFrames)

\* The numbers of e and of the other end tell which data is new and which
\* acknowledgement counts, whatever the callers do: WindowOfOne of BcspWindow
\* without its histories.
NumbersAgree(e) ==
  LET c == config[e]
      d == config[Other(e)]
      s == c.sequence_number
      a == d.ack_number
      l == line[Other(e)]
  IN  /\ a # s => a = (s + 1) % SeqModulus /\ Held(e)
      /\ DataAgrees(l, c.sending, a, Held(e) /\ a = s)
      /\ AnswersAgree(line[e], d.sending, s, a, Quiet(d))
      /\ ConfsFirst(l, c.sending, c.link_establishment_packet = "none", a # 0 \/ s # 0)
      /\ ~IsActive(e) => a = 0 /\ s = 0 /\ Without(l, c.sending, DataFrames)

\* Frames of the former life of an end, which the other takes before any SYNC.
Former == Headers \ SyncFrames

\* In l and then x, for an engine with sequence number s: those frames come before any
\* SYNC, and among them the acknowledgements that change nothing before those of a
\* delivery; only the former if no packet is held (p).
FormerAgrees(l, x, s, p) ==
  LET t == (s + 1) % SeqModulus
  IN  /\ NeverBehind(l, x, SyncFrames, Former)
      /\ Without(l, x, Former \cap NotAcking(s) \cap NotAcking(t))
      /\ NeverBehind(l, x, Former \cap Acking(t), Former \cap Acking(s))
      /\ p \/ Without(l, x, Former \cap NotAcking(s))

\* e has restarted; of what it sent before, an acknowledgement that counts still
\* means that the packet arrived.
Unheard(e) ==
  LET o == Other(e)
  IN  /\ Unnoticed(e)
      /\ config[e].sequence_number = 0
      /\ config[e].ack_number = 0
      /\ FormerAgrees(line[o], config[e].sending, config[o].sequence_number, Held(o))

\* The other end has begun again, too; e has heard nothing of that yet.
Unanswered(e) ==
  LET o == Other(e)
  IN  /\ BeginsAgain(e)
      /\ ~IsActive(o)
      /\ \A i \in End : config[i].sequence_number = 0 /\ config[i].ack_number = 0
      /\ Without(line[o], config[e].sending, Former)
      /\ NeverBehind(line[e], config[o].sending, LeFrames, Headers \ LeFrames)

-----------------------------------------------------------------------------

\* b restarts pay for the packets from e that are lost, or may be when the next is
\* submitted or the link becomes active.
Paid(e, b) ==
  LET u == Unreached(e)
      n == packets[e]
  IN  /\ ~Held(e) => Cardinality(u) <= b
      /\ Held(e) /\ ~Early(e) => Cardinality(u \ {n}) <= b
      /\ Early(e) => Cardinality(u \cup {n}) <= b
      /\ Free(e) /\ ~IsActive(e)
           => Cardinality(u \cup IF Held(e) THEN {n} ELSE {}) < b
      /\ Held(e) /\ ~Free(e) => outstanding[e] = config[e].send_packet

\* Whichever data that is new to the other end comes out next, b pays for the rest,
\* also when that is an earlier packet under the number of the one held.
PaidInFlight(e, b) ==
  LET u == Unreached(e)
      n == packets[e]
      a == config[Other(e)].ack_number
      fresh == Stream(line[Other(e)], config[e].sending) \cap Fresh(a)
  IN  /\ Early(e) => \A f \in fresh : f.packet.id = n
      /\ Held(e) => \A f \in fresh : Cardinality(u \ {f.packet.id}) <= b
      /\ Held(e) /\ a # config[e].sequence_number
           => Cardinality(u) <= b /\ (Early(e) => n \notin u)

\* An acknowledgement on its way to e clears a packet that arrived, or was paid for.
PaidWhenCleared(e, b) ==
  \/ Without(line[e], config[Other(e)].sending,
             Former \cap NotAcking(config[e].sequence_number))
  \/ Cardinality(Unreached(e)) <= b /\ (Early(e) => packets[e] \notin Unreached(e))

\* What is held is reliable: no end of a frame forgets it.
HoldsReliable == \A e \in End : Held(e) => config[e].send_packet.reliable

\* Before a restart, when b restarts have been noticed.
Agreed(b) == \A e \in End : NumbersAgree(e) /\ Paid(e, b) /\ PaidInFlight(e, b)

\* After the restart of e, until that is noticed: it has cost nothing from the other end.
UnheardPays(e, b) ==
  /\ Unheard(e)
  /\ Paid(e, b + 1)
  /\ Paid(Other(e), b)
  /\ PaidWhenCleared(Other(e), b)

\* Then, until e hears of it, it may have cost one packet each way.
UnansweredPays(e, b) == Unanswered(e) /\ Paid(e, b) /\ Paid(Other(e), b)

RestartsPaid == restarts["host"] + restarts["chip"]

\* In each phase, in both directions: no packet is lost but one for each restart, and
\* while a restart is not noticed it has not cost one yet (ubcsp_recevied_packet, where
\* the ACK of a SYNC clears a packet and CONF RESP reports SENT).
NothingUnpaid ==
  /\ HoldsReliable
  /\ \/ Handshake /\ Agreed(RestartsPaid)
     \/ Handshake /\ \E e \in End : UnansweredPays(e, RestartsPaid)
     \/ RestartsPaid > 0 /\ \E e \in End : UnheardPays(e, RestartsPaid - 1)

=============================================================================
