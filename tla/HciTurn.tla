------------------------------ MODULE HciTurn ------------------------------
(***************************************************************************)
(* Why hci_do_poll never gives the engine an operation while it holds one, *)
(* if the chip answers a command with one event at most and has one of its *)
(* own at most, the one that opens the device.  The host and the chip take *)
(* turns: the event still to come brings the acknowledgement of the        *)
(* command it answers, and until then the host waits.  InTurn is inductive *)
(* together with the window of the link below it (BcspWindow).             *)
(***************************************************************************)
EXTENDS HciPoll

IsActive(e) == config[e].link_establishment_state = active
Held(e) == config[e].send_packet # NoPacket
ChipReceived == "RECEIVED" \in poll["chip"].activity

\* The frames on their way to e, the one being clocked out at the other end included.
Coming(e) == {line[e][i] : i \in 1 .. Len(line[e])} \cup {config[Other(e)].sending}

\* An event is still to come: on its way, waiting, or to be decided by the chip.
Owed ==
  \/ Len(arrived["host"]) < Len(events)
  \/ chipQueue # <<>>
  \/ ChipReceived

\* The host fetches only when its last operation was acknowledged; while an event is
\* still to come the last operation has arrived, and is not acknowledged.
HostInTurn ==
  /\ phase = "opening" => sentOps = <<>>
  /\ phase = "polling" \/ Received => arrived["host"] # <<>>
  /\ arrived["host"] # <<>> => IsActive("host")
  /\ phase = "polling" =>
       /\ fetchNewCommand \/ Received => confirmed["host"] = Len(sentOps)
       /\ Owed => /\ Len(arrived["chip"]) = Len(sentOps)
                  /\ confirmed["host"] < Len(sentOps)

\* The chip can answer a command as soon as it has it, and has nothing else to say.
ChipInTurn ==
  /\ ChipReceived => arrived["chip"] # <<>> /\ IsActive("chip") /\ ~Held("chip")
  /\ IsActive("chip") /\ ~Held("chip") => chipMayCall \/ Sent("chip")
  /\ Len(events) + Len(chipQueue) + (IF ChipReceived THEN 1 ELSE 0)
       <= unsolicited + Len(arrived["chip"])
  /\ chipQueue # <<>> => events = <<>> /\ Len(chipQueue) = 1
  /\ chipQueue # <<>> \/ events # <<>> => unsolicited = MaxUnsolicited

\* All data is reliable, and data that is new to the end it goes to acknowledges all
\* that has come the other way.
DataInTurn ==
  \A e \in End : \A f \in Coming(e) :
    f.kind = "data" =>
      /\ f.packet.reliable
      /\ f.seq = config[e].ack_number => f.ack = config[Other(e)].ack_number

\* An event still to come is the first frame to acknowledge the command it answers.
AnswerInTurn ==
  phase = "polling" /\ Owed =>
    \A f \in Coming("host") :
      f.kind \notin {"bad", "none"} /\ f.ack = config["chip"].ack_number
        => f.kind = "data" /\ f.seq = config["host"].ack_number

\* At each moment the host or the chip may speak, not both: while an event is to
\* come hci_do_poll fetches nothing, and when it has come the engine is free.
InTurn == HostInTurn /\ ChipInTurn /\ DataInTurn /\ AnswerInTurn

=============================================================================
