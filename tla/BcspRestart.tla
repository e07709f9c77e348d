---------------------------- MODULE BcspRestart ----------------------------
(***************************************************************************)
(* BcspLink with restarts: the daemon ends and is started again, or the    *)
(* chip is reset.  The engine at that end starts from nothing and its      *)
(* caller forgets what it was doing; the other end finds out from a SYNC.  *)
(***************************************************************************)
EXTENDS BcspLink, FiniteSets, Functions

CONSTANTS
  MaxRestarts,  \* bound: restarts of each end, a function on End
  OnlySettled   \* TRUE: an end restarts only on a settled link

ASSUME MaxRestartsAssumption == MaxRestarts \in [End -> Nat]
ASSUME OnlySettledAssumption == OnlySettled \in BOOLEAN

VARIABLES
  restarts,  \* restarts[e]: how often e has restarted
  reached    \* reached[e]: history, packets e has received in any of its lives

restartVars == <<vars, restarts, reached>>

RestartTypeOK ==
  TypeOK /\ restarts \in [End -> Nat] /\ reached \in [End -> SUBSET Nat]

RestartInit ==
  /\ Init
  /\ restarts = [e \in End |-> 0]
  /\ reached = [e \in End |-> {}]

\* Both ends are active, and nothing of the establishment is left to be sent or
\* on its way.
Settled ==
  \A e \in End :
    /\ config[e].link_establishment_state = active
    /\ config[e].link_establishment_packet = "none"
    /\ config[e].link_establishment_resp = 0
    /\ config[e].sending.kind \notin LeMessage
    /\ \A k \in LeMessage : ~Carries(line[e], k)

\* The end starts again, in its first poll.  What was on its way to it is lost
\* with its UART's buffer (tcflush in the daemon), or comes after the restart.
Restart(e) ==
  /\ restarts[e] < MaxRestarts[e]
  /\ OnlySettled => Settled
  /\ config' = [config EXCEPT ![e] = FirstConfig]
  /\ poll' = [poll EXCEPT ![e] = FirstPoll]
  /\ \E kept \in {<<>>, line[e]}, rest \in Abandoned(e) :
       line' = [line EXCEPT ![e] = kept, ![Other(e)] = @ \o rest]
  /\ outstanding' = [outstanding EXCEPT ![e] = NoPacket]
  /\ mayCall' = [mayCall EXCEPT ![e] = FALSE]
  /\ delivered' = [delivered EXCEPT ![e] = <<>>]
  /\ restarts' = [restarts EXCEPT ![e] = @ + 1]
  /\ UNCHANGED <<packets, submitted, confirmed, noise, reached>>

\* A step of the link itself.
LinkStep ==
  /\ reached' = [e \in End |-> reached[e] \cup Range(delivered'[e])]
  /\ UNCHANGED restarts

RestartNext ==
  \/ Next /\ LinkStep
  \/ \E e \in End : Restart(e)

RestartSpec == RestartInit /\ [][RestartNext]_restartVars

RestartFairSpec ==
  /\ RestartSpec
  /\ \A e \in End : /\ WF_restartVars(NextPoll(e) /\ LinkStep)
                    /\ WF_restartVars(Receive(e) /\ LinkStep)
                    /\ SF_restartVars(FinishFrame(e) /\ LinkStep)

-----------------------------------------------------------------------------

\* A packet never comes out twice, or after a later one, at an end that did not
\* restart in between, although both ends begin their sequence numbers again.
DeliveredInOrder ==
  \A e \in End : \A i, j \in 1 .. Len(delivered[e]) :
    i < j => delivered[e][i] < delivered[e][j]

\* A restart costs at most one reliable packet: the one outstanding at that moment,
\* which the establishment that follows acknowledges or reports SENT although the
\* end that restarted may never have had it.  Every other packet has come out.
LossBounded ==
  \A e \in End :
    LET missing == (1 .. packets[Other(e)]) \ reached[e]
    IN  Cardinality(missing \ {outstanding[Other(e)].id}) <= restarts[e] + restarts[Other(e)]

\* After the last restart the link comes up again: the peer that was not reset
\* "reinitializes the link" when it takes the SYNC of the one that was.
LinkRecovers ==
  <>[](\A e \in End : config[e].link_establishment_state = active)

\* A reliable packet that the engine clears because it was acknowledged is
\* reported: "Notify the caller that we have SENT a packet".
ClearedIsReported ==
  [][\A e \in End :
       LET p == config[e].send_packet
       IN  p # NoPacket /\ p.reliable /\ config'[e].send_packet = NoPacket
             => restarts' # restarts \/ "SENT" \in poll'[e].activity]_restartVars

=============================================================================
