---------------------------- MODULE MCHciBridge ----------------------------
(* HciBridge for TLC: two clients, the first of which sends two messages.  *)
EXTENDS BridgeSession, TLC

CONSTANTS c1, c2

TwoClients == {c1, c2}

TwoOne == (c1 :> 2) @@ (c2 :> 1)

=============================================================================
