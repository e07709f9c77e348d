\* Two clients, an event, one end of the daemon; a send buffer that a second message does not fit in.
\* setupServerSocket returns PG_OK: with another value the thread ends, and ServesAgain is false.
SPECIFICATION FairSpec
CONSTANTS
  c1 = c1
  c2 = c2
  Client <- TwoClients
  SetupReturns = {0}
  SendBuffer = 3
  MaxMessages <- TwoOne
  MaxEvents = 1
  MaxDeaths = 1
  MaxKeys = 2
INVARIANTS
  TypeOK
  ClientFdIsClient
  WholeMessages
  SecretOfKeyPair
  SendsComplete
  SessionInStep
PROPERTIES
  ServesAgain
