\* As in BridgeServes: two messages of a client, an event, and not all that is sent fits.
SPECIFICATION Spec
CONSTANTS
  c1 = c1
  c2 = c2
  Client <- TwoClients
  SetupReturns = {0}
  SendBuffer = 3
  MaxMessages <- TwoOne
  MaxEvents = 1
  MaxDeaths = 1
  MaxKeys = 2
INVARIANTS
  EncodingKept
