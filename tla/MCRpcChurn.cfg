\* A server application that connects and disconnects its functions while
\* the loops run; the client is disciplined.
CONSTANTS
  f1 = f1
  f2 = f2
  h1 = h1
  h2 = h2
  Funcs <- MC_Funcs
  Handles <- MC_Handles
  NumStubs = 2
  NumSkels = 2
  MaxCalls = 3
  MaxMsg = 1
  IdMod = 2
  ShareHandles = FALSE
  DisconnectInFlight = FALSE
  ServerChurn = TRUE
SPECIFICATION Spec
INVARIANT NoCrash
INVARIANT CallbackGetsOwnResult
