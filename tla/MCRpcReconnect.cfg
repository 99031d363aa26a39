\* A handle disconnected with calls in flight, then reconnected.
CONSTANTS
  f1 = f1
  f2 = f2
  h1 = h1
  h2 = h2
  Funcs <- MC_Funcs
  Handles <- MC_Handles
  NumStubs = 2
  NumSkels = 2
  MaxCalls = 3
  MaxMsg = 1
  IdMod = 2
  ShareHandles = FALSE
  DisconnectInFlight = TRUE
  ServerChurn = FALSE
SPECIFICATION Spec
INVARIANT CallbackGetsOwnResult
CHECK_DEADLOCK FALSE
