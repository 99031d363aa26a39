\* The server connects and disconnects functions while requests arrive.
CONSTANTS
  f1 = f1
  f2 = f2
  h1 = h1
  h2 = h2
  Funcs <- MC_Funcs
  Handles <- MC_Handles
  NumStubs = 2
  NumSkels = 2
  MaxCalls = 3
  MaxMsg = 1
  IdMod = 2
  ShareHandles = FALSE
  DisconnectInFlight = FALSE
  ServerChurn = TRUE
SPECIFICATION Spec
INVARIANT ServerConnectRegisters
CHECK_DEADLOCK FALSE
