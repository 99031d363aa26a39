\* Two handles connected to one function at the same time.
CONSTANTS
  f1 = f1
  f2 = f2
  h1 = h1
  h2 = h2
  Funcs <- MC_Funcs
  Handles <- MC_Handles
  NumStubs = 2
  NumSkels = 2
  MaxCalls = 3
  MaxMsg = 1
  IdMod = 2
  ShareHandles = TRUE
  DisconnectInFlight = FALSE
  ServerChurn = FALSE
SPECIFICATION Spec
INVARIANT RefCountMatchesHandles
CHECK_DEADLOCK FALSE
