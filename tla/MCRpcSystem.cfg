\* Disciplined applications: one live handle per function, disconnect only
\* with no call pending, server connected before the loops start.
CONSTANTS
  f1 = f1
  f2 = f2
  h1 = h1
  h2 = h2
  Funcs <- MC_Funcs
  Handles <- MC_Handles
  NumStubs = 2
  NumSkels = 2
  MaxCalls = 3
  MaxMsg = 1
  IdMod = 2
  ShareHandles = FALSE
  DisconnectInFlight = FALSE
  ServerChurn = FALSE
SPECIFICATION Spec
INVARIANT TypeOK
INVARIANT NoCrash
INVARIANT CallbackGetsOwnResult
PROPERTY EveryCallAnswered
