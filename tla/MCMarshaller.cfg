\* The three builds of bmRPC.h: binary loop-back (one little-endian host, to_swap and LOOP_BACK_TEST), binary over two hosts of opposite byte order, and the text protocol.
CHECK_DEADLOCK FALSE
SPECIFICATION Spec
CONSTANTS
  Builds = {"loopback", "split", "text"}
  TextVals <- MC_TextVals
  Vals <- MC_Vals
  Strs <- MC_Strs
  NumCalls = 2
INVARIANT TypeOK
INVARIANT ArgumentsArrive
INVARIANT OutputsReturned
INVARIANT NoLeakedCopies
