\* The text build with a bool parameter passed false: the native function must receive false.
CHECK_DEADLOCK FALSE
SPECIFICATION Spec
CONSTANTS
  Builds = {"text"}
  Vals <- MC_Vals
  Strs <- MC_Strs
  TextVals <- MC_TextValsFalse
  NumCalls = 2
INVARIANT ArgumentsArrive
