\* Text framing of a payload that holds a 0 byte.
CONSTANTS
  Formats = {"text"}
  Cap = 4
  NumMsgs = 2
  TextPayloads <- MC_PayloadsNul
SPECIFICATION Spec
INVARIANT RoundTrip
