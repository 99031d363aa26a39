\* Binary and text framing through rings that accept and deliver any number of bytes.
CONSTANTS
  Formats = {"binary", "text"}
  Cap = 4
  NumMsgs = 2
  TextPayloads <- MC_TextPayloads
SPECIFICATION Spec
INVARIANT TypeOK
INVARIANT RoundTrip
PROPERTY AllDelivered
