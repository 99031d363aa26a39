--------------------------- MODULE MCSerializer ---------------------------
(* Model-checking instance of the framing layer for both wire formats      *)
(* BINARY_BASED_PROTOCOL selects at build time, over one set of variables: *)
(* the format is chosen in the initial state and never changes.            *)
(*   "binary": Serializer.tla with the code's field widths (2-byte id,     *)
(*     8-byte size); payloads empty (the SIZE -> END path) or holding a 0  *)
(*     byte;                                                               *)
(*   "text": TextSerializer.tla; the id 258 has a 4-byte field ("258" and  *)
(*     its 0), as long as a ring; an empty payload and " 5" (the text      *)
(*     marshaller's space-separated form of one argument).                 *)
(* Both send two messages over 4-byte rings, with names of one and two     *)
(* bytes.                                                                  *)
EXTENDS Naturals, Sequences

CONSTANTS
  Formats,       \* the builds checked: a subset of {"binary", "text"}
  Cap, NumMsgs,
  TextPayloads   \* the payloads of the text build

VARIABLES
  format,
  toSend, sidx, init_ser, tx_phase, m_i, m_len, tx_msg, tx, rx,
  init_deser, rx_phase, m_s, rx_msg, delivered,
  m_id, m_size, m_v, rx_size,     \* the binary build only
  invocation_id                   \* the text build only

mcVars == <<format, toSend, sidx, init_ser, tx_phase, m_i, m_len, tx_msg, tx, rx,
            init_deser, rx_phase, m_s, rx_msg, delivered,
            m_id, m_size, m_v, rx_size, invocation_id>>

MC_Names == {<<7>>, <<7, 9>>}
MC_BinIds == {258}
MC_BinPayloads == {<<>>, <<0, 5>>}
MC_TextIds == {7, 258}
MC_TextPayloads == {<<>>, <<32, 53>>}
\* The payload of one char argument whose value is 0: AnyArg::write to an
\* ostringstream puts the delimiter ' ' and then the raw character
MC_PayloadsNul == {<<32, 0>>}

Bin == INSTANCE Serializer WITH IdWidth <- 2, SizeWidth <- 8,
         Ids <- MC_BinIds, Names <- MC_Names, Payloads <- MC_BinPayloads
Txt == INSTANCE TextSerializer WITH
         Ids <- MC_TextIds, Names <- MC_Names, Payloads <- TextPayloads

\* A step of one build, the other build's own variables left alone
BinStep(A) == format = "binary" /\ A /\ UNCHANGED <<format, invocation_id>>
TxtStep(A) == format = "text" /\ A /\ UNCHANGED <<format, m_id, m_size, m_v, rx_size>>

Init ==
  \/ /\ format = "binary" /\ format \in Formats
     /\ Bin!Init /\ invocation_id = 0
  \/ /\ format = "text" /\ format \in Formats
     /\ Txt!Init /\ m_id = 0 /\ m_size = 0 /\ m_v = <<>> /\ rx_size = 0

Next == BinStep(Bin!Next) \/ TxtStep(Txt!Next)

\* doLoop calls send(), flush() and com_read(), and receive() forever, so
\* the weak fairness of each of SendStep, Transfer and RecvStep in
\* Serializer.tla and TextSerializer.tla holds; it implies the weak
\* fairness of Next assumed here (a state in which Next stays enabled
\* keeps one of the three enabled), so liveness checked under it holds
\* under theirs.
Spec == Init /\ [][Next]_mcVars /\ WF_mcVars(Next)

\* The properties of the build of the behaviour.
TypeOK == IF format = "binary" THEN Bin!TypeOK ELSE Txt!TypeOK

\* The messages receive() completes are those send() was given, intact
\* and in order, however the pipe splits the bytes.
RoundTrip == IF format = "binary" THEN Bin!RoundTrip ELSE Txt!RoundTrip

\* Every message handed to the serializer is eventually received whole.
AllDelivered == <>(Len(delivered) = NumMsgs)
=============================================================================
