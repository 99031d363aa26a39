--------------------------- MODULE TextSerializer ---------------------------
(***************************************************************************)
(* The text Serializer and Deserializer of bmRPCSerializer.h (the build    *)
(* with BINARY_BASED_PROTOCOL false) and the text Message of               *)
(* bmRPCMessage.h, driven as doLoop drives them, over a byte pipe that     *)
(* accepts and delivers arbitrarily small pieces.                          *)
(*                                                                         *)
(* Wire format: [id as decimal text, 0][name, 0][value, 0].  The sender's  *)
(* Message::setId(uint16_t&) writes the id with std::to_string; the        *)
(* receiver reads it back with Message::getId(uint16_t&), std::from_chars. *)
(* Characters are their byte values; 48..57 are the digits.                *)
(*                                                                         *)
(* As in Serializer.tla, the two Streamers are two byte queues: tx is what *)
(* the sending ring holds, rx what the receiving ring holds, and Transfer  *)
(* moves bytes from one to the other in order (Streamer.tla).              *)
(***************************************************************************)
EXTENDS Naturals, Sequences, SequencesExt

CONSTANTS
  Cap,         \* STREAMER_BUFFER_SIZE of each ring
  Ids,         \* invocation ids (uint16_t values)
  Names,       \* rpc names: sequences of non-zero bytes
  Payloads,    \* payload strings: sequences of bytes
  NumMsgs      \* number of messages the sender sends

ASSUME /\ Cap \in Nat \ {0} /\ NumMsgs \in Nat
       /\ Ids \subseteq 0..65535
       /\ \A nm \in Names : \A i \in 1..Len(nm) : nm[i] # 0

\* A message as the sender builds it: the id still a number
Msg == [id : Ids, name : Names, value : Payloads]
Phases == {"IDLE", "ID", "NAME", "ARGS_VALUE", "END"}

LesserOf(a, b) == IF a <= b THEN a ELSE b

\* std::to_string of a uint16_t: its decimal digits
to_string(n) ==
  LET k == CHOOSE k \in 1..5 : n < 10^k /\ (k = 1 \/ n >= 10^(k - 1))
  IN [i \in 1..k |-> 48 + ((n \div 10^(k - i)) % 10)]

IsDigit(c) == c \in 48..57

\* std::from_chars into a uint16_t: the value of the leading digits; with
\* no leading digit, or a value above 65535, the target keeps its old value
from_chars(s, old) ==
  LET k == IF \A i \in 1..Len(s) : IsDigit(s[i]) THEN Len(s)
           ELSE (CHOOSE i \in 1..Len(s) : ~IsDigit(s[i]) /\ \A j \in 1..(i - 1) : IsDigit(s[j])) - 1
      v == FoldLeft(LAMBDA acc, c : LesserOf(10 * acc + (c - 48), 65536), 0, SubSeq(s, 1, k))
  IN IF k = 0 \/ v > 65535 THEN old ELSE v

VARIABLES
  toSend,       \* the messages pushed on tx_msg_buffer, in order
  sidx,         \* how many of them send() has completed (queue pops)
  init_ser,     \* m_init_serializer
  tx_phase, m_i, m_len, tx_msg,           \* Serializer
  tx, rx,                                 \* the byte pipe
  init_deser,   \* m_init_deserializer
  rx_phase, m_s, rx_msg,                  \* Deserializer
  invocation_id, \* what getId(uint16_t&) last read (Skeleton::invocation_id)
  delivered     \* received messages, the id as getId(uint16_t&) reads it

vars == <<toSend, sidx, init_ser, tx_phase, m_i, m_len, tx_msg,
          tx, rx, init_deser, rx_phase, m_s, rx_msg, invocation_id, delivered>>
serVars == <<sidx, init_ser, tx_phase, m_i, m_len, tx_msg>>
deserVars == <<init_deser, rx_phase, m_s, rx_msg, invocation_id, delivered>>

\* Message<std::string>() and the static rx_msg: empty strings
NoMsg == [id |-> <<>>, name |-> <<>>, value |-> <<>>]

(***************************************************************************)
(* Serializer<std::string>                                                 *)
(***************************************************************************)

\* The bytes m_p points at in a phase: the field's c_str(), size() + 1
Field(phase, m) ==
  CASE phase = "ID"   -> to_string(m.id) \o <<0>>
    [] phase = "NAME" -> m.name \o <<0>>
    [] OTHER          -> m.value \o <<0>>

\* Mutant: a write that ignores the room left in the ring
StreamerAcceptsAll(len, q) == len

\* Streamer::write: as many bytes as the ring has room for
StreamerAccepts(len, q) == LesserOf(len, Cap - Len(q))

\* Mutant: a field counted as written only when more than m_len went out
SentStrict(count, len) == count > len

\* send()'s test, in every phase, that the rest of the field went out
Sent(count, len) == count >= len

\* The phase after a completed field
NextTxPhase(phase) ==
  CASE phase = "ID" -> "NAME" [] phase = "NAME" -> "ARGS_VALUE" [] OTHER -> "END"

\* One iteration of doLoop's transmit loop: init(&tx_msg) when a new
\* message is due, then send() once; a true result pops the queue
SendStep ==
  /\ sidx < Len(toSend)
  /\ LET m     == IF init_ser THEN toSend[sidx + 1] ELSE tx_msg
         ph    == IF init_ser THEN "ID" ELSE tx_phase
         i     == IF init_ser THEN 0 ELSE m_i
         len   == IF init_ser THEN Len(Field("ID", m)) ELSE m_len
         count == StreamerAccepts(len, tx)
         done  == Sent(count, len)
         ph2   == IF done THEN NextTxPhase(ph) ELSE ph
     IN /\ ph \notin {"IDLE", "END"}
        /\ tx' = tx \o SubSeq(Field(ph, m), i + 1, i + count)
        /\ tx_msg' = m
        /\ m_i' = IF done THEN 0 ELSE i + count
        /\ m_len' = IF done /\ ph2 # "END" THEN Len(Field(ph2, m))
                    ELSE IF done THEN len ELSE len - count
        /\ tx_phase' = IF ph2 = "END" THEN "IDLE" ELSE ph2
        /\ sidx' = IF ph2 = "END" THEN sidx + 1 ELSE sidx
        /\ init_ser' = (ph2 = "END")
  /\ UNCHANGED <<toSend, rx>> /\ UNCHANGED deserVars

\* flush() on the sending side and com_read() on the receiving side move
\* some of the bytes in flight, in order
Transfer ==
  \E k \in 1..Len(tx) :
    /\ Len(rx) + k <= Cap
    /\ rx' = rx \o SubSeq(tx, 1, k)
    /\ tx' = SubSeq(tx, k + 1, Len(tx))
    /\ UNCHANGED <<toSend>> /\ UNCHANGED serVars /\ UNCHANGED deserVars

(***************************************************************************)
(* Deserializer<std::string>                                               *)
(***************************************************************************)

\* Index of the first 0 byte of a sequence that has one
FirstZero(bs) == CHOOSE i \in 1..Len(bs) : bs[i] = 0 /\ \A j \in 1..(i - 1) : bs[j] # 0

\* Message<std::string>::setId(std::string&), setName, setValue(std::move)
SetField(msg, phase, s) ==
  CASE phase = "ID"   -> [msg EXCEPT !.id = s]
    [] phase = "NAME" -> [msg EXCEPT !.name = s]
    [] OTHER          -> [msg EXCEPT !.value = s]

\* The while(ix < m_len) loop of receive() over the bytes buf that try_read
\* returned.  Each phase scans for the field's 0; st.used counts the bytes
\* passed to consume_read.  Without a 0 the ID case consumes m_len bytes,
\* the others m_len - ix.
RECURSIVE Parse(_, _, _)

\* Mutant: m_s not cleared after a completed field
ParseNoClear(st, buf, ix) ==
  LET rest == SubSeq(buf, ix + 1, Len(buf))
  IN IF ix >= Len(buf) \/ st.phase \in {"IDLE", "END"} THEN st
     ELSE IF ~\E i \in 1..Len(rest) : rest[i] = 0
     THEN [st EXCEPT !.s = @ \o rest,
                     !.used = @ + (IF st.phase = "ID" THEN Len(buf) ELSE Len(rest))]
     ELSE LET z == FirstZero(rest)
              st2 == [st EXCEPT !.msg = SetField(@, st.phase, st.s \o SubSeq(rest, 1, z - 1)),
                                !.phase = NextTxPhase(st.phase), !.used = @ + z]
          IN IF st.phase = "ARGS_VALUE" THEN st2 ELSE Parse(st2, buf, ix + z)

Parse(st, buf, ix) ==
  LET rest == SubSeq(buf, ix + 1, Len(buf))
  IN IF ix >= Len(buf) \/ st.phase \in {"IDLE", "END"} THEN st
     ELSE IF \E i \in 1..Len(rest) : rest[i] = 0
          THEN LET z   == FirstZero(rest)
                   st2 == [st EXCEPT !.msg = SetField(@, st.phase, st.s \o SubSeq(rest, 1, z - 1)),
                                     !.s = <<>>, !.phase = NextTxPhase(st.phase),
                                     !.used = @ + z]
               IN IF st.phase = "ARGS_VALUE" THEN st2 ELSE Parse(st2, buf, ix + z)
          ELSE [st EXCEPT !.s = @ \o rest,
                          !.used = @ + (IF st.phase = "ID" THEN Len(buf) ELSE Len(rest))]

\* One iteration of doLoop's receive loop: init(&rx_msg) when a new
\* message is due, then receive(); a completed message is pushed, and the
\* Skeleton reads its id with getId(uint16_t&)
RecvStep ==
  LET st0 == [phase |-> IF init_deser THEN "ID" ELSE rx_phase,
              s     |-> IF init_deser THEN <<>> ELSE m_s,
              msg   |-> rx_msg, used |-> 0]
      st  == IF Len(rx) > 0 THEN Parse(st0, rx, 0) ELSE st0
      fin == st.phase = "END"
      id  == from_chars(st.msg.id, invocation_id)
  IN /\ rx' = SubSeq(rx, st.used + 1, Len(rx))
     /\ rx_phase' = IF fin THEN "IDLE" ELSE st.phase
     /\ m_s' = st.s /\ rx_msg' = st.msg
     /\ invocation_id' = IF fin THEN id ELSE invocation_id
     /\ delivered' = IF fin THEN Append(delivered, [st.msg EXCEPT !.id = id]) ELSE delivered
     /\ init_deser' = fin
     /\ UNCHANGED <<toSend, tx>> /\ UNCHANGED serVars

Init ==
  /\ toSend \in [1..NumMsgs -> Msg]
  /\ sidx = 0 /\ init_ser = TRUE
  /\ tx_phase = "IDLE" /\ m_i = 0 /\ m_len = 0
  /\ tx_msg = [id |-> 0, name |-> <<>>, value |-> <<>>]
  /\ tx = <<>> /\ rx = <<>>
  /\ init_deser = TRUE
  /\ rx_phase = "IDLE" /\ m_s = <<>>
  /\ rx_msg = NoMsg
  /\ invocation_id = 0
  /\ delivered = <<>>

Next == SendStep \/ Transfer \/ RecvStep

\* doLoop is called forever and its 5 ms budget fits many iterations of
\* each loop; the transport keeps moving bytes.
Spec == Init /\ [][Next]_vars
        /\ WF_vars(SendStep) /\ WF_vars(Transfer) /\ WF_vars(RecvStep)

(***************************************************************************)
(* Properties                                                              *)
(***************************************************************************)
TypeOK ==
  /\ sidx \in 0..Len(toSend)
  /\ {init_ser, init_deser} \subseteq BOOLEAN
  /\ tx_phase \in Phases /\ rx_phase \in Phases
  /\ Len(tx) <= Cap /\ Len(rx) <= Cap
  /\ invocation_id \in 0..65535
  /\ Len(delivered) <= Len(toSend)

\* Resumable text framing: whatever pieces the pipe accepts and delivers,
\* the messages receive() completes carry the sender's name and value, and
\* the id that getId(uint16_t&) parses is the one setId(uint16_t&) wrote,
\* in the order send() was given them.
RoundTrip ==
  \A i \in 1..Len(delivered) : delivered[i] = toSend[i]

\* Every message handed to the serializer is eventually received whole.
AllDelivered == <>(Len(delivered) = NumMsgs)

=============================================================================
