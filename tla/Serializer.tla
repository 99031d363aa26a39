----------------------------- MODULE Serializer -----------------------------
(***************************************************************************)
(* The binary Serializer and Deserializer of bmRPCSerializer.h (the build *)
(* sets BINARY_BASED_PROTOCOL), driven as RpcClient/RpcServer::doLoop     *)
(* drive them, over a byte pipe that accepts and delivers arbitrarily     *)
(* small pieces.                                                          *)
(*                                                                         *)
(* Wire format: [id: IdWidth bytes][name bytes, 0][size: SizeWidth bytes] *)
(* [size payload bytes], integers in the host's byte order (the sender's  *)
(* and receiver's reinterpret_cast see the same order).                    *)
(*                                                                         *)
(* The Streamer pair below is abstracted to two byte queues: tx is what   *)
(* the sending ring holds (write() accepts up to its free space), rx what *)
(* the receiving ring holds; Transfer moves bytes from one to the other   *)
(* (flush + com_read), and Streamer.tla checks that this pipe is FIFO.     *)
(***************************************************************************)
EXTENDS Naturals, Sequences

CONSTANTS
  IdWidth,     \* sizeof(uint16_t)
  SizeWidth,   \* sizeof(size_t)
  Cap,         \* STREAMER_BUFFER_SIZE of each ring
  Ids,         \* message ids to choose from (values of the uint16_t id)
  Names,       \* rpc names: sequences of non-zero bytes
  Payloads,    \* payloads: sequences of bytes, zeros included
  NumMsgs      \* number of messages the sender sends

ASSUME /\ IdWidth \in Nat \ {0} /\ SizeWidth \in Nat \ {0}
       /\ Cap \in Nat \ {0} /\ NumMsgs \in Nat
       /\ \A nm \in Names : Len(nm) > 0 /\ \A i \in 1..Len(nm) : nm[i] # 0

Msg == [id : Ids, name : Names, value : Payloads]
Phases == {"IDLE", "ID", "NAME", "SIZE", "ARGS_VALUE", "END"}

LesserOf(a, b) == IF a <= b THEN a ELSE b

(* Little-endian host: the bytes of an unsigned integer and back. *)
(* Byte i of x; values in the model are below 2^24, so bytes 4.. are 0. *)
LE(x, w) == [i \in 1..w |-> IF i > 3 THEN 0 ELSE (x \div 256^(i - 1)) % 256]

(* Reading them back saturates at Huge: every larger size_t is, like    *)
(* Huge, more than any payload in flight, and TLC integers are 32 bits. *)
Huge == 2^20

FromLE(bs) ==
  LET B(i) == IF i <= Len(bs) THEN bs[i] ELSE 0
  IN IF \E i \in 4..Len(bs) : bs[i] # 0 THEN Huge
     ELSE LesserOf(B(1) + 256 * B(2) + 65536 * B(3), Huge)

VARIABLES
  toSend,       \* the messages pushed on tx_msg_buffer, in order
  sidx,         \* how many of them send() has completed (queue pops)
  init_ser,     \* m_init_serializer
  tx_phase, m_i, m_len, m_id, m_size, tx_msg,        \* Serializer
  tx, rx,                                             \* the byte pipe
  init_deser,   \* m_init_deserializer
  rx_phase, m_s, m_v, rx_size, rx_msg,                \* Deserializer
  delivered     \* messages pushed on rx_msg_buffer, in order

vars == <<toSend, sidx, init_ser, tx_phase, m_i, m_len, m_id, m_size, tx_msg,
          tx, rx, init_deser, rx_phase, m_s, m_v, rx_size, rx_msg, delivered>>
serVars == <<sidx, init_ser, tx_phase, m_i, m_len, m_id, m_size, tx_msg>>
deserVars == <<init_deser, rx_phase, m_s, m_v, rx_size, rx_msg, delivered>>

NoMsg == [id |-> 0, name |-> <<>>, value |-> <<>>]

(***************************************************************************)
(* Serializer<std::vector<unsigned char>>                                  *)
(***************************************************************************)

(* The bytes m_p points at in the NAME phase: getName().c_str(), size+1. *)
NameField(m) == m.name \o <<0>>

(* The field the current phase streams from m_p. *)
Field(phase, m, id, size) ==
  CASE phase = "ID"   -> LE(id, IdWidth)
    [] phase = "NAME" -> NameField(m)
    [] phase = "SIZE" -> LE(size, SizeWidth)
    [] OTHER          -> m.value

(* Mutant of StreamerAccepts: write() ignores the free space of the ring. *)
StreamerAcceptsAll(len, q) == len

(* Streamer::write: as many bytes as the ring has room for. *)
StreamerAccepts(len, q) == LesserOf(len, Cap - Len(q))

(* Phase after the current field has been fully written. *)
NextTxPhase(phase, m) ==
  CASE phase = "ID"   -> "NAME"
    [] phase = "NAME" -> "SIZE"
    [] phase = "SIZE" -> IF Len(m.value) > 0 THEN "ARGS_VALUE" ELSE "END"
    [] OTHER          -> "END"

(* m_len for the phase that follows a completed field. *)
NextTxLen(phase, m) ==
  CASE phase = "ID"   -> Len(NameField(m))
    [] phase = "NAME" -> SizeWidth
    [] phase = "SIZE" -> Len(m.value)
    [] OTHER          -> 0

(* One iteration of doLoop's transmit loop: take the queue front when the  *)
(* serializer needs a new message (init), then call send() once; a true    *)
(* result pops the queue.                                                  *)
SendStep ==
  /\ sidx < Len(toSend)
  /\ LET m     == IF init_ser THEN toSend[sidx + 1] ELSE tx_msg
         ph    == IF init_ser THEN "ID" ELSE tx_phase
         id    == IF init_ser THEN m.id ELSE m_id
         i     == IF init_ser THEN 0 ELSE m_i
         len   == IF init_ser THEN IdWidth ELSE m_len
         f     == Field(ph, m, id, m_size)
         count == StreamerAccepts(len, tx)
         done  == count >= len
         ph2   == IF done THEN NextTxPhase(ph, m) ELSE ph
     IN /\ ph \notin {"IDLE", "END"}
        /\ tx' = tx \o SubSeq(f, i + 1, i + count)
        /\ tx_msg' = m /\ m_id' = id
        /\ m_size' = IF done /\ ph = "NAME" THEN Len(m.value) ELSE m_size
        /\ m_i' = IF done THEN 0 ELSE i + count
        /\ m_len' = IF done THEN NextTxLen(ph, m) ELSE len - count
        /\ tx_phase' = IF ph2 = "END" THEN "IDLE" ELSE ph2
        /\ sidx' = IF ph2 = "END" THEN sidx + 1 ELSE sidx
        /\ init_ser' = (ph2 = "END")
  /\ UNCHANGED <<toSend, rx>> /\ UNCHANGED deserVars

(* flush() on the sending side and com_read() on the receiving side move *)
(* some of the bytes in flight, in order.                                *)
Transfer ==
  \E k \in 1..Len(tx) :
    /\ Len(rx) + k <= Cap
    /\ rx' = rx \o SubSeq(tx, 1, k)
    /\ tx' = SubSeq(tx, k + 1, Len(tx))
    /\ UNCHANGED <<toSend>> /\ UNCHANGED serVars /\ UNCHANGED deserVars

(***************************************************************************)
(* Deserializer<std::vector<unsigned char>>                                *)
(***************************************************************************)

(* Mutant of ArgsComplete: the payload is complete only past its size. *)
ArgsCompleteStrict(have, need) == have > need

(* ARGS_VALUE: the bytes at hand complete the payload of size need. *)
ArgsComplete(have, need) == have >= need

(* Mutant of resetValue: the payload of the previous message is kept. *)
resetValueMissing(m) == m

(* Message::resetValue, called once the SIZE field is complete. *)
resetValue(m) == [m EXCEPT !.value = <<>>]

(* Index of the first 0 byte of a sequence that has one. *)
FirstZero(bs) == CHOOSE i \in 1..Len(bs) : bs[i] = 0 /\ \A j \in 1..(i - 1) : bs[j] # 0

(* The while(ix < m_len) loop of receive() over the bytes buf that       *)
(* try_read returned.  st.used counts the bytes passed to consume_read.  *)
RECURSIVE Parse(_, _, _)
Parse(st, buf, ix) ==
  LET rest == SubSeq(buf, ix + 1, Len(buf))
  IN IF ix >= Len(buf) THEN st
     ELSE CASE st.phase = "ID" ->
                 IF Len(rest) + Len(st.v) >= IdWidth
                 THEN LET n == IdWidth - Len(st.v)
                      IN Parse([st EXCEPT !.msg.id = FromLE(st.v \o SubSeq(rest, 1, n)),
                                          !.phase = "NAME", !.v = <<>>,
                                          !.used = @ + n], buf, ix + n)
                 ELSE [st EXCEPT !.v = @ \o rest, !.used = @ + Len(rest)]
            [] st.phase = "NAME" ->
                 IF \E i \in 1..Len(rest) : rest[i] = 0
                 THEN LET z  == FirstZero(rest)
                          s2 == st.s \o SubSeq(rest, 1, z - 1)
                      IN Parse([st EXCEPT !.s = s2, !.msg.name = s2,
                                          !.phase = "SIZE", !.used = @ + z], buf, ix + z)
                 ELSE [st EXCEPT !.s = @ \o rest, !.used = @ + Len(rest)]
            [] st.phase = "SIZE" ->
                 IF Len(rest) + Len(st.v) >= SizeWidth
                 THEN LET n   == SizeWidth - Len(st.v)
                          v2  == st.v \o SubSeq(rest, 1, n)
                          st2 == [st EXCEPT !.v = v2, !.size = FromLE(v2),
                                            !.msg = resetValue(@), !.used = @ + n]
                      IN IF st2.size > 0
                         THEN Parse([st2 EXCEPT !.phase = "ARGS_VALUE"], buf, ix + n)
                         ELSE [st2 EXCEPT !.phase = "END"]
                 ELSE [st EXCEPT !.v = @ \o rest, !.used = @ + Len(rest)]
            [] st.phase = "ARGS_VALUE" ->
                 IF ArgsComplete(Len(rest) + Len(st.msg.value), st.size)
                 THEN LET n == st.size - Len(st.msg.value)
                      IN [st EXCEPT !.msg.value = @ \o SubSeq(rest, 1, n),
                                    !.phase = "END", !.used = @ + n]
                 ELSE [st EXCEPT !.msg.value = @ \o rest, !.used = @ + Len(rest)]
            [] OTHER -> st

(* One iteration of doLoop's receive loop: init(&rx_msg) when a new      *)
(* message is due, then receive(); a true result pushes rx_msg.          *)
RecvStep ==
  LET st0 == [phase |-> IF init_deser THEN "ID" ELSE rx_phase,
              s     |-> IF init_deser THEN <<>> ELSE m_s,
              v     |-> IF init_deser THEN <<>> ELSE m_v,
              size  |-> rx_size, msg |-> rx_msg, used |-> 0]
      st  == IF st0.phase \notin {"IDLE", "END"} /\ Len(rx) > 0
             THEN Parse(st0, rx, 0) ELSE st0
      fin == st.phase = "END"
  IN /\ rx' = SubSeq(rx, st.used + 1, Len(rx))
     /\ rx_phase' = IF fin THEN "IDLE" ELSE st.phase
     /\ m_s' = st.s /\ m_v' = st.v /\ rx_size' = st.size /\ rx_msg' = st.msg
     /\ delivered' = IF fin THEN Append(delivered, st.msg) ELSE delivered
     /\ init_deser' = fin
     /\ UNCHANGED <<toSend, tx>> /\ UNCHANGED serVars

Init ==
  /\ toSend \in [1..NumMsgs -> Msg]
  /\ sidx = 0 /\ init_ser = TRUE
  /\ tx_phase = "IDLE" /\ m_i = 0 /\ m_len = 0 /\ m_id = 0 /\ m_size = 0
  /\ tx_msg = NoMsg
  /\ tx = <<>> /\ rx = <<>>
  /\ init_deser = TRUE
  /\ rx_phase = "IDLE" /\ m_s = <<>> /\ m_v = <<>> /\ rx_size = 0
  /\ rx_msg = NoMsg
  /\ delivered = <<>>

Next == SendStep \/ Transfer \/ RecvStep

(* doLoop is called forever and its 5 ms budget fits many iterations of *)
(* each loop; the transport keeps moving bytes.                         *)
Spec == Init /\ [][Next]_vars
        /\ WF_vars(SendStep) /\ WF_vars(Transfer) /\ WF_vars(RecvStep)

(***************************************************************************)
(* Properties                                                              *)
(***************************************************************************)
TypeOK ==
  /\ toSend \in Seq(Msg) /\ sidx \in 0..Len(toSend)
  /\ {init_ser, init_deser} \subseteq BOOLEAN
  /\ tx_phase \in Phases /\ rx_phase \in Phases
  /\ Len(tx) <= Cap /\ Len(rx) <= Cap
  /\ Len(delivered) <= Len(toSend)

(* Resumable framing: whatever pieces the pipe accepts and delivers, the *)
(* messages receive() completes are the messages send() was given, with *)
(* the same id, name and payload, in the same order.                    *)
RoundTrip ==
  \A i \in 1..Len(delivered) : delivered[i] = toSend[i]

(* Every message handed to the serializer is eventually received whole. *)
AllDelivered == <>(Len(delivered) = NumMsgs)

=============================================================================
