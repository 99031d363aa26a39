------------------------------ MODULE Streamer ------------------------------
(***************************************************************************)
(* The byte path of one direction of a bmRPC link (bmRPCStreamer.h and     *)
(* bmRPCDataLink.h): the transmit ring of the sending Streamer, the        *)
(* SharedBuffer queue of the loop-back transport, and the receive ring of  *)
(* the receiving Streamer.                                                 *)
(*                                                                         *)
(* Data is abstracted to positions in the stream: the producer writes the  *)
(* bytes 1, 2, 3, ... in this order, so any loss, duplication or           *)
(* reordering is visible in what the consumer reads.  Slot contents never  *)
(* written hold Garbage (the rings are allocated with new T[] and never    *)
(* cleared).                                                               *)
(***************************************************************************)
EXTENDS Naturals, Sequences

CONSTANTS
  N,            \* STREAMER_BUFFER_SIZE: ring capacity, a power of two
  PacketSize,   \* Comm::get_packet_size() of the sending transport
  LinkCap,      \* MAX_BUFFER_SIZE: capacity of the SharedBuffer queue
  Link,         \* "SharedBuffer": write accepts min(len, free) (the loop-back
                \*   transport); "ShortWrites": write accepts any count up to
                \*   min(len, free), as the Comm contract allows a driver to
                \*   (a hardware FIFO drained between two calls)
  MaxChunk,     \* largest size a caller passes to write/read
  MaxBytes,     \* total number of bytes the producer writes
  ComWrite(_, _), \* the count the sender's Comm::write(len) accepts on queue q
  ComRead(_, _)   \* the count the receiver's Comm::read(len) returns on queue q

IsPowerOfTwo(x) == \E k \in 0..x : 2^k = x

ASSUME /\ N \in Nat \ {0} /\ IsPowerOfTwo(N)
       /\ PacketSize \in Nat \ {0}
       /\ LinkCap \in Nat \ {0}
       /\ Link \in {"SharedBuffer", "ShortWrites"}
       /\ MaxChunk \in Nat \ {0}
       /\ MaxBytes \in Nat

Garbage == 0
Byte == 0..MaxBytes
Idx == 0..(N - 1)

VARIABLES
  tx_buffer, tx_in, tx_out, tx_full,   \* sending Streamer, tx half
  is_open,                             \* ClientCom::m_open
  in_queue,                            \* SharedBuffer in_queue/in_len
  rx_buffer, rx_in, rx_out, rx_full,   \* receiving Streamer, rx half
  sent,                                \* bytes accepted by write() so far
  got                                  \* bytes returned to the consumer

vars == <<tx_buffer, tx_in, tx_out, tx_full, is_open, in_queue,
          rx_buffer, rx_in, rx_out, rx_full, sent, got>>

LesserOf(a, b) == IF a <= b THEN a ELSE b

(* Mutant of inc: the wrap-around of the cursor is missing. *)
incNoWrap(p, v) == p + v

(* Streamer::inc: advance a cursor by v, wrapping once at the capacity. *)
inc(p, v) == IF p + v >= N THEN p + v - N ELSE p + v

(* The n slots of buf starting at from, in ring order. *)
Slots(buf, from, n) == [i \in 1..n |-> buf[(from + i - 1) % N]]

(* Mutant of WriteAvail: the free space is taken as (in-out) instead. *)
WriteAvailSwapped(in, out, full) ==
  IF ~full /\ in = out THEN N ELSE (in - out) % N

(* Free space seen by write(): all of it when empty, else (out-in)&(N-1). *)
WriteAvail(in, out, full) ==
  IF ~full /\ in = out THEN N ELSE (out - in) % N

(* Bytes pending in the tx ring as flush() computes them. *)
TxUsedSize(in, out, full) == IF full THEN N ELSE (in - out) % N

(* Bytes held in the rx ring as read/try_read/consume_read compute them. *)
RxAvail(in, out, full) == IF full THEN N ELSE (in - out) % N

(***************************************************************************)
(* The transport, through the Comm interface (bmRPCDataLink.h): write(len) *)
(* and read(len) forward to the Comm's write_impl and read_impl, given as  *)
(* ComWrite and ComRead (DataLink.tla).  LinkAccepts is the set of counts  *)
(* one call of write may return.                                           *)
(***************************************************************************)
LinkAccepts(len, q) ==
  IF Link = "SharedBuffer" THEN {ComWrite(len, q)} ELSE 0..ComWrite(len, q)

LinkDelivers(len, q) == ComRead(len, q)

(***************************************************************************)
(* Streamer::flush on a transmit state s = [out, full, q]: the do/while   *)
(* loop pushing chunks of at most PacketSize bytes, split in two calls     *)
(* when the chunk crosses the end of the ring.  The result is the set of  *)
(* states the loop can end in.                                            *)
(***************************************************************************)
Pushed(buf, s, from, n) ==
  IF n = 0 THEN s
  ELSE [out |-> inc(s.out, n), full |-> FALSE, q |-> s.q \o Slots(buf, from, n)]

RECURSIVE FlushLoop(_, _, _)
FlushLoop(buf, s, used) ==
  LET size  == LesserOf(used, PacketSize)
      count == s.out + size - N
      Again(t, left, n) == IF left > 0 /\ n > 0 THEN FlushLoop(buf, t, left) ELSE {t}
  IN IF count > 0
     THEN UNION { IF n1 = 0 THEN {s}
                  ELSE UNION { Again(Pushed(buf, Pushed(buf, s, s.out, n1), 0, n2),
                                     used - n1 - n2, n2)
                             : n2 \in LinkAccepts(count, Pushed(buf, s, s.out, n1).q) }
                : n1 \in LinkAccepts(size - count, s.q) }
     ELSE UNION { Again(Pushed(buf, s, s.out, n), used - n, n)
                : n \in LinkAccepts(size, s.q) }

(* flush() from a tx state; a no-op when the link is closed or tx empty. *)
DoFlush(buf, in, out, full, q) ==
  IF is_open /\ ~(~full /\ in = out)
  THEN FlushLoop(buf, [out |-> out, full |-> full, q |-> q],
                 TxUsedSize(in, out, full))
  ELSE {[out |-> out, full |-> full, q |-> q]}

(***************************************************************************)
(* Streamer::com_read on a receive state r = [in, full, buf, q]: fill the *)
(* rx ring from the transport, up to the end of the ring and then from    *)
(* its start when the first read filled the tail completely.              *)
(***************************************************************************)
Pulled(r, c) ==
  [in   |-> inc(r.in, c),
   full |-> r.full,
   buf  |-> [i \in Idx |-> IF (i - r.in) % N < c
                           THEN r.q[((i - r.in) % N) + 1] ELSE r.buf[i]],
   q    |-> SubSeq(r.q, c + 1, Len(r.q))]

com_read(r) ==
  IF r.full THEN r
  ELSE IF r.in >= rx_out
  THEN LET len == N - r.in
           c   == LinkDelivers(len, r.q)
           r1  == [Pulled(r, c) EXCEPT !.full = (inc(r.in, c) = rx_out)]
           c2  == LinkDelivers(rx_out, r1.q)
           r2  == [Pulled(r1, c2) EXCEPT !.full = (inc(r1.in, c2) = rx_out)]
       IN IF c = 0 THEN r
          ELSE IF c = len /\ c2 > 0 THEN r2 ELSE r1
  ELSE LET c  == LinkDelivers(rx_out - r.in, r.q)
       IN IF c = 0 THEN r
          ELSE [Pulled(r, c) EXCEPT !.full = (inc(r.in, c) >= rx_out)]

RxNow == [in |-> rx_in, full |-> rx_full, buf |-> rx_buffer, q |-> in_queue]

(* Leave the receive side in state r and the rx read cursor at out. *)
SetRx(r, out, full) ==
  /\ rx_in' = r.in /\ rx_buffer' = r.buf /\ in_queue' = r.q
  /\ rx_out' = out /\ rx_full' = full

(***************************************************************************)
(* Operations                                                              *)
(***************************************************************************)
Init ==
  /\ tx_buffer = [i \in Idx |-> Garbage] /\ tx_in = 0 /\ tx_out = 0
  /\ tx_full = FALSE
  /\ is_open = FALSE
  /\ in_queue = <<>>
  /\ rx_buffer = [i \in Idx |-> Garbage] /\ rx_in = 0 /\ rx_out = 0
  /\ rx_full = FALSE
  /\ sent = 0 /\ got = <<>>

(* ClientCom::open_impl: a second open returns -1 and changes nothing. *)
Open ==
  /\ ~is_open
  /\ is_open' = TRUE
  /\ UNCHANGED <<tx_buffer, tx_in, tx_out, tx_full, in_queue,
                 rx_buffer, rx_in, rx_out, rx_full, sent, got>>

(* Streamer::write(items, size) with items the next size stream bytes:  *)
(* copy what fits into the tx ring, then flush().                       *)
Write(size) ==
  /\ sent + size <= MaxBytes
  /\ LET k     == IF tx_full THEN 0
                  ELSE LesserOf(size, WriteAvail(tx_in, tx_out, tx_full))
         buf   == [i \in Idx |-> IF (i - tx_in) % N < k
                                 THEN sent + 1 + ((i - tx_in) % N)
                                 ELSE tx_buffer[i]]
         in1   == inc(tx_in, k)
         full1 == IF tx_full THEN TRUE ELSE in1 = tx_out
     IN \E f \in DoFlush(buf, in1, tx_out, full1, in_queue) :
          /\ tx_buffer' = buf /\ tx_in' = in1
          /\ tx_out' = f.out /\ tx_full' = f.full /\ in_queue' = f.q
          /\ sent' = sent + k
  /\ UNCHANGED <<is_open, rx_buffer, rx_in, rx_out, rx_full, got>>

(* Streamer::flush() called on its own, as doLoop does after sending. *)
Flush ==
  /\ \E f \in DoFlush(tx_buffer, tx_in, tx_out, tx_full, in_queue) :
        /\ tx_out' = f.out /\ tx_full' = f.full /\ in_queue' = f.q
  /\ UNCHANGED <<tx_buffer, tx_in, is_open, rx_buffer, rx_in, rx_out,
                 rx_full, sent, got>>

(* Streamer::rx_size(): pulls from the transport, reads nothing. *)
RxSize ==
  /\ LET r == com_read(RxNow) IN SetRx(r, rx_out, r.full)
  /\ UNCHANGED <<tx_buffer, tx_in, tx_out, tx_full, is_open, sent, got>>

(* Streamer::read(items, size): rx_empty() pulls from the transport;   *)
(* then up to size bytes are copied out and the read cursor advanced.  *)
Read(size) ==
  /\ LET r     == com_read(RxNow)
         empty == ~r.full /\ r.in = rx_out
         k     == LesserOf(size, RxAvail(r.in, rx_out, r.full))
     IN IF empty
        THEN SetRx(r, rx_out, r.full) /\ got' = got
        ELSE /\ SetRx(r, inc(rx_out, k), FALSE)
             /\ got' = got \o Slots(r.buf, rx_out, k)
  /\ UNCHANGED <<tx_buffer, tx_in, tx_out, tx_full, is_open, sent>>

(* The Deserializer's access pattern: m = rx_size(); try_read(buf, m);  *)
(* consume_read(k) for the k <= m bytes a phase has parsed.  Each call  *)
(* first pulls from the transport.                                      *)
PeekConsume(k) ==
  /\ LET r1 == com_read(RxNow)
         m  == RxAvail(r1.in, rx_out, r1.full)
         r2 == com_read(r1)
         r3 == com_read(r2)
         n  == LesserOf(k, RxAvail(r3.in, rx_out, r3.full))
     IN /\ m > 0 /\ k <= m
        /\ SetRx(r3, inc(rx_out, n), FALSE)
        /\ got' = got \o Slots(r3.buf, rx_out, n)
  /\ UNCHANGED <<tx_buffer, tx_in, tx_out, tx_full, is_open, sent>>

Next ==
  \/ Open
  \/ \E size \in 1..MaxChunk : Write(size)
  \/ Flush
  \/ RxSize
  \/ \E size \in 1..MaxChunk : Read(size)
  \/ \E k \in 1..MaxChunk : PeekConsume(k)

(* main() opens the link once; doLoop flushes on every iteration and the *)
(* receiving loop keeps reading: both run forever.                       *)
Fairness ==
  /\ WF_vars(Open)
  /\ WF_vars(Flush)
  /\ WF_vars(\E size \in 1..MaxChunk : Read(size))

Spec == Init /\ [][Next]_vars /\ Fairness

(***************************************************************************)
(* Properties                                                              *)
(***************************************************************************)
TxContents == Slots(tx_buffer, tx_out, TxUsedSize(tx_in, tx_out, tx_full))
RxContents == Slots(rx_buffer, rx_out, RxAvail(rx_in, rx_out, rx_full))

TypeOK ==
  /\ tx_buffer \in [Idx -> Byte] /\ rx_buffer \in [Idx -> Byte]
  /\ {tx_in, tx_out, rx_in, rx_out} \subseteq Idx
  /\ {tx_full, rx_full, is_open} \subseteq BOOLEAN
  /\ in_queue \in Seq(Byte) /\ Len(in_queue) <= LinkCap
  /\ sent \in 0..MaxBytes /\ got \in Seq(Byte)

(* Byte integrity of the whole path: what the consumer has read, then    *)
(* what waits in the rx ring, the transport and the tx ring, is exactly *)
(* the stream write() accepted, once each and in order.  It is about the *)
(* cursor and full-flag arithmetic of write/flush/com_read/read.        *)
StreamIntegrity ==
  got \o RxContents \o in_queue \o TxContents = [i \in 1..sent |-> i]

(* Every byte write() accepts is eventually returned by read(): flush()  *)
(* and com_read() never strand bytes in a ring.                         *)
Delivered == \A k \in 1..MaxBytes : (sent >= k) ~> (Len(got) >= k)


=============================================================================
