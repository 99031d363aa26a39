---------------------------- MODULE MCStreamer ----------------------------
(***************************************************************************)
(* The two directions of the loop-back link of main() and the tests, over  *)
(* one SharedBuffer.  Requests: the client's Streamer writes through       *)
(* ClientCom (cln_write into in_queue) and the server's reads through      *)
(* ServerCom (srv_read).  Responses: the server's Streamer writes through  *)
(* ServerCom (srv_write into out_queue) and the client's reads through     *)
(* ClientCom (cln_read).  The two directions touch disjoint fields of the  *)
(* SharedBuffer and of the Streamers, so a behaviour checks one of them,   *)
(* chosen in Init; the variables of Streamer stand for that direction's    *)
(* rings, sending Com and queue.                                          *)
(*                                                                         *)
(* A 4-byte ring, 3-byte packets and 3-byte queues, so that writes wrap,   *)
(* flushes split at the end of the ring and the queue fills.               *)
(***************************************************************************)
EXTENDS Naturals

CONSTANTS N, PacketSize, LinkCap, Link, MaxChunk, MaxBytes, Dirs

VARIABLES tx_buffer, tx_in, tx_out, tx_full, is_open, in_queue,
          rx_buffer, rx_in, rx_out, rx_full, sent, got,
          dir   \* "req" or "rsp": the direction of this behaviour

vars == <<tx_buffer, tx_in, tx_out, tx_full, is_open, in_queue,
          rx_buffer, rx_in, rx_out, rx_full, sent, got, dir>>

DL == INSTANCE DataLink

(* Requests: ClientCom::write_impl = cln_write, ServerCom::read_impl = srv_read. *)
Req == INSTANCE Streamer WITH ComWrite <- DL!cln_write, ComRead <- DL!srv_read

(* Responses: ServerCom::write_impl = srv_write, ClientCom::read_impl = cln_read. *)
Rsp == INSTANCE Streamer WITH ComWrite <- DL!srv_write, ComRead <- DL!cln_read

Init == dir \in Dirs /\ Req!Init

Next == /\ \/ dir = "req" /\ Req!Next
           \/ dir = "rsp" /\ Rsp!Next
        /\ UNCHANGED dir

(* Writes are bounded by MaxBytes, and flush, com_read and read only move *)
(* bytes forward, so every step makes progress: weak fairness of Next is  *)
(* the doLoop of the two programs running on.                             *)
Spec == Init /\ [][Next]_vars /\ WF_vars(Next)

TypeOK == Req!TypeOK /\ dir \in Dirs

(* Byte integrity of the direction: what the consumer has read, then what *)
(* waits in the rx ring, the queue and the tx ring, is exactly the stream *)
(* the producer's write() accepted, once each and in order.  It is about  *)
(* the cursor and full-flag arithmetic of write/flush/com_read/read and   *)
(* the counts the SharedBuffer calls return.                              *)
StreamIntegrity == Req!StreamIntegrity

(* Every byte the client writes reaches the server's read(), and every    *)
(* byte the server writes reaches the client's read(): flush() and        *)
(* com_read() never strand bytes in a ring or in the SharedBuffer.        *)
Delivered == Req!Delivered

MC_N == 4
MC_PacketSize == 3
MC_LinkCap == 3
MC_MaxChunk == 3
MC_MaxBytes == 10
=============================================================================
