------------------------------ MODULE DataLink ------------------------------
(***************************************************************************)
(* The loop-back transport of bmRPCDataLink.h: a SharedBuffer holding two *)
(* byte queues of MAX_BUFFER_SIZE bytes, in_queue (client to server) and  *)
(* out_queue (server to client), and the ClientCom and ServerCom that      *)
(* write to and read from it through the Comm interface.                   *)
(*                                                                         *)
(* A queue is the sequence of the bytes it holds (in_len = Len(q)).  The   *)
(* four calls are operators giving the count a call of length len returns  *)
(* on the queue it uses; the Streamer that calls them appends or removes   *)
(* those bytes.  in_lock and out_lock are set and cleared inside one call  *)
(* and every caller runs in the one thread of the program, so a call never *)
(* sees them set: the lock test of each call is always false.             *)
(***************************************************************************)
EXTENDS Naturals, Sequences

CONSTANT LinkCap   \* MAX_BUFFER_SIZE: capacity of each queue

LesserOf(a, b) == IF a <= b THEN a ELSE b

(* SharedBuffer::srv_read: nothing when the queue is empty or len = 0,   *)
(* else min(len, in_len) bytes from the front of in_queue.              *)
srv_read(len, q) == IF Len(q) = 0 \/ len = 0 THEN 0 ELSE LesserOf(len, Len(q))

(* Mutant of srv_write: the free capacity is not checked. *)
srv_writeNoCap(len, q) == len

(* SharedBuffer::srv_write: nothing for len = 0, else min(len, capacity) *)
(* bytes appended to out_queue, capacity = size - out_len.               *)
srv_write(len, q) == IF len > 0 THEN LesserOf(len, LinkCap - Len(q)) ELSE 0

(* Mutant of cln_read: a read asking for more than is held returns     *)
(* nothing instead of the bytes held.                                   *)
cln_readAllOrNothing(len, q) ==
  IF Len(q) = 0 \/ len = 0 \/ len > Len(q) THEN 0 ELSE len

(* SharedBuffer::cln_read: the same on out_queue. *)
cln_read(len, q) == IF Len(q) = 0 \/ len = 0 THEN 0 ELSE LesserOf(len, Len(q))

(* SharedBuffer::cln_write: the same on in_queue. *)
cln_write(len, q) == IF len > 0 THEN LesserOf(len, LinkCap - Len(q)) ELSE 0

=============================================================================
