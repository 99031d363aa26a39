------------------------------ MODULE Marshaller ------------------------------
(***************************************************************************)
(* The binary argument codec of bmRPC (bmRPCMarshaller.h, bmRPCAnyArg.h)   *)
(* for calls of one remote function F, as the Stub on the client and the   *)
(* Skeleton on the server run them:                                        *)
(*   asyncRPC        serialize_args into Stub::in_args, recording the      *)
(*                   addresses of the output parameters;                   *)
(*   Skeleton::func  deserialize_in_args, the call, serialize_r and        *)
(*                   serialize_out_args into Skeleton::out_args;           *)
(*   unmarshall_and_dispatch  unmarshall_out_args into Stub::r_arg and     *)
(*                   Stub::out_args, deserialize_r, deserialize_out_args.  *)
(* Message transport is abstracted: Serializer.tla and RpcSystem.tla check *)
(* that the payload arrives intact at the right Stub.                      *)
(*                                                                         *)
(* A scalar is its bit pattern (a natural number), a string or blob the    *)
(* sequence of its bytes.  Bytes are laid out as the code lays them out:   *)
(* host memory order of the writer, swapped when to_swap, swapped back on  *)
(* read under LOOP_BACK_TEST.                                              *)
(***************************************************************************)
EXTENDS Naturals, Sequences, SequencesExt, FiniteSets, MarshallerTypes

CONSTANTS
  Sig,            \* the declared parameter types of F, a sequence of names
  RType,          \* the declared return type of F
  Vals,           \* scalar bit patterns the program passes
  Strs,           \* string / blob contents the program passes
  NumCalls,       \* calls made through the Stub
  ClientBig,      \* the client host is big-endian
  ServerBig,      \* the server host is big-endian
  ToSwap,         \* to_swap (bmRPC.h): SRV_NATIVE # CLN_NATIVE
  LOOP_BACK_TEST  \* the macro of that name is defined

VARIABLES
  phase,          \* "call", "server", "client"
  calls,          \* asyncRPC calls made
  vars,           \* the caller's argument variables
  passed,         \* ghost: vars as passed to the last asyncRPC
  addresses,      \* invokation_data::out_args_addresses (indices into vars)
  stub_in_args,   \* Stub::in_args (request payload)
  skel_out_args,  \* Skeleton::out_args (response payload)
  stub_r_arg,     \* Stub::r_arg
  stub_out_args,  \* Stub::out_args
  got,            \* ghost: the argument values the native function received
  left,           \* ghost: the argument cells after the native function ran
  ret,            \* ghost: the value the native function returned
  r_value,        \* the ReturnValue handed to the callback
  heap            \* argument copies deserialize_in_args allocated, not yet deleted

vars_ == <<phase, calls, vars, passed, addresses, stub_in_args, skel_out_args,
           stub_r_arg, stub_out_args, got, left, ret, r_value, heap>>

-----------------------------------------------------------------------------
(* Byte order and the stream:: primitives.                                 *)

\* The w bytes of the bit pattern v in a host's memory.  Vals stay below
\* 2^24, so bytes past the third are 0.
MemNoMask(v, w, big) ==
  LET le == [i \in 1..w |-> IF i > 3 THEN 0 ELSE v \div 256^(i - 1)]
  IN IF big THEN Reverse(le) ELSE le
Mem(v, w, big) ==
  LET le == [i \in 1..w |-> IF i > 3 THEN 0 ELSE (v \div 256^(i - 1)) % 256]
  IN IF big THEN Reverse(le) ELSE le

\* The bit pattern w bytes of a host's memory hold, saturated at Huge.
Huge == 2^24
FromMem(bs, big) ==
  LET le == IF big THEN Reverse(bs) ELSE bs
      B(i) == IF i <= Len(le) THEN le[i] ELSE 0
  IN IF \E i \in 4..Len(le) : le[i] # 0 THEN Huge
     ELSE B(1) + 256 * B(2) + 65536 * B(3)

\* sta_byteswap and dyn_byteswap both reverse the bytes of the value.
byteswap(bs) == Reverse(bs)

\* The byte at 1-based position k of a buffer.  Reading past the end is
\* undefined behaviour; the model reads 0.
At(data, k) == IF k \in 1..Len(data) THEN data[k] ELSE 0

\* stream::write(std::vector<unsigned char>&, T) of a scalar of type T
write_scalar(v, T, big) ==
  IF T \in {"char", "bool"} THEN <<v>>
  ELSE IF ToSwap THEN byteswap(Mem(v, SizeOf[T], big)) ELSE Mem(v, SizeOf[T], big)

\* stream::write of a pointer to a string or blob: the SIZE_T length, then
\* the bytes.  `SIZE_T length = n = data->size()` keeps size() mod 2^16.
write_bytes(s, big) ==
  LET n == Len(s) % 2^16
  IN write_scalar(n, "SIZE_T", big) \o SubSeq(s, 1, n)

\* stream::read(iterator, T&) of a scalar at offset ix
read_scalarAlwaysSwap(data, ix, T, big) ==
  LET bs == [i \in 1..SizeOf[T] |-> At(data, ix + i)]
  IN IF T \in {"char", "bool"} THEN bs[1]
     ELSE FromMem(IF ToSwap THEN byteswap(bs) ELSE bs, big)
read_scalar(data, ix, T, big) ==
  LET bs == [i \in 1..SizeOf[T] |-> At(data, ix + i)]
  IN IF T \in {"char", "bool"} THEN bs[1]
     ELSE FromMem(IF LOOP_BACK_TEST /\ ToSwap THEN byteswap(bs) ELSE bs, big)

\* stream::read(iterator, std::string& / blob&) at offset ix: the SIZE_T
\* length, then that many bytes (at most one past the end, see At).
read_bytes(data, ix, big) ==
  LET n == read_scalar(data, ix, "SIZE_T", big)
      m == IF n > Len(data) + 1 THEN Len(data) + 1 ELSE n
  IN [i \in 1..m |-> At(data, ix + SizeOf["SIZE_T"] + i)]

-----------------------------------------------------------------------------
(* The Marshaller.                                                         *)

\* The in ids carried as heap-allocated string / blob copies
ByteIds == {"CONST_STRING_REF", "STRING_REF", "CONST_BLOB_REF", "BLOB_REF"}

\* Arguments<F,N>::serialize_impl: each argument in declared order,
\* strings and blobs through a pointer
serialize_args(s, v) ==
  FlattenSeq([i \in 1..Len(s) |->
    IF IsBytes(s[i]) THEN write_bytes(v[i], ClientBig)
    ELSE write_scalar(v[i], Decl(s[i]).base, ClientBig)])

\* The addresses serialize_impl pushes: non-const references, and pointers
\* whose own type is not const
out_addressesAllRefs(s) ==
  SelectSeq([i \in 1..Len(s) |-> i], LAMBDA i : Decl(s[i]).ref \/ Decl(s[i]).ptr)
out_addresses(s) ==
  SelectSeq([i \in 1..Len(s) |-> i],
            LAMBDA i : (Decl(s[i]).ref \/ Decl(s[i]).ptr) /\ ~Decl(s[i]).cst)

\* The C++ type deserialize_in_args reads each scalar in id into
ReadTypeShortAsChar ==
     ("BOOL" :> "char") @@ ("UCHAR" :> "char") @@ ("CHAR" :> "char")
  @@ ("USHORT" :> "char") @@ ("SHORT" :> "short")
  @@ ("INT" :> "int") @@ ("UINT" :> "int") @@ ("INT_REF" :> "int")
  @@ ("LONG" :> "long") @@ ("ULONG" :> "long") @@ ("LONG_REF" :> "long")
  @@ ("FLOAT" :> "float") @@ ("FLOAT_REF" :> "float")
  @@ ("LONGLONG" :> "longlong") @@ ("ULONGLONG" :> "longlong")
  @@ ("LONGLONG_REF" :> "longlong")
  @@ ("DOUBLE" :> "double") @@ ("DOUBLE_REF" :> "double")
ReadType ==
     ("BOOL" :> "char") @@ ("UCHAR" :> "char") @@ ("CHAR" :> "char")
  @@ ("USHORT" :> "short") @@ ("SHORT" :> "short")
  @@ ("INT" :> "int") @@ ("UINT" :> "int") @@ ("INT_REF" :> "int")
  @@ ("LONG" :> "long") @@ ("ULONG" :> "long") @@ ("LONG_REF" :> "long")
  @@ ("FLOAT" :> "float") @@ ("FLOAT_REF" :> "float")
  @@ ("LONGLONG" :> "longlong") @@ ("ULONGLONG" :> "longlong")
  @@ ("LONGLONG_REF" :> "longlong")
  @@ ("DOUBLE" :> "double") @@ ("DOUBLE_REF" :> "double")

\* deserialize_in_args(format, data), binary: the AnyArg cells; a string or
\* blob cell holds the copy (its pointer in the code); WRONG/VOID a null cell
deserialize_in_args(fmt, data) ==
  LET step(acc, f) ==
        CASE f \in ByteIds ->
               LET n == read_scalar(data, acc.ix, "SIZE_T", ServerBig)
               IN [ix |-> acc.ix + SizeOf["SIZE_T"] + n,
                   vec |-> Append(acc.vec, read_bytes(data, acc.ix, ServerBig))]
          [] f \in DOMAIN ReadType ->
               [ix |-> acc.ix + SizeOf[ReadType[f]],
                vec |-> Append(acc.vec, read_scalar(data, acc.ix, ReadType[f], ServerBig))]
          [] OTHER -> [ix |-> acc.ix, vec |-> Append(acc.vec, 0)]
  IN FoldLeft(step, [ix |-> 0, vec |-> <<>>], fmt).vec

\* The C++ type serialize_r writes a return id as
RWrite == ("INT" :> "int") @@ ("LONG" :> "long") @@ ("FLOAT" :> "float")
       @@ ("LONGLONG" :> "longlong") @@ ("DOUBLE" :> "double")

serialize_r(r, v) == IF r \in DOMAIN RWrite THEN write_scalar(v, RWrite[r], ServerBig) ELSE <<>>

\* The C++ type serialize_out_args writes an output in id as
OutWrite == ("INT_REF" :> "int") @@ ("LONG_REF" :> "long") @@ ("FLOAT_REF" :> "float")
         @@ ("DOUBLE_REF" :> "double") @@ ("LONGLONG_REF" :> "longlong")

\* serialize_out_args: the output cells in order (by-value and const cells
\* write nothing)
serialize_out_args(fmt, arr) ==
  FlattenSeq([i \in 1..Len(fmt) |->
    CASE fmt[i] \in DOMAIN OutWrite -> write_scalar(arr[i], OutWrite[fmt[i]], ServerBig)
      [] fmt[i] \in {"STRING_REF", "BLOB_REF"} -> write_bytes(arr[i], ServerBig)
      [] OTHER -> <<>>])

\* The cells whose copies serialize_out_args deletes
deletedNoConst(fmt) == {i \in 1..Len(fmt) : fmt[i] \in {"STRING_REF", "BLOB_REF"}}
deleted(fmt) == {i \in 1..Len(fmt) : fmt[i] \in ByteIds}

\* unmarshall_out_args, binary: r_arg and out_args, both cleared first; a
\* non-void result takes the first sizeof(R) bytes
RSize == ("INT" :> SizeOf["int"]) @@ ("LONG" :> SizeOf["long"])
      @@ ("FLOAT" :> SizeOf["float"]) @@ ("LONGLONG" :> SizeOf["longlong"])
      @@ ("DOUBLE" :> SizeOf["double"])
unmarshall_out_argsNoVoid(r, data) ==
  LET size == IF r \in DOMAIN RSize THEN RSize[r] ELSE 0
  IN IF size > 0 THEN [r_arg |-> [i \in 1..size |-> At(data, i)],
                       out |-> [i \in 1..(Len(data) - size) |-> data[size + i]]]
     ELSE [r_arg |-> <<>>, out |-> <<>>]
unmarshall_out_args(r, data) ==
  LET size == IF r \in DOMAIN RSize THEN RSize[r] ELSE 0
  IN CASE r = "VOID" -> [r_arg |-> <<>>, out |-> data]
       [] size > 0 -> [r_arg |-> [i \in 1..size |-> At(data, i)],
                       out |-> [i \in 1..(Len(data) - size) |-> data[size + i]]]
       [] OTHER -> [r_arg |-> <<>>, out |-> <<>>]

\* deserialize_r: the ReturnValue of a non-void result
RRead == ("INT" :> "int") @@ ("LONG" :> "long") @@ ("FLOAT" :> "float")
      @@ ("LONGLONG" :> "longlong") @@ ("DOUBLE" :> "double")
NoReturn == [valid |-> FALSE, value |-> 0]
deserialize_r(r, bs) ==
  IF r \in DOMAIN RRead THEN [valid |-> TRUE, value |-> read_scalar(bs, 0, RRead[r], ClientBig)]
  ELSE NoReturn

\* The C++ type deserialize_out_args reads a scalar output id into
OutRead == ("INT_REF" :> "int") @@ ("LONG_REF" :> "long") @@ ("FLOAT_REF" :> "float")
        @@ ("LONGLONG_REF" :> "longlong") @@ ("DOUBLE_REF" :> "double")

\* deserialize_out_args(format, data, addresses): the i-th output goes to
\* addresses[i]; v is the caller's variables
deserialize_out_args(fmt, data, addrs, v) ==
  LET to(acc, i, x) == IF i <= Len(addrs) THEN [acc.v EXCEPT ![addrs[i]] = x] ELSE acc.v
      step(acc, i) ==
        CASE fmt[i] \in DOMAIN OutRead ->
               [ix |-> acc.ix + SizeOf[OutRead[fmt[i]]],
                v |-> to(acc, i, read_scalar(data, acc.ix, OutRead[fmt[i]], ClientBig))]
          [] fmt[i] \in {"STRING_REF", "BLOB_REF"} ->
               LET x == read_bytes(data, acc.ix, ClientBig)
               IN [ix |-> acc.ix + SizeOf["SIZE_T"] + Len(x), v |-> to(acc, i, x)]
          [] OTHER -> acc
  IN FoldLeft(step, [ix |-> 0, v |-> v], [i \in 1..Len(fmt) |-> i]).v

-----------------------------------------------------------------------------
(* The calls.                                                              *)

Fits(v, w) == w >= 3 \/ v < 256^w
ArgDomain(t) == IF IsBytes(t) THEN Strs ELSE {v \in Vals : Fits(v, SizeOf[Decl(t).base])}
RECURSIVE ArgTuples(_)
ArgTuples(n) == IF n = 0 THEN {<<>>}
                ELSE {Append(p, x) : p \in ArgTuples(n - 1), x \in ArgDomain(Sig[n])}
Args == ArgTuples(Len(Sig))
RetVals == IF RType = "void" THEN {0} ELSE {v \in Vals : Fits(v, SizeOf[RType])}

\* The parameters the native function may assign through
Assignable == {i \in 1..Len(Sig) : ParamType[Sig[i]].out # "WRONG"}

\* What the native function may leave in its cells: any value in the
\* assignable ones (the rest are not read back)
Default == CHOOSE v \in Args : TRUE
Results == {a \in Args : \A i \in 1..Len(Sig) \ Assignable : a[i] = Default[i]}

Init ==
  /\ phase = "call"
  /\ calls = 0
  /\ vars = Default
  /\ passed = vars
  /\ addresses = <<>>
  /\ stub_in_args = <<>>
  /\ skel_out_args = <<>>
  /\ stub_r_arg = <<>>
  /\ stub_out_args = <<>>
  /\ got = <<>>
  /\ left = <<>>
  /\ ret = 0
  /\ r_value = NoReturn
  /\ heap = {}

\* asyncRPC: the caller passes its variables a; in_args is cleared and the
\* arguments serialized into it, the output addresses recorded
AsyncRPC(a) ==
  /\ phase = "call"
  /\ calls < NumCalls
  /\ phase' = "server"
  /\ calls' = calls + 1
  /\ vars' = a
  /\ passed' = a
  /\ stub_in_args' = serialize_args(Sig, a)
  /\ addresses' = out_addresses(Sig)
  /\ UNCHANGED <<skel_out_args, stub_r_arg, stub_out_args, got, left, ret, r_value, heap>>

\* The Skeleton's func on the request payload (Skeleton::unmarshall copies
\* it into in_args): decode, call the native function, which may assign
\* through its reference and pointer parameters (nv) and returns rv, then
\* encode the result into out_args (cleared first, or built fresh)
SkeletonCall(nv, rv) ==
  LET fmt == codify_in_args(Sig)
      vec == deserialize_in_args(fmt, stub_in_args)
      after == [i \in 1..Len(Sig) |-> IF i \in Assignable THEN nv[i] ELSE vec[i]]
  IN /\ phase = "server"
     /\ phase' = "client"
     /\ skel_out_args' = serialize_r(RId[RType], rv) \o serialize_out_args(fmt, after)
     /\ got' = vec
     /\ left' = after
     /\ ret' = rv
     /\ heap' = (heap \cup {i \in 1..Len(fmt) : fmt[i] \in ByteIds}) \ deleted(fmt)
     /\ UNCHANGED <<calls, vars, passed, addresses, stub_in_args, stub_r_arg, stub_out_args, r_value>>

\* Stub::unmarshall_and_dispatch on the response payload: split it, decode
\* the return value (for a non-void F), refill the recorded addresses and
\* hand the ReturnValue to the callback
StubDispatch ==
  LET r == RId[RType]
      u == unmarshall_out_args(r, skel_out_args)
  IN /\ phase = "client"
     /\ phase' = "call"
     /\ stub_r_arg' = u.r_arg
     /\ stub_out_args' = u.out
     /\ r_value' = IF r # "VOID" THEN deserialize_r(r, u.r_arg) ELSE NoReturn
     /\ vars' = deserialize_out_args(codify_out_args(Sig), u.out, addresses, vars)
     /\ UNCHANGED <<calls, passed, addresses, stub_in_args, skel_out_args, got, left, ret, heap>>

Next ==
  \/ \E a \in Args : AsyncRPC(a)
  \/ \E nv \in Results, rv \in RetVals : SkeletonCall(nv, rv)
  \/ StubDispatch

Spec == Init /\ [][Next]_vars_

-----------------------------------------------------------------------------
(* Properties.                                                             *)

Bytes == 0..255
TypeOK ==
  /\ phase \in {"call", "server", "client"}
  /\ calls \in 0..NumCalls
  /\ Len(vars) = Len(Sig)
  /\ Len(passed) = Len(Sig)
  /\ addresses \in Seq(1..Len(Sig))
  /\ \A b \in {stub_in_args, skel_out_args, stub_r_arg, stub_out_args} : b \in Seq(Bytes)
  /\ heap \subseteq 1..Len(Sig)

\* The native function on the server receives exactly the values the
\* caller passed to asyncRPC: serialize_impl on the client and
\* deserialize_in_args on the server agree on widths, byte order and the
\* length prefix of every parameter type.
ArgumentsArrive == phase # "server" /\ calls > 0 => got = passed

\* When the callback runs, every output parameter (non-const reference or
\* pointer) of the caller holds the value the native function left in it,
\* every other argument variable is untouched, and a non-void call's
\* ReturnValue is valid and holds the returned value: serialize_r /
\* serialize_out_args and unmarshall_out_args / deserialize_r /
\* deserialize_out_args agree, and the recorded addresses line up with the
\* output format.
OutputsReturned ==
  phase = "call" /\ calls > 0 =>
    /\ \A i \in 1..Len(Sig) : vars[i] = IF i \in Assignable THEN left[i] ELSE passed[i]
    /\ r_value = IF RType = "void" THEN NoReturn ELSE [valid |-> TRUE, value |-> ret]

\* Every string and blob copy deserialize_in_args heap-allocates is deleted
\* by serialize_out_args in the same dispatch.
NoLeakedCopies == heap = {}

=============================================================================
