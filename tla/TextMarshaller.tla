---------------------------- MODULE TextMarshaller ----------------------------
(***************************************************************************)
(* The text argument codec of bmRPC (BINARY_BASED_PROTOCOL false): the    *)
(* std::string specialisations of bmRPCMarshaller.h, the ostringstream    *)
(* and std::string overloads of stream::write / stream::read              *)
(* (bmRPCAnyArg.h), and ltrim / split (bmRPCUtilities.cpp), for calls of  *)
(* one remote function F, over the variables of Marshaller.tla:           *)
(*   asyncRPC        serialize_args into an ostringstream, each argument  *)
(*                   as ' ' and its text; Stub::in_args = ltrim(str());   *)
(*   Skeleton        unmarshall: in_args = split(payload); func:          *)
(*                   deserialize_in_args, the call, serialize_r and       *)
(*                   serialize_out_args into an ostringstream, ltrim;     *)
(*   unmarshall_and_dispatch  split, r_arg the first token of a non-void  *)
(*                   result, deserialize_r, deserialize_out_args.         *)
(* Characters are their byte values: 32 is ' ', 48..57 the digits.  A     *)
(* number is a natural; a string is the sequence of its bytes.            *)
(***************************************************************************)
EXTENDS Integers, Sequences, SequencesExt, MarshallerTypes

CONSTANTS
  Sig,        \* the declared parameter types of F (no blob: text build)
  RType,      \* the declared return type of F
  Vals,       \* numbers the program passes (below 2^24: exact in a float)
  Strs,       \* string contents the program passes
  NumCalls    \* calls made through the Stub

ASSUME /\ \A i \in 1..Len(Sig) : Decl(Sig[i]).base # "blob"
       /\ Vals \subseteq 0..(2^24 - 1) /\ NumCalls \in Nat

VARIABLES
  phase, calls, vars, passed, addresses, stub_in_args, skel_out_args,
  stub_r_arg, stub_out_args, got, left, ret, r_value, heap

vars_ == <<phase, calls, vars, passed, addresses, stub_in_args, skel_out_args,
           stub_r_arg, stub_out_args, got, left, ret, r_value, heap>>

-----------------------------------------------------------------------------
(* Text and the stream:: primitives.                                       *)

Blank == 32
IsDigit(c) == c \in 48..57
\* std::isspace in the "C" locale
IsSpace(c) == c \in {32, 9, 10, 11, 12, 13}

\* operator<< of an integer: its decimal digits
Decimal(n) ==
  LET k == CHOOSE k \in 1..8 : n < 10^k /\ (k = 1 \/ n >= 10^(k - 1))
  IN [i \in 1..k |-> 48 + ((n \div 10^(k - i)) % 10)]

\* operator<< of a float or double: six significant digits (the stream's
\* default precision), rounded to nearest.  The model writes the digits of
\* the rounded value, where the stream writes 1.23457e+06 for 1234567: the
\* token and the value stof reads back are the same.
Round6(v) ==
  IF v < 10^6 THEN v
  ELSE LET q == 10^(Len(Decimal(v)) - 6) IN ((v + q \div 2) \div q) * q
Gfmt(v) == Decimal(Round6(v))

\* stream::write(std::ostringstream&, T): the delimiter, then the value; a
\* bool as 1 or 0, a char raw, a string through its pointer
write(t, v) ==
  <<Blank>> \o CASE t \in {"char", "uchar"}  -> <<v>>
                 [] t \in {"float", "double"} -> Gfmt(v)
                 [] t = "string"              -> v
                 [] OTHER                     -> Decimal(v)

\* ltrim: the string from its first non-space character
ltrim(s) ==
  LET k == SelectInSeq(s, LAMBDA c : ~IsSpace(c))
  IN IF k = 0 THEN <<>> ELSE SubSeq(s, k, Len(s))

\* split with each blank kept at the end of the token before it
splitWithBlank(s) ==
  FoldLeft(LAMBDA toks, c :
             IF c = Blank THEN Append([toks EXCEPT ![Len(toks)] = Append(@, c)], <<>>)
             ELSE [toks EXCEPT ![Len(toks)] = Append(@, c)],
           <<<<>>>>, s)

\* split: the pieces between the ' ' characters, one more than there are
\* blanks (an empty string gives one empty token)
split(s) ==
  FoldLeft(LAMBDA toks, c :
             IF c = Blank THEN Append(toks, <<>>)
             ELSE [toks EXCEPT ![Len(toks)] = Append(@, c)],
           <<<<>>>>, s)

\* What an uninitialised local holds, or a read past the end of the token
\* vector (undefined behaviour): no value the program passed
Indeterminate == -1
NoString == <<-1>>

\* std::from_chars into an integer of maximum mx: the value of the leading
\* digits; with none, or out of range, the local is left uninitialised
from_chars(s, mx) ==
  LET k == SelectInSeq(s, LAMBDA c : ~IsDigit(c))
      ds == IF k = 0 THEN s ELSE SubSeq(s, 1, k - 1)
      v == FoldLeft(LAMBDA acc, c : IF 10 * acc + (c - 48) > mx THEN mx + 1
                                    ELSE 10 * acc + (c - 48), 0, ds)
  IN IF ds = <<>> \/ v > mx THEN Indeterminate ELSE v

\* stof / stod: skip leading spaces, read a number; with no number they
\* throw std::invalid_argument, which nothing catches
Thrown == -2
stof(s) == LET v == from_chars(ltrim(s), 2^30) IN IF v = Indeterminate THEN Thrown ELSE v

\* the char read: s.c_str()[0], the terminating 0 of an empty token
char_of(s) == IF s = <<>> THEN 0 ELSE s[1]

\* The largest value of the integer types read with from_chars (the 32-
\* and 64-bit ones beyond every value of the model)
IntMax == ("short" :> 32767) @@ ("ushort" :> 65535) @@ ("int" :> 2^30)
       @@ ("uint" :> 2^30) @@ ("long" :> 2^30) @@ ("ulong" :> 2^30)
       @@ ("longlong" :> 2^30) @@ ("ulonglong" :> 2^30)

\* stream::read(std::string, T&) of the token s into a local of type T
read(s, T) ==
  CASE T = "char"               -> char_of(s)
    [] T \in {"float", "double"} -> stof(s)
    [] T = "string"              -> s
    [] OTHER                     -> from_chars(s, IntMax[T])

-----------------------------------------------------------------------------
(* The Marshaller.                                                         *)

\* Arguments<F,N>::serialize_impl into the ostringstream, and asyncRPC's
\* in_args = ltrim(ss.str())
serialize_args(s, v) ==
  ltrim(FlattenSeq([i \in 1..Len(s) |-> write(Decl(s[i]).base, v[i])]))

\* The addresses serialize_impl pushes (as in Marshaller.tla)
out_addresses(s) ==
  SelectSeq([i \in 1..Len(s) |-> i],
            LAMBDA i : (Decl(s[i]).ref \/ Decl(s[i]).ptr) /\ ~Decl(s[i]).cst)

\* The local type deserialize_in_args reads each in id into
InRead ==
     ("BOOL" :> "char") @@ ("UCHAR" :> "char") @@ ("CHAR" :> "char")
  @@ ("SHORT" :> "short") @@ ("USHORT" :> "ushort")
  @@ ("INT" :> "int") @@ ("INT_REF" :> "int") @@ ("UINT" :> "uint")
  @@ ("LONG" :> "long") @@ ("LONG_REF" :> "long") @@ ("ULONG" :> "ulong")
  @@ ("FLOAT" :> "float") @@ ("FLOAT_REF" :> "float")
  @@ ("CONST_STRING_REF" :> "string") @@ ("STRING_REF" :> "string")
  @@ ("LONGLONG" :> "longlong") @@ ("LONGLONG_REF" :> "longlong")
  @@ ("ULONGLONG" :> "ulonglong")
  @@ ("DOUBLE" :> "double") @@ ("DOUBLE_REF" :> "double")

\* data[i]: the token, or past the end of the vector what the read yields
Token(data, i, T) ==
  IF i <= Len(data) THEN read(data[i], T)
  ELSE IF T = "string" THEN NoString ELSE Indeterminate

\* deserialize_in_args(format, data), text: a cell per in id; a string
\* cell holds the copy new std::string(std::move(data[i])); VOID/WRONG a
\* null cell
deserialize_in_args(fmt, data) ==
  [i \in 1..Len(fmt) |-> IF fmt[i] \in DOMAIN InRead THEN Token(data, i, InRead[fmt[i]]) ELSE 0]

\* The in ids whose cells deserialize_in_args heap-allocates
StringIds == {"CONST_STRING_REF", "STRING_REF"}

\* serialize_r: AnyArg::write<R> of the returned value
RWrite == ("INT" :> "int") @@ ("LONG" :> "long") @@ ("FLOAT" :> "float")
       @@ ("LONGLONG" :> "longlong") @@ ("DOUBLE" :> "double")
serialize_r(r, v) == IF r \in DOMAIN RWrite THEN write(RWrite[r], v) ELSE <<>>

\* serialize_out_args: the output cells in order; by-value and const
\* cells write nothing
OutWrite == ("INT_REF" :> "int") @@ ("LONG_REF" :> "long") @@ ("FLOAT_REF" :> "float")
         @@ ("DOUBLE_REF" :> "double") @@ ("LONGLONG_REF" :> "longlong")
         @@ ("STRING_REF" :> "string")
serialize_out_args(fmt, arr) ==
  FlattenSeq([i \in 1..Len(fmt) |->
    IF fmt[i] \in DOMAIN OutWrite THEN write(OutWrite[fmt[i]], arr[i]) ELSE <<>>])

\* The cells whose copies serialize_out_args deletes
deletedNoConst(fmt) == {i \in 1..Len(fmt) : fmt[i] = "STRING_REF"}
deleted(fmt) == {i \in 1..Len(fmt) : fmt[i] \in StringIds}

\* unmarshall_out_args, text: split the payload; a non-void result takes
\* the first token
unmarshall_out_argsNoSkip(r, data) ==
  LET sdata == split(data)
  IN IF r # "VOID" THEN [r_arg |-> sdata[1], out |-> sdata]
     ELSE [r_arg |-> <<>>, out |-> sdata]
unmarshall_out_args(r, data) ==
  LET sdata == split(data)
  IN IF r # "VOID" THEN [r_arg |-> sdata[1], out |-> Tail(sdata)]
     ELSE [r_arg |-> <<>>, out |-> sdata]

\* deserialize_r: the ReturnValue of a non-void result
RRead == ("INT" :> "int") @@ ("LONG" :> "long") @@ ("FLOAT" :> "float")
      @@ ("LONGLONG" :> "longlong") @@ ("DOUBLE" :> "double")
NoReturn == [valid |-> FALSE, value |-> 0]
deserialize_r(r, s) ==
  IF r \in DOMAIN RRead THEN [valid |-> TRUE, value |-> read(s, RRead[r])]
  ELSE NoReturn

\* deserialize_out_args(format, data, addresses), text: the i-th output,
\* read from the i-th token, goes to addresses[i]
OutRead == ("INT_REF" :> "int") @@ ("LONG_REF" :> "long") @@ ("FLOAT_REF" :> "float")
        @@ ("LONGLONG_REF" :> "longlong") @@ ("DOUBLE_REF" :> "double")
        @@ ("STRING_REF" :> "string")
deserialize_out_args(fmt, data, addrs, v) ==
  LET Out(i) == {j \in 1..Len(fmt) : j <= Len(addrs) /\ addrs[j] = i /\ fmt[j] \in DOMAIN OutRead}
  IN [i \in 1..Len(v) |->
        IF Out(i) = {} THEN v[i]
        ELSE LET j == CHOOSE j \in Out(i) : TRUE IN Token(data, j, OutRead[fmt[j]])]

\* AnyArg::getAs<bool>: the cell's byte read as a bool; an if() on it
\* sees any non-zero byte as true
getAs(t, x) == IF t = "bool" /\ x # Indeterminate THEN (IF x = 0 THEN 0 ELSE 1) ELSE x

-----------------------------------------------------------------------------
(* The calls.                                                              *)

\* The values of each declared type the program passes: a bool is 0 or 1,
\* a char one byte, a short or unsigned short in its range
ArgDomain(t) ==
  LET b == Decl(t).base
  IN CASE b = "string"              -> Strs
       [] b = "bool"                -> Vals \cap {0, 1}
       [] b \in {"char", "uchar"}   -> {v \in Vals : v < 256}
       [] b = "short"               -> {v \in Vals : v < 2^15}
       [] b = "ushort"              -> {v \in Vals : v < 2^16}
       [] OTHER                     -> Vals
RECURSIVE ArgTuples(_)
ArgTuples(n) == IF n = 0 THEN {<<>>}
                ELSE {Append(p, x) : p \in ArgTuples(n - 1), x \in ArgDomain(Sig[n])}
Args == ArgTuples(Len(Sig))
RetVals == IF RType = "void" THEN {0} ELSE Vals

Assignable == {i \in 1..Len(Sig) : ParamType[Sig[i]].out # "WRONG"}
Default == CHOOSE v \in Args : TRUE
Results == {a \in Args : \A i \in 1..Len(Sig) \ Assignable : a[i] = Default[i]}

\* A stof / stod that threw, for values of the parameters of Sig:
\* std::terminate ends the process
Threw(xs) == \E i \in DOMAIN xs : Decl(Sig[i]).base \in {"float", "double"} /\ xs[i] = Thrown

Init ==
  /\ phase = "call"
  /\ calls = 0
  /\ vars = Default
  /\ passed = vars
  /\ addresses = <<>>
  /\ stub_in_args = <<>>
  /\ skel_out_args = <<>>
  /\ stub_r_arg = <<>>
  /\ stub_out_args = <<>>
  /\ got = <<>>
  /\ left = <<>>
  /\ ret = 0
  /\ r_value = NoReturn
  /\ heap = {}

\* asyncRPC: the arguments written into a fresh ostringstream, in_args its
\* text with the leading blanks trimmed, the output addresses recorded
AsyncRPC(a) ==
  /\ phase = "call"
  /\ calls < NumCalls
  /\ phase' = "server"
  /\ calls' = calls + 1
  /\ vars' = a
  /\ passed' = a
  /\ stub_in_args' = serialize_args(Sig, a)
  /\ addresses' = out_addresses(Sig)
  /\ UNCHANGED <<skel_out_args, stub_r_arg, stub_out_args, got, left, ret, r_value, heap>>

\* Skeleton::unmarshall splits the payload into in_args; func decodes the
\* tokens, calls the native function (which may assign through its
\* reference and pointer parameters, nv, and returns rv) and writes the
\* result into a fresh ostringstream, out_args its ltrim.  A float or
\* double token stof cannot read throws before the call.
SkeletonCall(nv, rv) ==
  LET fmt == codify_in_args(Sig)
      vec == deserialize_in_args(fmt, split(stub_in_args))
      after == [i \in 1..Len(Sig) |-> IF i \in Assignable THEN nv[i] ELSE vec[i]]
  IN /\ phase = "server"
     /\ got' = vec
     /\ heap' = (heap \cup {i \in 1..Len(fmt) : fmt[i] \in StringIds})
                  \ (IF Threw(vec) THEN {} ELSE deleted(fmt))
     /\ IF Threw(vec)
        THEN /\ phase' = "terminated"
             /\ UNCHANGED <<skel_out_args, left, ret>>
        ELSE /\ phase' = "client"
             /\ skel_out_args' =
                  ltrim(serialize_r(RId[RType], rv) \o serialize_out_args(fmt, after))
             /\ left' = after
             /\ ret' = rv
     /\ UNCHANGED <<calls, vars, passed, addresses, stub_in_args, stub_r_arg, stub_out_args, r_value>>

\* Stub::unmarshall_and_dispatch: split the payload, read the return value
\* of a non-void F from the first token, refill the recorded addresses
\* from the rest and hand the ReturnValue to the callback
StubDispatch ==
  LET r == RId[RType]
      u == unmarshall_out_args(r, skel_out_args)
      rv == IF r # "VOID" THEN deserialize_r(r, u.r_arg) ELSE NoReturn
      nv == deserialize_out_args(codify_out_args(Sig), u.out, addresses, vars)
  IN /\ phase = "client"
     /\ phase' = IF Threw(nv) \/ rv.value = Thrown THEN "terminated" ELSE "call"
     /\ stub_r_arg' = u.r_arg
     /\ stub_out_args' = u.out
     /\ r_value' = rv
     /\ vars' = nv
     /\ UNCHANGED <<calls, passed, addresses, stub_in_args, skel_out_args, got, left, ret, heap>>

Next ==
  \/ \E a \in Args : AsyncRPC(a)
  \/ \E nv \in Results, rv \in RetVals : SkeletonCall(nv, rv)
  \/ StubDispatch

Spec == Init /\ [][Next]_vars_

-----------------------------------------------------------------------------
(* Properties.                                                             *)

Bytes == 0..255
TypeOK ==
  /\ phase \in {"call", "server", "client", "terminated"}
  /\ calls \in 0..NumCalls
  /\ Len(vars) = Len(Sig)
  /\ Len(passed) = Len(Sig)
  /\ addresses \in Seq(1..Len(Sig))
  /\ \A b \in {stub_in_args, skel_out_args} : b \in Seq(Bytes)
  /\ stub_r_arg \in Seq(Bytes) /\ stub_out_args \in Seq(Seq(Bytes))
  /\ heap \subseteq 1..Len(Sig)

\* The native function receives, through getAs<T> of each cell, exactly
\* the values the caller passed to asyncRPC: what stream::write puts in the
\* ostringstream, split on ' ', reads back as the same value of the
\* parameter's type.
ArgumentsArrive ==
  phase \in {"client", "call"} /\ calls > 0 =>
    \A i \in 1..Len(Sig) : getAs(Decl(Sig[i]).base, got[i]) = passed[i]

\* When the callback runs, every output parameter holds the value the
\* native function left in it, every other argument variable is
\* untouched, and a non-void call's ReturnValue holds the returned value;
\* no decode on either side ends the process.
OutputsReturned ==
  /\ phase # "terminated"
  /\ phase = "call" /\ calls > 0 =>
       /\ \A i \in 1..Len(Sig) : vars[i] = IF i \in Assignable THEN left[i] ELSE passed[i]
       /\ r_value = IF RType = "void" THEN NoReturn ELSE [valid |-> TRUE, value |-> ret]

\* Every string copy deserialize_in_args heap-allocates is deleted by
\* serialize_out_args in the same dispatch.
NoLeakedCopies == phase # "terminated" => heap = {}

=============================================================================
