---------------------------- MODULE MCMarshaller ----------------------------
(* Model-checking instance of Marshaller for the two builds bmRPC.h       *)
(* supports, over one set of variables: the build is chosen in the        *)
(* initial state and never changes.                                        *)
(*   "loopback": client and server in one process on a little-endian      *)
(*     host, to_swap set and LOOP_BACK_TEST defined (bmRPC.h as shipped); *)
(*   "split": a little-endian client and a big-endian server (SRV_NATIVE  *)
(*     # CLN_NATIVE), built without LOOP_BACK_TEST;                        *)
(*   "text": BINARY_BASED_PROTOCOL false, the text codec of               *)
(*     TextMarshaller.                                                     *)
EXTENDS Naturals, MarshallerTypes

CONSTANTS
  Builds,       \* the builds checked
  Vals, Strs, NumCalls,
  TextVals      \* the numbers the text build's caller passes

VARIABLES
  build, phase, calls, vars, passed, addresses, stub_in_args, skel_out_args,
  stub_r_arg, stub_out_args, got, left, ret, r_value, heap

\* A function with a scalar by value, a long by reference, a const string,
\* a blob by pointer and a char, returning int.
MC_Sig == <<"ushort", "long&", "conststring&", "blob*", "char">>
\* 1 fits every width; 258 = 0x0102 shows a wrong byte order.
MC_Vals == {1, 258}
MC_Strs == {<<>>, <<7, 9>>}
\* A procedure (void) with the other reference kinds, a by-value double and
\* a short.
MC_SigVoid == <<"int&", "string*", "constblob&", "double", "short">>

\* A function of the text build: a bool, an int by reference, a const
\* string, a float, a string by pointer and an unsigned char, returning
\* double.  The strings hold no blank (see README).
MC_SigText == <<"bool", "int&", "conststring&", "float", "string*", "uchar">>
\* The text build's caller passes true (1) and 258; bool false is 0.
MC_TextVals == {1, 258}
MC_TextValsFalse == {0, 1}
MC_TextStrs == {<<>>, <<97, 98>>}

Loop == INSTANCE Marshaller WITH Sig <- MC_Sig, RType <- "int",
          ClientBig <- FALSE, ServerBig <- FALSE, ToSwap <- TRUE, LOOP_BACK_TEST <- TRUE
Split == INSTANCE Marshaller WITH Sig <- MC_SigVoid, RType <- "void",
          ClientBig <- FALSE, ServerBig <- TRUE, ToSwap <- TRUE, LOOP_BACK_TEST <- FALSE

Text == INSTANCE TextMarshaller WITH Sig <- MC_SigText, RType <- "double",
          Vals <- TextVals, Strs <- MC_TextStrs

mcVars == <<build, phase, calls, vars, passed, addresses, stub_in_args, skel_out_args,
            stub_r_arg, stub_out_args, got, left, ret, r_value, heap>>

Init ==
  /\ build \in Builds
  /\ \/ build = "loopback" /\ Loop!Init
     \/ build = "split" /\ Split!Init
     \/ build = "text" /\ Text!Init

Next ==
  /\ \/ build = "loopback" /\ Loop!Next
     \/ build = "split" /\ Split!Next
     \/ build = "text" /\ Text!Next
  /\ UNCHANGED build

Spec == Init /\ [][Next]_mcVars

\* The properties of Marshaller, for the build of the behaviour.
TypeOK ==
  CASE build = "loopback" -> Loop!TypeOK
    [] build = "split" -> Split!TypeOK
    [] build = "text" -> Text!TypeOK

\* The native function receives exactly what the caller passed to asyncRPC.
ArgumentsArrive ==
  CASE build = "loopback" -> Loop!ArgumentsArrive
    [] build = "split" -> Split!ArgumentsArrive
    [] build = "text" -> Text!ArgumentsArrive

\* The callback sees every output parameter refilled with what the native
\* function left in it, the other variables untouched, and the return value.
OutputsReturned ==
  CASE build = "loopback" -> Loop!OutputsReturned
    [] build = "split" -> Split!OutputsReturned
    [] build = "text" -> Text!OutputsReturned

\* Every string and blob copy deserialize_in_args makes is deleted.
NoLeakedCopies ==
  CASE build = "loopback" -> Loop!NoLeakedCopies
    [] build = "split" -> Split!NoLeakedCopies
    [] build = "text" -> Text!NoLeakedCopies
=============================================================================
