-------------------------- MODULE MarshallerTypes --------------------------
(***************************************************************************)
(* The type catalogue of bmRPC (bmRPC.h, bmRPCAnyArg.h, bmRPCMarshaller.h) *)
(* as the Marshaller uses it: the width of each scalar type, the in and    *)
(* out ids ParamType<T> assigns every parameter type, the return ids, and  *)
(* the traits serialize_impl reads off a declared type.  A parameter type  *)
(* is named by a string: "long&" is long&, "conststring&" is               *)
(* const std::string&, "blob*" is a pointer to the blob vector.            *)
(* These tables depend on no constant, so every instance of Marshaller     *)
(* shares them.                                                            *)
(***************************************************************************)
EXTENDS Naturals, Sequences, TLC

\* sizeof of the scalar types, LP64 (P64 true), and of SIZE_T = uint16_t
SizeOf ==
     ("bool" :> 1) @@ ("char" :> 1) @@ ("uchar" :> 1) @@ ("short" :> 2)
  @@ ("ushort" :> 2) @@ ("int" :> 4) @@ ("uint" :> 4) @@ ("long" :> 8)
  @@ ("ulong" :> 8) @@ ("float" :> 4) @@ ("longlong" :> 8)
  @@ ("ulonglong" :> 8) @@ ("double" :> 8) @@ ("SIZE_T" :> 2)

\* ParamType<T>::in_id and ::out_id of every supported parameter type
PT(in, out) == [in |-> in, out |-> out]
ParamType ==
     ("bool" :> PT("BOOL", "WRONG")) @@ ("char" :> PT("CHAR", "WRONG"))
  @@ ("uchar" :> PT("UCHAR", "WRONG")) @@ ("short" :> PT("SHORT", "WRONG"))
  @@ ("ushort" :> PT("USHORT", "WRONG")) @@ ("int" :> PT("INT", "WRONG"))
  @@ ("int&" :> PT("INT_REF", "INT_REF")) @@ ("uint" :> PT("UINT", "WRONG"))
  @@ ("long" :> PT("LONG", "WRONG")) @@ ("long&" :> PT("LONG_REF", "LONG_REF"))
  @@ ("ulong" :> PT("ULONG", "WRONG")) @@ ("float" :> PT("FLOAT", "WRONG"))
  @@ ("float&" :> PT("FLOAT_REF", "FLOAT_REF"))
  @@ ("longlong" :> PT("LONGLONG", "WRONG"))
  @@ ("longlong&" :> PT("LONGLONG_REF", "LONGLONG_REF"))
  @@ ("ulonglong" :> PT("ULONGLONG", "WRONG"))
  @@ ("double" :> PT("DOUBLE", "WRONG"))
  @@ ("double&" :> PT("DOUBLE_REF", "DOUBLE_REF"))
  @@ ("string&" :> PT("STRING_REF", "STRING_REF"))
  @@ ("conststring&" :> PT("CONST_STRING_REF", "WRONG"))
  @@ ("string*" :> PT("STRING_REF", "STRING_REF"))
  @@ ("conststring*" :> PT("CONST_STRING_REF", "WRONG"))
  @@ ("blob&" :> PT("BLOB_REF", "BLOB_REF"))
  @@ ("constblob&" :> PT("CONST_BLOB_REF", "WRONG"))
  @@ ("blob*" :> PT("BLOB_REF", "BLOB_REF"))
  @@ ("constblob*" :> PT("CONST_BLOB_REF", "WRONG"))

\* ParamType<R>::r_id of the supported return types
RId == ("int" :> "INT") @@ ("long" :> "LONG") @@ ("float" :> "FLOAT")
    @@ ("longlong" :> "LONGLONG") @@ ("double" :> "DOUBLE") @@ ("void" :> "VOID")

\* The declared type as serialize_impl's traits see it: the base type
\* (remove_all), is_reference, is_pointer, and is_const of the referenced
\* type (references) or of the pointer itself (pointers).
RefBase ==
     ("int&" :> "int") @@ ("long&" :> "long") @@ ("float&" :> "float")
  @@ ("longlong&" :> "longlong") @@ ("double&" :> "double")
  @@ ("string&" :> "string") @@ ("conststring&" :> "string")
  @@ ("blob&" :> "blob") @@ ("constblob&" :> "blob")
PtrBase ==
     ("string*" :> "string") @@ ("conststring*" :> "string")
  @@ ("blob*" :> "blob") @@ ("constblob*" :> "blob")
Decl(t) ==
  [base |-> IF t \in DOMAIN RefBase THEN RefBase[t]
            ELSE IF t \in DOMAIN PtrBase THEN PtrBase[t] ELSE t,
   ref  |-> t \in DOMAIN RefBase,
   ptr  |-> t \in DOMAIN PtrBase,
   cst  |-> t \in {"conststring&", "constblob&"}]

IsBytes(t) == Decl(t).base \in {"string", "blob"}

\* codify_in_args / codify_out_args of a signature: the ids, WRONG ones
\* filtered out
codify_in_args(s) == SelectSeq([i \in 1..Len(s) |-> ParamType[s[i]].in], LAMBDA id : id # "WRONG")
codify_out_args(s) == SelectSeq([i \in 1..Len(s) |-> ParamType[s[i]].out], LAMBDA id : id # "WRONG")

=============================================================================
