---------------------------- MODULE MCRpcSystem ----------------------------
(* Two functions, two handles, three calls: enough for two calls in      *)
(* flight on one Stub, a call on each of two Stubs, a reconnect, and,    *)
(* with IdMod = 2, a wrap of the invocation counter while a call with    *)
(* the same id is pending.  MaxMsg = 1 makes the queue fill.             *)
EXTENDS RpcSystem

CONSTANTS f1, f2, h1, h2

MC_Funcs == {f1, f2}
MC_Handles == {h1, h2}
=============================================================================
