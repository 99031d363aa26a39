----------------------------- MODULE RpcSystem -----------------------------
(***************************************************************************)
(* RpcClient and RpcServer (bmRPCClient.h, bmRPCServer.h) with their      *)
(* FunctionsRegistry (bmRPCRegistry.h), Stubs, RpcHandles and Skeletons    *)
(* (bmRPCStub.h), exchanging whole messages.                               *)
(*                                                                         *)
(* A message is [key, id, call]: key is the registry key it names (the    *)
(* signature string "R name args" a Stub or Skeleton is stored under), id *)
(* the 16-bit invocation id, and call the number of the asyncRPC call     *)
(* whose arguments it carries.  The server's function computes its output *)
(* arguments from its inputs, so the response carries the same call.      *)
(* The byte path under a message (Serializer, Streamer) is FIFO and       *)
(* lossless for whole messages: Serializer.tla and Streamer.tla check it. *)
(*                                                                         *)
(* Registry keys are strings: NameKey(f) is the plain name the client's   *)
(* connect() looks up with find(), SigKey(f) the signature it inserts     *)
(* under.  A map entry is a pointer, nullptr (Null, which get() inserts   *)
(* for a missing key) or Absent.  Stubs and Skeletons live at addresses   *)
(* of small pools; a freed address can be handed out again.               *)
(***************************************************************************)
EXTENDS Naturals, Sequences, FiniteSets, SequencesExt

CONSTANTS
  Funcs,               \* remote functions (model values)
  Handles,             \* RpcHandle variables of the client application
  NumStubs,            \* addresses available for Stub nodes
  NumSkels,            \* addresses available for Skeleton nodes
  MaxCalls,            \* asyncRPC calls the application makes in total
  MaxMsg,              \* MAX_CLIENT_MSG_BUFFER_SIZE
  IdMod,               \* 2^16: range of the uint16_t invocation counter
  ShareHandles,        \* may two live handles be connected to one function?
  DisconnectInFlight,  \* may a handle be disconnected with calls pending?
  ServerChurn          \* may the server connect/disconnect while running?

ASSUME /\ NumStubs \in Nat \ {0} /\ NumSkels \in Nat \ {0}
       /\ MaxCalls \in Nat /\ MaxMsg \in Nat /\ IdMod \in Nat \ {0}
       /\ {ShareHandles, DisconnectInFlight, ServerChurn} \subseteq BOOLEAN

Null == 0          \* nullptr
Absent == -1       \* no entry in functions_map / no pointer kept
StubPtrs == 1..NumStubs
SkelPtrs == 1..NumSkels
NameKey(f) == <<f, "name">>
SigKey(f) == <<f, "sig">>
Keys == {NameKey(f) : f \in Funcs} \cup {SigKey(f) : f \in Funcs}
Calls == 1..MaxCalls
Ids == 0..(IdMod - 1)
Msg == [key : Keys, id : Ids, call : Calls]
Pending == [id : Ids, call : Calls]     \* struct invokation_data
Faults == {"none", "null_deref", "use_after_free", "end_deref"}

VARIABLES
  cmap, stubs, handle, hfn,     \* client registry, Stub nodes, handles
  ctxq, crxq, cphase,           \* client tx/rx_msg_buffer, doLoop phase
  smap, skels, sptr,            \* server registry, Skeleton nodes, the
                                \*   pointers connect() returned
  srxq, stxq, sphase,           \* server rx/tx_msg_buffer, doLoop phase
  c2s, s2c,                     \* the two byte streams, as messages
  calls,                        \* asyncRPC calls accepted so far
  result,                       \* result[c]: call whose response refilled
                                \*   c's outputs (0: not yet)
  fault                         \* undefined behaviour reached, if any

clientVars == <<cmap, stubs, handle, hfn, ctxq, crxq, cphase>>
serverVars == <<smap, skels, sptr, srxq, stxq, sphase>>
vars == <<clientVars, serverVars, c2s, s2c, calls, result, fault>>

NoStub == [live |-> FALSE, fn |-> CHOOSE f \in Funcs : TRUE, n_handles |-> 0,
           invokations |-> 0, invokation_id |-> 0, pending |-> <<>>]
NoSkel == [live |-> FALSE, fn |-> CHOOSE f \in Funcs : TRUE, invocation_id |-> 0]

(* The pointer a map entry yields: find() and get() return nullptr for   *)
(* Absent as well as for a stored nullptr.                              *)
Ptr(e) == IF e = Absent THEN Null ELSE e

(* functions_map.erase(name) *)
Erase(map, k) == [map EXCEPT ![k] = Absent]

(* get(name) is functions_map[name]: a missing key is inserted as nullptr. *)
GetInserting(map, k) == IF map[k] = Absent THEN [map EXCEPT ![k] = Null] ELSE map

Running == fault = "none"
FreeStubs == {p \in StubPtrs : ~stubs[p].live}
FreeSkels == {p \in SkelPtrs : ~skels[p].live}

-----------------------------------------------------------------------------
(* Client: RpcClient::connect, disconnect, asyncRPC (bmRPCClient.h) and   *)
(* Stub::marshall, unmarshall_and_dispatch (bmRPCStub.h).                 *)

(* The Stub's id string, "R name args", built in connect() and carried as *)
(* the name of every message marshall() builds.                           *)
MsgKeyPlain(f) == NameKey(f)
MsgKey(f) == SigKey(f)

(* connect(): the new Stub has n_handles = 1 and no invocations.          *)
NewStub(f) ==
  [live |-> TRUE, fn |-> f, n_handles |-> 1, invokations |-> 0,
   invokation_id |-> 0, pending |-> <<>>]

(* rpc->invokations++ on a uint16_t *)
NextInvokationNoWrap(n) == n + 1
NextInvokation(n) == (n + 1) % IdMod

(* tx_msg_full(): size() > MAX_CLIENT_MSG_BUFFER_SIZE *)
TxMsgFull(q) == Len(q) > MaxMsg

(* The application connects handle h to function f.  find() looks up the  *)
(* plain name; on a miss a Stub is built and insert() either returns the  *)
(* pointer already stored under its signature (without touching its       *)
(* n_handles) or stores the new Stub at a free address.                   *)
CConnect(h, f) ==
  /\ Running /\ cphase = "app" /\ handle[h] = Null
  /\ ShareHandles \/ \A g \in Handles : handle[g] # Null => hfn[g] # f
  /\ LET p == Ptr(cmap[NameKey(f)]) IN
     IF p # Null
       THEN /\ stubs' = [stubs EXCEPT ![p].n_handles = @ + 1]
            /\ handle' = [handle EXCEPT ![h] = p]
            /\ UNCHANGED cmap
     ELSE IF cmap[MsgKey(f)] # Absent
       THEN /\ handle' = [handle EXCEPT ![h] = Ptr(cmap[MsgKey(f)])]
            /\ UNCHANGED <<cmap, stubs>>
     ELSE \E q \in FreeStubs :
            /\ stubs' = [stubs EXCEPT ![q] = NewStub(f)]
            /\ cmap' = [cmap EXCEPT ![MsgKey(f)] = q]
            /\ handle' = [handle EXCEPT ![h] = q]
  /\ hfn' = [hfn EXCEPT ![h] = f]
  /\ UNCHANGED <<ctxq, crxq, cphase, serverVars, c2s, s2c, calls, result, fault>>

(* disconnect(): n_handles-- and, at zero, registry.remove(p), which      *)
(* erases the map entry and frees the node with that name.  A handle to   *)
(* a freed Stub writes freed memory.                                      *)
CDisconnect(h) ==
  /\ Running /\ cphase = "app" /\ handle[h] # Null
  /\ LET p == handle[h] IN
     /\ DisconnectInFlight \/ ~stubs[p].live \/ stubs[p].pending = <<>>
     /\ IF ~stubs[p].live
          THEN /\ fault' = "use_after_free"
               /\ UNCHANGED <<cmap, stubs, handle>>
        ELSE /\ IF stubs[p].n_handles - 1 <= 0
                  THEN /\ stubs' = [stubs EXCEPT ![p] = NoStub]
                       /\ cmap' = Erase(cmap, MsgKey(stubs[p].fn))
                  ELSE /\ stubs' = [stubs EXCEPT ![p].n_handles = @ - 1]
                       /\ UNCHANGED cmap
             /\ handle' = [handle EXCEPT ![h] = Null]
             /\ UNCHANGED fault
  /\ UNCHANGED <<hfn, ctxq, crxq, cphase, serverVars, c2s, s2c, calls, result>>

(* asyncRPC(): accepted when the handle is connected and the queue is not *)
(* full; allocates the next id, appends the invokation_data at the end of *)
(* the list and pushes the marshalled request.  A rejected call changes   *)
(* nothing.                                                                *)
CAsyncRPC(h) ==
  /\ Running /\ cphase = "app" /\ calls < MaxCalls
  /\ handle[h] # Null /\ ~TxMsgFull(ctxq)
  /\ LET p == handle[h]
         id == NextInvokation(stubs[p].invokations)
     IN IF ~stubs[p].live
          THEN /\ fault' = "use_after_free"
               /\ UNCHANGED <<stubs, ctxq, calls>>
        ELSE /\ stubs' = [stubs EXCEPT ![p].invokations = id,
                                       ![p].invokation_id = id,
                                       ![p].pending = Append(@, [id |-> id, call |-> calls + 1])]
             /\ ctxq' = Append(ctxq, [key |-> MsgKey(stubs[p].fn), id |-> id, call |-> calls + 1])
             /\ calls' = calls + 1
             /\ UNCHANGED fault
  /\ UNCHANGED <<cmap, handle, hfn, crxq, cphase, serverVars, c2s, s2c, result>>

(* doLoop(), in four phases: the tx loop moves queued requests onto the   *)
(* stream until the queue drains or the 5 ms budget expires, then flush;  *)
(* the rx loop receives until the budget expires; then every received     *)
(* message is dispatched.                                                 *)
CStartLoop ==
  /\ Running /\ cphase = "app" /\ cphase' = "tx"
  /\ UNCHANGED <<cmap, stubs, handle, hfn, ctxq, crxq, serverVars, c2s, s2c, calls, result, fault>>

CSendMsg ==
  /\ Running /\ cphase = "tx" /\ ctxq # <<>>
  /\ c2s' = Append(c2s, Head(ctxq)) /\ ctxq' = Tail(ctxq)
  /\ UNCHANGED <<cmap, stubs, handle, hfn, crxq, cphase, serverVars, s2c, calls, result, fault>>

CTxDone ==
  /\ Running /\ cphase = "tx" /\ cphase' = "rx"
  /\ UNCHANGED <<cmap, stubs, handle, hfn, ctxq, crxq, serverVars, c2s, s2c, calls, result, fault>>

CRecvMsg ==
  /\ Running /\ cphase = "rx" /\ s2c # <<>>
  /\ crxq' = Append(crxq, Head(s2c)) /\ s2c' = Tail(s2c)
  /\ UNCHANGED <<cmap, stubs, handle, hfn, ctxq, cphase, serverVars, c2s, calls, result, fault>>

CRxDone ==
  /\ Running /\ cphase = "rx" /\ cphase' = "dispatch"
  /\ UNCHANGED <<cmap, stubs, handle, hfn, ctxq, crxq, serverVars, c2s, s2c, calls, result, fault>>

(* unmarshall_and_dispatch() sets invokation_id = msg.getId() and scans   *)
(* the invokation list for it.                                            *)
MatchIdStale(s, m) == s.invokation_id
MatchId(s, m) == m.id

(* Dispatch the front of rx_msg_buffer: rpc = registry.get(name), which   *)
(* inserts nullptr for a missing name, then rpc->unmarshall_and_dispatch: *)
(* a null rpc is dereferenced, and a missing id dereferences end().  The  *)
(* matching entry's output addresses are refilled and it is erased.      *)
CDispatch ==
  /\ Running /\ cphase = "dispatch" /\ crxq # <<>>
  /\ LET m == Head(crxq)
         p == Ptr(cmap[m.key])
     IN IF p = Null
          THEN /\ cmap' = GetInserting(cmap, m.key)
               /\ fault' = "null_deref"
               /\ UNCHANGED <<stubs, crxq, result>>
        ELSE LET iid == MatchId(stubs[p], m)
                 i == SelectInSeq(stubs[p].pending, LAMBDA d : d.id = iid)
             IN IF i = 0
                  THEN /\ stubs' = [stubs EXCEPT ![p].invokation_id = iid]
                       /\ fault' = "end_deref"
                       /\ UNCHANGED <<cmap, crxq, result>>
                ELSE /\ stubs' = [stubs EXCEPT ![p].invokation_id = iid,
                                               ![p].pending = RemoveAt(@, i)]
                     /\ result' = [result EXCEPT ![stubs[p].pending[i].call] = m.call]
                     /\ crxq' = Tail(crxq)
                     /\ UNCHANGED <<cmap, fault>>
  /\ UNCHANGED <<handle, hfn, ctxq, cphase, serverVars, c2s, s2c, calls>>

CLoopDone ==
  /\ Running /\ cphase = "dispatch" /\ crxq = <<>> /\ cphase' = "app"
  /\ UNCHANGED <<cmap, stubs, handle, hfn, ctxq, crxq, serverVars, c2s, s2c, calls, result, fault>>

-----------------------------------------------------------------------------
(* Server: RpcServer::connect, disconnect, doLoop (bmRPCServer.h) and     *)
(* Skeleton::unmarshall, marshall (bmRPCStub.h).                          *)

NewSkel(f) == [live |-> TRUE, fn |-> f, invocation_id |-> 0]

(* The Skeleton's id string, "R name args", built in the server's own    *)
(* connect(); requests find it only if it equals the client's MsgKey.    *)
SkelKeyPlain(f) == NameKey(f)
SkelKey(f) == SigKey(f)

(* connect(): registry.insert() returns the pointer stored under the      *)
(* signature, nullptr included, or stores the new Skeleton.               *)
SConnect(f) ==
  /\ Running /\ ServerChurn /\ sphase = "app" /\ sptr[f] = Absent
  /\ IF smap[SkelKey(f)] # Absent
       THEN /\ sptr' = [sptr EXCEPT ![f] = Ptr(smap[SkelKey(f)])]
            /\ UNCHANGED <<smap, skels>>
     ELSE \E q \in FreeSkels :
            /\ skels' = [skels EXCEPT ![q] = NewSkel(f)]
            /\ smap' = [smap EXCEPT ![SkelKey(f)] = q]
            /\ sptr' = [sptr EXCEPT ![f] = q]
  /\ UNCHANGED <<clientVars, srxq, stxq, sphase, c2s, s2c, calls, result, fault>>

(* disconnect(rpc): registry.remove(rpc), a no-op on nullptr. *)
SDisconnect(f) ==
  /\ Running /\ ServerChurn /\ sphase = "app" /\ sptr[f] # Absent
  /\ LET p == sptr[f] IN
     IF p = Null
       THEN UNCHANGED <<smap, skels>>
     ELSE /\ skels' = [skels EXCEPT ![p] = NoSkel]
          /\ smap' = Erase(smap, SkelKey(skels[p].fn))
  /\ sptr' = [sptr EXCEPT ![f] = Absent]
  /\ UNCHANGED <<clientVars, srxq, stxq, sphase, c2s, s2c, calls, result, fault>>

SStartLoop ==
  /\ Running /\ sphase = "app" /\ sphase' = "rx"
  /\ UNCHANGED <<clientVars, smap, skels, sptr, srxq, stxq, c2s, s2c, calls, result, fault>>

SRecvMsg ==
  /\ Running /\ sphase = "rx" /\ c2s # <<>>
  /\ srxq' = Append(srxq, Head(c2s)) /\ c2s' = Tail(c2s)
  /\ UNCHANGED <<clientVars, smap, skels, sptr, stxq, sphase, s2c, calls, result, fault>>

SRxDone ==
  /\ Running /\ sphase = "rx" /\ sphase' = "dispatch"
  /\ UNCHANGED <<clientVars, smap, skels, sptr, srxq, stxq, c2s, s2c, calls, result, fault>>

(* Skeleton::unmarshall sets invocation_id = msg.getId(); marshall()      *)
(* stamps the response with invocation_id.                                *)
ResponseIdStale(k, m) == k.invocation_id
ResponseId(k, m) == m.id

(* Dispatch the front of rx_msg_buffer: rpc = registry.get(name) (which   *)
(* inserts nullptr for a missing name); a null rpc drops the request,     *)
(* otherwise the function runs and the response is queued.                *)
SDispatch ==
  /\ Running /\ sphase = "dispatch" /\ srxq # <<>>
  /\ LET m == Head(srxq)
         p == Ptr(smap[m.key])
     IN /\ smap' = GetInserting(smap, m.key)
        /\ IF p = Null
             THEN UNCHANGED <<skels, stxq>>
           ELSE /\ skels' = [skels EXCEPT ![p].invocation_id = m.id]
                /\ stxq' = Append(stxq, [key |-> m.key, id |-> ResponseId(skels[p], m),
                                         call |-> m.call])
  /\ srxq' = Tail(srxq)
  /\ UNCHANGED <<clientVars, sptr, sphase, c2s, s2c, calls, result, fault>>

SDispatchDone ==
  /\ Running /\ sphase = "dispatch" /\ srxq = <<>> /\ sphase' = "tx"
  /\ UNCHANGED <<clientVars, smap, skels, sptr, srxq, stxq, c2s, s2c, calls, result, fault>>

SSendMsg ==
  /\ Running /\ sphase = "tx" /\ stxq # <<>>
  /\ s2c' = Append(s2c, Head(stxq)) /\ stxq' = Tail(stxq)
  /\ UNCHANGED <<clientVars, smap, skels, sptr, srxq, sphase, c2s, calls, result, fault>>

STxDone ==
  /\ Running /\ sphase = "tx" /\ sphase' = "app"
  /\ UNCHANGED <<clientVars, smap, skels, sptr, srxq, stxq, c2s, s2c, calls, result, fault>>

-----------------------------------------------------------------------------
(* Without churn the server has connected every function before its first *)
(* doLoop(), as the applications in main.cpp and bmRPCTest.cpp do.        *)
SkelOf == CHOOSE g \in [Funcs -> SkelPtrs] :
            \A f1, f2 \in Funcs : g[f1] = g[f2] => f1 = f2

Init ==
  /\ cmap = [k \in Keys |-> Absent]
  /\ stubs = [p \in StubPtrs |-> NoStub]
  /\ handle = [h \in Handles |-> Null]
  /\ hfn = [h \in Handles |-> CHOOSE f \in Funcs : TRUE]
  /\ ctxq = <<>> /\ crxq = <<>> /\ cphase = "app"
  /\ IF ServerChurn
       THEN /\ smap = [k \in Keys |-> Absent]
            /\ skels = [p \in SkelPtrs |-> NoSkel]
            /\ sptr = [f \in Funcs |-> Absent]
     ELSE /\ smap = [k \in Keys |-> IF \E f \in Funcs : k = SkelKey(f)
                                      THEN SkelOf[k[1]] ELSE Absent]
          /\ skels = [p \in SkelPtrs |-> IF \E f \in Funcs : SkelOf[f] = p
                                           THEN NewSkel(CHOOSE f \in Funcs : SkelOf[f] = p)
                                           ELSE NoSkel]
          /\ sptr = SkelOf
  /\ srxq = <<>> /\ stxq = <<>> /\ sphase = "app"
  /\ c2s = <<>> /\ s2c = <<>>
  /\ calls = 0 /\ result = [c \in Calls |-> 0] /\ fault = "none"

ClientLoop == CStartLoop \/ CSendMsg \/ CTxDone \/ CRecvMsg \/ CRxDone
              \/ CDispatch \/ CLoopDone
ServerLoop == SStartLoop \/ SRecvMsg \/ SRxDone \/ SDispatch \/ SDispatchDone
              \/ SSendMsg \/ STxDone

Next ==
  \/ \E h \in Handles, f \in Funcs : CConnect(h, f)
  \/ \E h \in Handles : CDisconnect(h) \/ CAsyncRPC(h)
  \/ \E f \in Funcs : SConnect(f) \/ SDisconnect(f)
  \/ ClientLoop
  \/ ServerLoop

(* Both applications call doLoop() forever and every loop phase ends     *)
(* (WF).  A 5 ms budget is far longer than moving one message, so a loop  *)
(* that keeps finding a message to move does move one (SF on the moves). *)
Fairness ==
  /\ WF_vars(CStartLoop) /\ WF_vars(CTxDone) /\ WF_vars(CRxDone)
  /\ WF_vars(CDispatch) /\ WF_vars(CLoopDone)
  /\ SF_vars(CSendMsg) /\ SF_vars(CRecvMsg)
  /\ WF_vars(SStartLoop) /\ WF_vars(SRxDone) /\ WF_vars(SDispatch)
  /\ WF_vars(SDispatchDone) /\ WF_vars(STxDone)
  /\ SF_vars(SSendMsg) /\ SF_vars(SRecvMsg)

Spec == Init /\ [][Next]_vars /\ Fairness

-----------------------------------------------------------------------------
Entry(P) == P \cup {Null, Absent}
StubRec == [live : BOOLEAN, fn : Funcs, n_handles : -1..Cardinality(Handles),
            invokations : Ids, invokation_id : Ids, pending : Seq(Pending)]

TypeOK ==
  /\ cmap \in [Keys -> Entry(StubPtrs)]
  /\ stubs \in [StubPtrs -> StubRec]
  /\ handle \in [Handles -> StubPtrs \cup {Null}]
  /\ hfn \in [Handles -> Funcs]
  /\ ctxq \in Seq(Msg) /\ crxq \in Seq(Msg) /\ c2s \in Seq(Msg) /\ s2c \in Seq(Msg)
  /\ cphase \in {"app", "tx", "rx", "dispatch"}
  /\ smap \in [Keys -> Entry(SkelPtrs)]
  /\ skels \in [SkelPtrs -> [live : BOOLEAN, fn : Funcs, invocation_id : Ids]]
  /\ sptr \in [Funcs -> Entry(SkelPtrs)]
  /\ srxq \in Seq(Msg) /\ stxq \in Seq(Msg)
  /\ sphase \in {"app", "rx", "dispatch", "tx"}
  /\ calls \in 0..MaxCalls /\ result \in [Calls -> 0..MaxCalls]
  /\ fault \in Faults

(* A response is only ever dispatched to a live Stub that has the call    *)
(* pending: the client never dereferences a null registry entry, a freed  *)
(* Stub or the end of an invokation list (spec: a response for an         *)
(* unregistered name is silently dropped, not a crash).                   *)
NoCrash == fault = "none"

(* The outputs of call c are only ever refilled from the response to c:   *)
(* correlation by id across reconnects and 16-bit wrap-around.            *)
CallbackGetsOwnResult == \A c \in Calls : result[c] \in {0, c}

(* A live Stub's n_handles counts the handles that point at it, so the    *)
(* last disconnect, and only it, frees the Stub.                          *)
RefCountMatchesHandles ==
  \A p \in StubPtrs :
    stubs[p].live => stubs[p].n_handles = Cardinality({h \in Handles : handle[h] = p})

(* RpcServer::connect() returns a usable Skeleton: never nullptr.         *)
ServerConnectRegisters == \A f \in Funcs : sptr[f] # Null

(* Every accepted call eventually has its outputs refilled. *)
EveryCallAnswered == \A c \in Calls : (calls >= c) ~> (result[c] # 0)
=============================================================================
