# TLA+ models of bmRPC

bmRPC (`src/src/`) is a header-only C++ RPC library for small devices.
A client calls a remote function asynchronously through a handle, and a server runs the bound native function and sends the result back.
Everything is single-threaded and poll-driven: each side calls `doLoop()` repeatedly, and each loop phase has a 5 ms budget.

This directory holds TLA+ models of the library's stateful parts.
It also holds the TLC configurations that check them, and `PROJECT.json`, which records:

- the components;
- the runs;
- the mutants;
- the map from every definition to the source lines it translates;
- the findings;
- the hazards.

## The system

The layers, from the wire up:

| Part | Source | State | Operations |
|---|---|---|---|
| Comm / SharedBuffer | `bmRPCDataLink.h` | two byte queues of 256 bytes (`in_queue`, `out_queue`), open flags | `open`, `write` (accepts `min(len, free)`), `read` (returns `min(len, held)`) |
| Streamer | `bmRPCStreamer.h` | tx and rx rings of `STREAMER_BUFFER_SIZE` (a power of two), cursors `in`/`out`, `full` flags | `write` (copy into ring, then `flush`), `flush` (chunks of `get_packet_size()` bytes, split at the ring's end), `read`, `try_read`, `consume_read`, `rx_size`, `com_read` (fill rx ring from the Comm, in two segments) |
| Message | `bmRPCMessage.h` | id (uint16), name (signature string), value (bytes) | `resetValue`, `writeValue`, setters |
| Serializer / Deserializer | `bmRPCSerializer.h` | phase (IDLE, ID, NAME, SIZE, ARGS_VALUE, END; the text build has no SIZE and ends every field with a 0), field cursor `m_i`/`m_len`, partial `m_s`/`m_v` | `init`, `send()` / `receive()`, one call at a time, resuming after short writes/reads |
| FunctionsRegistry | `bmRPCRegistry.h` | `functions_map` (string → pointer), `functions_list` (stable storage) | `insert` (dedupe by name), `remove`, `find`, `get` (= `operator[]`, inserts nullptr) |
| Stub / Skeleton / RpcHandle | `bmRPCStub.h` | Stub: `n_handles`, `invokations`, `invokation_id`, `invokation_list`. Skeleton: `invocation_id`, bound function | `marshall`, `unmarshall_and_dispatch`, `unmarshall`, `dispatch` |
| RpcClient | `bmRPCClient.h` | registry of Stubs, `tx_msg_buffer`, `rx_msg_buffer` | `connect`, `disconnect`, `asyncRPC`, `doLoop` (send until empty or timeout, flush, receive until timeout, dispatch all) |
| RpcServer | `bmRPCServer.h` | registry of Skeletons, message queues | `connect`, `disconnect`, `doLoop` (receive until timeout, dispatch all, send until empty or timeout, flush) |
| Marshaller / AnyArg | `bmRPCMarshaller.h`, `bmRPCAnyArg.h` | none (pure encoding) | argument and return encoding |

How the parts interact:

- A call goes through `asyncRPC` → `Stub::marshall` → `tx_msg_buffer` → Serializer → Streamer → Comm.
- On the server, the message goes through Comm → Streamer → Deserializer → `rx_msg_buffer`.
- The server then calls `registry.get(name)`, dispatches, and sends the response back the same way.
- Finally, the client's `registry.get(name)` → `unmarshall_and_dispatch` finds the pending invocation by id, refills its output addresses, and runs its callback.

## Modules

### `Streamer.tla` and `DataLink.tla` — one transport direction (`MCStreamer.tla`)

`Streamer.tla` models the sending Streamer's transmit ring, the transport queue, and the receiving Streamer's rx ring, with bytes numbered `1, 2, ...` in the order `write()` accepted them.

State:

- `tx_buffer`, `tx_in`, `tx_out`, `tx_full`: the tx ring fields.
- `is_open`: the open flag of the sending Com.
- `in_queue`: the SharedBuffer queue this direction uses.
- `rx_*`: the receiver's ring.
- `sent` and `got`: history variables.

Actions:

- `Open` is `open_impl`.
- `Write(size)` is `write()`, including the trailing `flush()`.
- `Flush` is a lone `flush()`, as `doLoop` calls it.
- `RxSize` is `rx_size()`.
- `Read(size)` is `read()`.
- `PeekConsume(k)` is the Deserializer's `rx_size` / `try_read` / `consume_read` sequence. Each of these calls first pulls from the transport.

`flush()`'s do/while loop is the recursive, set-valued `FlushLoop`: one Comm write may accept any count the transport allows.
The Comm's `write_impl` and `read_impl` are the operator parameters `ComWrite(len, q)` and `ComRead(len, q)`: the count one call returns on the queue `q`.
`DataLink.tla` gives the four SharedBuffer calls as such operators:

- `cln_write` and `srv_write` return 0 for `len = 0`, else `min(len, capacity)`;
- `srv_read` and `cln_read` return 0 on an empty queue or for `len = 0`, else `min(len, held)`.

`in_lock` and `out_lock` are set and cleared inside one call. The program is single-threaded, so no call sees them set, and the model leaves them out.

`MCStreamer.tla` instantiates `Streamer` twice over the same variables (the build-choice idiom of `MCMarshaller`), and a variable `dir`, fixed in `Init`, picks the direction of a behaviour:

- `Req` (requests) has `ComWrite <- cln_write` (ClientCom) and `ComRead <- srv_read` (ServerCom), over `in_queue`;
- `Rsp` (responses) has `ComWrite <- srv_write` (ServerCom) and `ComRead <- cln_read` (ClientCom), over `out_queue`.

The two directions touch disjoint fields of the SharedBuffer and of the two Streamers. A product of both directions in one state would check nothing more, at the square of the states.

`Link` picks the kind of transport:

- `Link = "SharedBuffer"` is the loop-back transport: a write accepts exactly `ComWrite`.
- `Link = "ShortWrites"` is any Comm allowed to accept fewer bytes, up to `ComWrite`. The spec's Comm contract allows this.

### `Serializer.tla` — binary framing

This module models the binary `Serializer::init/send` and `Deserializer::init/receive` over a pipe of `Cap` bytes. The pipe stands for the two Streamers.

- `SendStep` is one iteration of `doLoop`'s transmit loop: `init` if a new message is due, then one `send()`.
- `RecvStep` is one iteration of the receive loop. The recursive `Parse` operator is the `while (ix < m_len)` switch over the bytes `try_read` returned.
- `Transfer` moves any number of bytes, in order.

Ids and sizes are encoded little-endian with their C++ widths: `uint16_t` is 2 bytes and `size_t` is 8. They are decoded with saturation at 2^20, so a corrupted size stays finite.

### `TextSerializer.tla` — text framing

This module models the text build (`BINARY_BASED_PROTOCOL` false): `Serializer<std::string>` and `Deserializer<std::string>`, with the text `Message<std::string>`.
The wire format is `[id text, 0][name, 0][value, 0]`.

- `SendStep` is `init` and `send()`. `Field(phase, m)` is the `c_str()` of the field with its 0. The id is `to_string` of the sender's `uint16_t` (`Message::setId(uint16_t&)`).
- `RecvStep` is `init` and `receive()`. `Parse` is its `while (ix < m_len)` loop:
  - each phase scans for a 0, and a field without one accumulates in `m_s`;
  - the ID phase consumes `m_len` bytes, and the others consume `m_len - ix`;
  - ARGS_VALUE stops the loop, leaving later bytes in the ring.
- A completed message's id is read back as the Skeleton reads it: `from_chars(text, invocation_id)` (`Message::getId(uint16_t&)`). It keeps the old value on a parse error or overflow.

### `MCSerializer.tla` — both framings in one run

`BINARY_BASED_PROTOCOL` picks one of the two framings at build time.
`MCSerializer` instantiates `Serializer` (as `Bin`) and `TextSerializer` (as `Txt`) over one set of variables, and `Init` picks the format, which then never changes.
A step of one build leaves the other build's own variables (`m_id`, `m_size`, `m_v`, `rx_size`, or `invocation_id`) unchanged.
`TypeOK` and `RoundTrip` are those of the chosen build.

### `Marshaller.tla`, `TextMarshaller.tla` and `MarshallerTypes.tla` — the argument codecs (`MCMarshaller.tla`)

`MarshallerTypes` is the type catalogue: `SizeOf` (LP64), `ParamType` (the in/out ids of the 26 parameter types), `RId`, and `Decl`, the traits `serialize_impl` reads off a declared type.
`Marshaller` models the calls of one remote function `F`:

- `AsyncRPC(a)` is `serialize_args` into `Stub::in_args`, plus the output addresses `serialize_impl` records.
- `SkeletonCall(nv, rv)` is the Skeleton's `func`, in order:
  - `deserialize_in_args`;
  - the native function, which may assign any value `nv` through its output parameters and return `rv`;
  - `serialize_r` and `serialize_out_args`, which also delete the heap copies of strings and blobs.
- `StubDispatch` is `unmarshall_and_dispatch`: `unmarshall_out_args`, `deserialize_r`, then `deserialize_out_args` into the recorded addresses.

Data representation:

- A scalar is its bit pattern, laid out in the writer's host order by `Mem`.
- `byteswap` reverses the bytes. Writes swap when `to_swap`; reads swap back only under `LOOP_BACK_TEST`, as `stream::read` does.
- Strings and blobs are byte sequences behind a 2-byte `SIZE_T` length.

`MCMarshaller` instantiates `Marshaller` twice over one set of variables, once per build:

- `loopback`: one little-endian host, `to_swap` and `LOOP_BACK_TEST` set, an `int` function.
- `split`: a little-endian client and a big-endian server, a `void` procedure.


`TextMarshaller.tla` is the text build (`BINARY_BASED_PROTOCOL` false) of the same three steps, over the same variables:

- `write(t, v)` is `stream::write(std::ostringstream&, T)`: a blank, then the value as `operator<<` prints it.
  - Integers and bools are printed in decimal, so a bool is `0` or `1`.
  - A char is printed raw, and a string is printed as its bytes.
  - A float or double keeps 6 significant digits (`Gfmt`).
- `AsyncRPC` stores `ltrim` of the written text.
- `SkeletonCall` first runs `split` (the `Stub::unmarshall` of the Skeleton), then the text `deserialize_in_args`:
  - `read` of a token is `from_chars` for integers, `stof`/`stod` for floats, and the first byte for `BOOL`/`CHAR`/`UCHAR`;
  - a string is copied to the heap;
  - the response is `ltrim` of `serialize_r` and `serialize_out_args`.
- `StubDispatch` splits the response. For a non-void `F`, the first token is the return value.
- Undefined and failing reads:
  - A `from_chars` that fails leaves its uninitialised local as it is. Reading `data[i]` past the end of the token vector is also undefined. Both give `Indeterminate`, a value no caller passes.
  - A `stof` that throws ends the process, `phase = "terminated"`.
- `ArgumentsArrive` compares what the native function gets through `getAs<T>`. A bool is true if its byte is non-zero.

`MCMarshaller` instantiates `TextMarshaller` as `Text`, with a function of the text build: `bool, int&, const std::string&, float, std::string*, unsigned char`, returning `double`.
`Init` chooses one of the three builds from `Builds`, so one run covers all three.

### `RpcSystem.tla` — client, server, registries, stubs (`MCRpcSystem.tla`)

This module models RpcClient and RpcServer exchanging whole messages `[key, id, call]`:

- `key` is the registry key (signature) the message names.
- `id` is the 16-bit invocation id, modulo `IdMod`.
- `call` is the number of the `asyncRPC` call whose arguments the message carries. The server's result is identified with its call.

The byte path under a message is abstracted to FIFO sequences `c2s` and `s2c`. `Serializer.tla` and `Streamer.tla` check that this path is lossless and ordered.

Registries:

- `cmap` and `smap` map every key to a pointer, `Null` (a stored nullptr) or `Absent`.
- Stubs and Skeletons live at addresses from small pools, so a freed address can be reused.
- `NameKey(f)` is the plain name that client `connect()` passes to `find()`. `MsgKey(f)` and `SkelKey(f)` are the signature strings the client and server build independently.

Each side's `doLoop` is a phase variable:

- Client phases: `app`, `tx`, `rx`, `dispatch`.
- Server phases: `app`, `rx`, `dispatch`, `tx`.
- A budget expiring is a phase exit that may happen at any iteration: `CTxDone`, `CRxDone`, `SRxDone`, `STxDone`.
- Application calls happen only in the `app` phase, between loops.
- Client and server interleave freely. This is the distributed deployment; the single-threaded loop-back demo is one of its schedules.

`fault` records undefined behaviour the code reaches:

- `null_deref`: dereferencing nullptr from `get()`.
- `use_after_free`: a handle to a freed Stub.
- `end_deref`: `unmarshall_and_dispatch` with no matching pending id.

After a fault the client does nothing more.

Three constants choose how the applications behave, because the library leaves these choices to them:

- `ShareHandles`: two live handles may be connected to one function.
- `DisconnectInFlight`: a handle may be disconnected with calls pending.
- `ServerChurn`: the server connects and disconnects functions while running. Without churn, the server has connected everything before the loops start, as `main.cpp` does.

## Runs

| Run | Config | Expect | What it shows |
|---|---|---|---|
| streamer_sharedbuffer | `MCStreamer.cfg` | pass | Over SharedBuffer, in the request direction (`cln_write` / `srv_read`) and in the response direction (`srv_write` / `cln_read`), the Streamers deliver every byte once, in order (`StreamIntegrity`), and eventually (`Delivered`). Both rings wrap and the queue fills. 862 states. |
| streamer_short_writes | `MCStreamerShort.cfg` | violation | With a Comm that accepts part of a write, `flush()` sends bytes from index 0 before the tail, and later sends them again (`bmRPCStreamer.h:96`). |
| serializer_roundtrip | `MCSerializer.cfg` | pass | In both framings, every message received equals the one sent (`RoundTrip`), and all arrive (`AllDelivered`), for every split of the bytes. In the text build the id survives `to_string` / `from_chars`, and a field split over several `receive()` calls accumulates in `m_s`. 36,488 states. |
| text_serializer_nul_payload | `MCSerializerNul.cfg` | violation | A payload with a 0 byte inside (a `char` argument of value 0) ends at that byte. The rest is parsed as the next message (`bmRPCSerializer.h:358`). |
| marshaller_builds | `MCMarshaller.cfg` | pass | In the three builds (binary loop-back, binary across byte orders, text), over two calls: every argument reaches the native function (`ArgumentsArrive`); every output parameter and the return value come back, with the other variables untouched (`OutputsReturned`); and every string/blob copy is freed (`NoLeakedCopies`). 11,971 states. |
| text_marshaller_bool_false | `MCMarshallerTextBool.cfg` | violation | In the text build, a `bool` passed as false is written `0`. The Skeleton reads it through the `char` case as the byte `'0'` (48), and `getAs<bool>` gives true (`bmRPCMarshaller.h:59`). |
| rpc_disciplined | `MCRpcSystem.cfg` | pass | No UB (`NoCrash`). A call's outputs are refilled only from its own response (`CallbackGetsOwnResult`), including across an id wrap (`IdMod = 2`, 3 calls). Every call is answered (`EveryCallAnswered`). With one handle per function the handle count holds by construction, so it is checked only where handles are shared (`rpc_shared_handles`). 99,840 states. |
| rpc_server_churn | `MCRpcChurn.cfg` | pass | A server that connects and disconnects only loses requests. The client never crashes or mismatches a response. About 1.2 M states. |
| rpc_shared_handles | `MCRpcShared.cfg` | violation | A second `connect` of the same function shares the Stub with `n_handles` still 1 (`bmRPCClient.h:51`). |
| rpc_disconnect_in_flight | `MCRpcDisconnect.cfg` | violation | A response that arrives after `disconnect` is dispatched through nullptr (`bmRPCClient.h:171`). |
| rpc_reconnect_stale_response | `MCRpcReconnect.cfg` | violation | After disconnect and reconnect the counter restarts, so the old response refills the new call (`bmRPCStub.h:121`). |
| rpc_server_late_connect | `MCRpcLateServer.cfg` | violation | A request that arrives before the server's `connect` makes `get()` store nullptr, and `connect` then returns nullptr (`bmRPCRegistry.h:70`). |

Deadlock checking:

- The RPC violation configs set `CHECK_DEADLOCK FALSE`. A crashed client does stop, so a halted state is a real end state there.
- `MCMarshaller.cfg` and `MCMarshallerTextBool.cfg` also set it, because the program makes `NumCalls` calls and then stops.
- The text violation run checks deadlock: `RecvStep` can always run.

Every property of a passing run has a mutant in `PROJECT.json`: a one-definition change, as a plausible bug in the translated code, that TLC catches.
Examples:

- the cursor wrap in `inc` dropped;
- `srv_write` not clamping to the free capacity (`srv_writeNoCap`), caught only in the response direction;
- `cln_read` returning nothing when asked for more than is held (`cln_readAllOrNothing`), which strands response bytes;
- `resetValue` missing;
- `m_s` not cleared after a text field (`ParseNoClear`);
- `count > m_len` instead of `>=` in `send()` (`SentStrict`, which stalls the text sender);
- reads that always byte-swap (`read_scalarAlwaysSwap`);
- `serialize_out_args` not deleting const copies (`deletedNoConst`, in both codecs);
- `split` keeping each blank at the end of its token (`splitWithBlank`);
- the text `unmarshall_out_args` not skipping the return token (`unmarshall_out_argsNoSkip`);
- the Skeleton not copying the request id (`ResponseIdStale`);
- the Stub matching on its own last id (`MatchIdStale`);
- the server building a different signature string (`SkelKeyPlain`).

## Bounds

Streamer:

- N = 4 and PacketSize = 3, so a chunk can cross the ring's end with 2 bytes on one side.
- LinkCap = 3, so the queue fills and `cln_write` / `srv_write` accept part of a chunk.
- Writes and reads are 1..3 bytes, and there are 10 bytes in total, enough to wrap both rings twice.

Serializers:

- Cap = 4 is smaller than a frame, so every field is split.
  - Binary frame: 2 + name + 1 + 8 + payload bytes.
  - Text frame: the id 258 needs 4 bytes, "258" and its 0, which already fill the ring.
- There are two messages, so the second reuses the static `rx_msg`.
- Payloads are empty or 2 bytes. The text payload " 5" is the text marshaller's form of one argument.
- The text NUL run uses the payload `" \0"`, one `char` argument of value 0.

Marshaller:

- Two signatures of five parameters, which between them cover:
  - scalars by value of 1, 2 and 8 bytes;
  - `long&` and `int&`;
  - a const string reference, a string pointer, a blob pointer and a const blob reference;
  - an `int` return and a `void` return.
- Scalar values 1 and 258. 258 = 0x0102, so a byte-order error changes it.
- Strings `<<>>` and `<<7, 9>>`.
- The text build's function has six parameters: a bool, `int&`, a const string reference, a float, a string pointer and an unsigned char. It returns double.
  - Its values are 1 and 258, and its strings are `<<>>` and `"ab"`.
  - An empty string in the middle makes two blanks in a row, so `split` yields an empty token.
  - The bool-false run uses the values 0 and 1.
  - The values stay below 10^6, where `Gfmt` is exact. Strings hold no blank, and the first parameter is not a string. Hazards in `PROJECT.json` record what TLC reports when these inputs are added.
- Two calls, so state left by the first call (the reused `in_args` / `out_args` members) is visible in the second.

RpcSystem:

- Two functions, two handles and two Stub addresses.
- Three calls, so two can be in flight on one Stub while a third wraps the id with `IdMod = 2`.
- `MaxMsg = 1`, so the queue-full path is taken.

## Fairness

`main.cpp` calls both `doLoop()`s for 50 ms (`main.cpp:109-111`) and `test()` for a budget sized to the test groups (`bmRPCTest.cpp:1178-1206`); both budgets are long next to the handful of messages the models send. The liveness properties are about a program that keeps looping until its calls are done, which those budgets are meant to allow; a budget too short for the traffic would end the program with calls unanswered, and the models do not represent that end. Every loop phase ends.
Within that, there is weak fairness on starting a loop, on its exits, and on dispatching.

A budget can end a transfer loop before it moves anything. But 5 ms is far longer than moving one message, so a loop that finds a message to move infinitely often does move one. This gives strong fairness on `CSendMsg`, `CRecvMsg`, `SSendMsg` and `SRecvMsg`.

Application actions (`connect`, `disconnect`, `asyncRPC`) have no fairness.
In the Streamer and both Serializer models, flushing, transferring and reading are weakly fair for the same reason.
`MCStreamer` assumes only `WF(Next)`: writes are bounded and every other step moves bytes forward, so no behaviour can take steps forever without delivering.
`MCSerializer` assumes only `WF(Next)`. That is weaker than the per-step fairness of the two modules, because a state in which `Next` stays enabled keeps one of `SendStep`, `Transfer` or `RecvStep` enabled. So `AllDelivered` checked under it also holds under the per-step fairness.
The budgets have one more caveat. `TimeOut_t` is `TimeOut<TimeOutChrono>`, the empty CRTP base class. `doLoop` declares `TimeOut_t` objects, and `preset` / `start` / `expired` cast `this` to `TimeOutChrono*` and write two words past the object (`bmRPCTimeout.h:33-43`, `:72`). This is undefined behaviour, and `bmRPCTest.cpp:1170` warns of it. The fairness above assumes a build in which those words land on unused stack, so the budget measures time. The hazard is listed in `PROJECT.json`; no model state can stand for a write outside every object.

The Marshaller model has no fairness. Its properties are invariants.

## Not modelled

- **Float and double values as IEEE numbers.** `TextMarshaller` treats them as naturals below 2^24. `Gfmt` rounds to 6 significant digits as the stream does, but it writes the rounded digits instead of the `e+06` form. The value that comes back is the same.
- **Utilities other than `ltrim` and `split`.** `rtrim`, `splitST`, `splitSV` and `adjust_power_2` are not called by the library.
- **`const std::string*` and `const blob*` parameters.** `serialize_impl` pushes them into a `std::vector<void*>`, which does not compile, so no program can declare them.
- **Strings of 2^16 bytes or more.** `write_bytes` models the `SIZE_T` truncation, but such strings are out of reach of the bounds. This is a hazard with no run.
- **The queue bound.** `tx_msg_full()` uses `>`, so the queue holds `MAX + 1` messages. `RpcSystem` models this as written (`TxMsgFull`), and `rpc_disciplined` reaches it, but no run states the bound as a property.
- **Timeout.** Time becomes nondeterministic loop exits.
- **EmptyCom.** It is the placeholder of builds without `LOOP_BACK_TEST`: `is_open()` is false and `write` / `read` return 0, so nothing is ever sent over it.
- **`Comm::close()`.** No program calls it.
- **`srv_can_read` / `cln_can_read`.** They are unused, and always true (`std::array::empty()` of a 256-element array).
- **Host widths.** `MarshallerTypes` has one `sizeof` table (LP64) for both ends. A 32-bit client and a 64-bit server would disagree on the width of a `long`, against the spec's fixed-width scalars; this is a hazard without a run.
- **The function-static `tx_msg` / `rx_msg` of `doLoop`.** They would be shared by two live clients of the same type. `bmRPCTest.cpp` creates a second client after `main`'s, but only after the first stops, and calls `initLoop()` first.

## Plan

Next steps, in order:

1. A composed client-server model in which `RpcSystem`'s message streams are the Serializers over the Streamer, for one short program. This makes the message-level abstraction a checked refinement.
2. The text codec with a blank in a string and an empty first string, as violation runs, if the run budget allows.
3. Larger instances: three Stub addresses, and `IdMod = 3` with four calls.
