# Formal model of micro_tcp

TLA+ specifications of the asynchronous TLS client/server library in
`src/include/micro_tcp`. TLC model-checks them, and TLAPS proves some of
their properties.

## The system

| part | source | state | operations |
|------|--------|-------|------------|
| session engine | `session.cpp/.hpp` | SSL stream over a TCP socket; the strand; read and write `message` buffers | `do_secure_handshake`, `do_read_header`, `do_read_content`, `do_write_header`, `do_write_content`, `stop`, `do_shutdown_secure_stream`, `do_close_socket`, and each one's completion handler |
| server session | `server_session.cpp/.hpp` | request handler | the `on_X` hooks: handshake → read header → read content → (echo) write header → write content → read header …; after the secure shutdown a null_buffers write whose handler closes the socket |
| client session | `client_session.cpp/.hpp` | response handler | `send` (write header → write content → read header → read content, then idle); after the secure shutdown it closes at once; the timer code is dead (its calls are commented out) |
| client | `client.cpp/.hpp` | `active_session_`, resolver, socket | `connect` (async resolve, then connect, then a new session replaces `active_session_`), `disconnect`, `send`, `send_file`, `is_connected` |
| server | `server.cpp/.hpp` | acceptor, socket | `start_listening`, `do_accept` (a loop: each accepted socket becomes a started server_session), `stop` (closes the acceptor only) |
| message | `message.cpp/.hpp` | header (18-byte magic plus a 10-digit decimal length) and content buffers | the `prepare_*` functions, `get_header_buffer_content_length`, `clear` |
| io_manager | `io_manager.cpp/.hpp` | io_service, work guard, worker threads | `start` (N threads run the io_service), `stop` |
| handlers | `request_handler.hpp`, `response_handler.hpp` | none | echo the request; print (or save) the response |
| console program | `src/main.cpp` | one io_manager, server and client | read the configuration, start the workers, run the console commands, and on `quit` disconnect, stop the server and stop the io_manager |
| files, TLS data | `files.hpp`, `secure_data.hpp` | none | file I/O; certificate file names |

How the parts interact. The io_manager's worker threads run every
completion handler. A session's handlers are wrapped in its strand, so they
never run concurrently. With more than one worker thread, though, the order
in which completions reach the strand is not fixed. Each handler holds a
`shared_ptr` to its session, and the session is released when the last
handler has run. The client's caller (the console thread of `main.cpp`)
calls `send` and `disconnect` directly, outside the strand.

The console program puts a server and a client on one io_service. The
console thread calls `server.start/stop/set_address/set_port` and
`client.connect/disconnect/send` whenever the user types them. None of the
server's or the client's own handlers (accept, resolve, connect) runs in a
strand. The client connects to the address and port the server was
configured with, so the program talks to itself.

## Modules

### `Session`: the session engine, both variants, and the client's calls

The constant `Role` selects the variant; `Sessions` is a set of model values.

State:
- `sock[s]`: "unused" (not yet constructed), "open" or "closed". This is
  `socket().is_open()`.
- `pending[s]`: a multiset, `Ops -> Nat`, of the operations started and not
  yet handled. An entry is `[kind, st]`: `st = "inflight"` until the
  transport completes it, and then the error code its handler will see. The
  codes are abstracted to what the handlers tell apart:
  - "ok";
  - "fail" (eof, reset, bad_descriptor, …);
  - "ssl" (the SSL category);
  - "aborted" (`operation_aborted`).
- `closeHooks[s]`: the number of runs of `on_close_socket`.
- `stopped[s]`: whether `stop()` has been called (history).
- `active`: `client::active_session_`.
- `sends`: the number of calls to `client::send`.

Actions, and the code they model:
- `Start(s)`: a session is constructed and `start()` issues the handshake
  (`server::do_accept` line 90; `client::connect` lines 57–58, which also
  replaces `active_session_`).
- `Complete(s,k)`: the transport completes an operation in flight. On a
  closed socket every operation fails; a shutdown succeeds or fails with an
  SSL error.
- `HandshakeHandler`, `TransferHandler`, `ShutdownHandler`: the lambdas in
  `session.cpp`. Their success branch calls the variant's hook: `ServerHook`
  or `ClientHook`, each a table of the transfers the hook starts. Their
  failure branch calls `do_close_socket` or `stop()`.
- `FlushHandler`: the null_buffers write handler of `server_session`.
- `Stop`: `stop()`. It cancels the socket, which aborts every operation in
  flight (`Cancel`), and then `do_shutdown_secure_stream` starts an
  `async_shutdown`.
- `DoCloseSocket`: closes the socket, aborts what is in flight and runs
  `on_close_socket` (`OnCloseSocket`, which only counts the runs).
- `Send`, `Disconnect`: `client::send` (with `client_session::send`) and
  `client::disconnect`, callable at any time, as `main.cpp` allows.

Abstracted away: buffer contents, the request and response handlers, and
`debug`.

`Lifecycle(s)` reads a session's socket state and stop flag as one of
"new", "running", "stopping" and "closed". Through it, `Session`
instantiates `SessionLifecycle`: an abstract session whose socket opens
once (`Open`), may be stopped (`Halt`), and closes once (`Close`). At the
close, `on_close_socket` runs at most once in all. `LifecycleRefinement`
is the abstract specification. The guards of the `CASE` are mutually
exclusive, as are those of every other `CASE` in the project. With
overlapping guards, TLA+ picks an arm arbitrarily, not the first one.

### `SessionProofs`

The TLAPS proofs about `Session` (see below).

### `FrameCodec`: the wire framing (`message.cpp/.hpp`)

Pure operators, no state. The constants are the magic (`Magic`), the
width of the length field (`LengthDigits`, 10 in the code) and the width of
`size_t` (`SizeWidth`, 64 in the code).

A byte is a one-character string: a digit, a space, a sign, a magic
character, or `Other` (every other byte value).
- `HeaderFor(n)` is `prepare_header_buffer_write`: the magic, then `n`
  in decimal, right-aligned by `setw` in a field that is a minimum width,
  not a maximum.
- `ParseUnsigned` is `operator>>` into a `size_t`. It skips white space,
  takes one sign and then the run of digits. No digit gives 0, and a '-'
  wraps the value modulo `2^SizeWidth`.
- `ContentLength`, `PrepareHeaderRead`, `PrepareContentRead`, `Clear`,
  `SetContentBuffer` and `MessageOf` are the other member functions.

Only TLC uses this module: `Decimal` and the parse are recursive.

### `Connection`, `MCConnection`: a client_session talking to a server_session

`Connection` runs the real codec between the two sessions over two byte
channels (`c2s`, `s2c`).
- The client's `Send` and its `on_write_header`, `on_write_content`,
  `on_read_header` and `on_read_content` hooks (with `HandleResponse`) are
  actions.
- So are the server's read-header, read-content (with the echo
  `HandleRequest`), write-header and write-content steps.
- A read takes exactly the bytes the buffer was sized for. A size beyond
  `max_size` terminates the process (`terminated`).
- With `Peer = "hostile"` the client is replaced by a peer that writes one
  header-sized chunk with any length field (`HostileSend`).

The client's `Send` is guarded by `cpc = "idle"`: the caller modelled
here sends again only after the previous response has been handled.
`client::send` and `client_session::send` do not enforce this. The echo
properties are therefore about one exchange at a time. A send during an
exchange is the `client_send_during_exchange` run of `Session`.
`MCConnection` gives TLC a one-character magic.

### `Listener`, `ServerEndpoint`: the server (`server.cpp`)

`Listener` models the accept loop. State:
- `acceptor`: "closed", "listening", or "unbound" (open, but bind or
  listen failed);
- `socket`: the server's one `socket_`, "closed" or "open";
- `accepts`: a multiset of pending accepts, by the status their handler
  will see;
- counters `conns`, `sessions` and `starts`.

Actions:
- `StartListening`: `start_listening`. Each failure is only logged, and
  `do_accept` is called whatever happened.
- `Stop`: `acceptor_.close()`, which aborts the accepts in flight.
- `AcceptConnection` and `AcceptError`: the kernel completes an accept.
- `AcceptHandler(e)`: the handler. It returns early if the acceptor is
  closed. On success it moves `socket_` into a new session. It re-arms in
  every other case.
- `DoAccept` follows Boost.Asio: an accept on a closed acceptor fails at
  once (bad_descriptor), and one into an open `socket_` fails with
  already_open.

`ServerEndpoint` adds `endpoint_`, with `set_address`, `set_port`,
`set_endpoint` and `port_in_use`. A start on a busy port leaves the
acceptor unbound.

### `IoManager`: the io_service and its worker threads (`io_manager.cpp`)

State:
- `active_`, the work guard, the io_service's stopped flag;
- the threads inside `run()`, and how many of them are running a handler;
- the caller inside `stop()`;
- counts of the operations outstanding and of the handlers ready to run.

Actions:
- `Start`.
- `stop()` in three steps: `Stop` resets the work guard, `StopService` is
  `io_service_.stop()`, and `StopReturn` is the join, the reset and
  `active_ = false`.
- The `run()` loop: `Complete`, `RunHandler`, `HandlerReturn`, `OutOfWork`
  (run stops the io_service itself when no work is left) and `WorkerExit`.

### `Client`: the client's connector (`client.cpp`)

State:
- `sock`: the client's one `socket_`: closed, connecting, open but not
  connected, or connected;
- `owner`: the call whose connect is in flight on `socket_`;
- `call[i]`: where each `client_connect` call is;
- `sess[i]`: the session a call's handler created, recorded by the
  transport it was given;
- `active`: `active_session_`.

Actions:
- `Connect(i)`: `async_resolve`.
- `ResolveHandler(i)`: Boost.Asio's `async_connect` first closes
  `socket_`, which aborts a connect in flight on it and drops a connection
  not yet moved. It then connects again.
- `ConnectComplete(i)`.
- `ConnectHandler(i)`: the composed operation reports operation_aborted if
  `socket_` is closed. On success the handler moves `socket_` into a new
  `client_session`, whatever state `socket_` is in.
- `Disconnect`, with `IsConnected` and `IsAlive`.

The session's protocol after it starts is `Session`'s.

### `Program`: the console program (`main.cpp`), composing the components

`Program` EXTENDS `ServerEndpoint` and `Client`, and instantiates
`IoManager` (`active <- ioActive`).
- `PInit`: the objects are constructed, and `target` is the configured
  endpoint.
- `StartIo`: `io_manager.start()`.
- `Console`: one of the commands server_start, server_stop,
  server_set_address, server_set_port, client_connect and
  client_disconnect. client_send, client_send_file, status and invalid
  input change none of this state.
- `Quit`: `client.disconnect(); server.stop(); io_manager.stop()` up to
  the join.
- `Exit`: the join returns, and the destructors run; `~server` calls
  `stop()` again.

The components are linked in two ways:
- Every accept, resolve or connect handler runs only on an idle worker of
  a running io_service (`OnWorker`). A handler still pending when
  `io_manager.stop()` stops the io_service never runs.
- The client's connect succeeds only while the server is listening on the
  configured endpoint.

IoManager's own operations stand for the sessions' transfers.

## Runs

| run | module / cfg | result | what it shows |
|-----|--------------|--------|---------------|
| session_server | Session / `SessionServer.cfg` | pass | 2 server sessions, all completion orders and errors: `OneTransferInFlight`, `CloseHookAtMostOnce`, `StopEndsTransfers` (after `stop()` no handshake, read or write is live), `StoppedSessionIsReleased`, and `LifecycleRefinement` (the session implements `SessionLifecycle`) |
| session_client | Session / `SessionClient.cfg` | pass | 2 client sessions (connect twice, orphaning the first), 1 send, disconnect at any time: `StoppedSessionIsReleased` |
| client_send_during_exchange | Session / `SessionClientSend.cfg` | violation | `OneTransferInFlight` fails when `send` comes during the handshake (finding 1) |
| client_double_close | Session / `SessionClientStop.cfg` | violation | `CloseHookAtMostOnce` fails when a disconnect races a failed handshake (finding 2) |
| connection_echo | MCConnection / `ConnectionEcho.cfg` | pass | two requests through the real encoding and parsing: `EchoReturnsRequest`, `RequestEventuallyAnswered` (one exchange at a time) |
| connection_hostile | MCConnection / `ConnectionHostile.cfg` | pass | a header with no digit in its length field reads an empty content (`UnparsableLengthReadsEmpty`) |
| hostile_length | MCConnection / `ConnectionHostileLength.cfg` | violation | `ServerSurvivesAnyHeader`: "-1" wraps, and the resize throws (finding 3) |
| program_quit | Program / `ProgramQuit.cfg` | pass | the whole program, every console command in any order, then quit: `AcceptedSocketOpen`, `ConnectionAwaitsHandler` (a connection in the client's `socket_` always has a connect handler to take it), `IoCleanWhenInactive` (an inactive io_manager has joined its workers and reset its io_service), `NoHandlerAfterExit` (no accept, resolve or connect handler runs after main returns), `ServerQuietAfterStop`, `ClientConnectionTaken`, `QuitExits` |
| listener_duplicate_accept | Listener / `ListenerDuplicate.cfg` | violation | `OneAcceptInFlight`: two accept loops after a failed start and a restart (finding 4) |
| listener_stop_leaks_connection | Listener / `ListenerLeak.cfg` | violation | `AcceptedConnectionGetsSession`: a stop between an accept and its handler leaks the connection (finding 5) |
| io_manager_drain | IoManager / `IoManagerDrain.cfg` | violation | `StopDrainsHandlers`: stop returns with completed handlers unrun (finding 6) |
| client_connect_race | Client / `ClientConnectRace.cfg` | violation | `SessionStartsOnConnection`: two connects, and a session on a socket that is not connected (finding 7) |

Every property of a passing run has a mutant in PROJECT.json: a plausible
bug in the mapped code that TLC finds under the run's cfg.

### Bounds

- **Sessions**: two sessions interleave on the shared worker threads and
  let a connect orphan a session. The properties are per session.
  `MaxSends = 1` reaches a send during the handshake and during a
  disconnect.
- **Connection**: a one-character magic, a two-digit length field and an
  8-bit `size_t` (so `max_size` is 127, above the 99 two digits hold).
  These keep the codec's cases:
  - padding;
  - a full field;
  - a sign;
  - a field with no digit;
  - wrap-around beyond `max_size`.

  Two requests of up to two bytes, drawn from a digit and a space, make
  misframed content parse as a header.
- **program_quit**: about 173,000 states, about a minute. It uses:
  - two starts, so a restart happens after a stop;
  - a free port and a busy port, so a start can leave the acceptor
    unbound and set_port can refuse a port;
  - one address;
  - one connection from another client;
  - two `client_connect` calls, enough for two connects in flight;
  - two workers and one session operation at a time.

  Each handler and each stop races at least one other step.
- **Violation runs** use the smallest instance that shows the trace.

`CHECK_DEADLOCK FALSE` is used only where the system really stops:
- a closed session with nothing pending;
- an idle connection;
- a hostile peer that sends nothing more;
- the program after `main` returns;
- a client with both calls done.

### Findings

1. `client::send` only checks `is_connected()`, and
   `client_session::send` starts `do_write_header` at once. A send during
   the handshake, or during a previous exchange, puts two transfers on one
   SSL stream. This contradicts spec §5.
2. `stop()` is not idempotent. A disconnect racing a failed handshake
   aborts the shutdown. Its `operation_aborted` code is outside the SSL
   category and is taken for a clean shutdown, so `on_close_socket` runs
   twice. This contradicts spec §4.2 and §8.
3. The length field is parsed by `operator>>` into `size_t`. A peer's
   "-1" wraps to about 2^64, and `resize` throws out of the completion
   handler, which ends the process. This contradicts spec §7.
4. The accept handler re-arms when the acceptor is open at the time it
   runs. An aborted or failed accept whose handler runs after a new start
   doubles the accept loop. This contradicts spec §4.4.
5. A stop between an accept's completion and its handler leaves the
   connection in `socket_` for ever. A later start then spins on
   already_open. This contradicts spec §4.4.
6. `io_manager::stop` stops the io_service. Completed handlers, including
   the client's shutdown at quit, never run. Spec §4.3 says in-flight
   completions drain.
7. Two `client_connect` calls share `socket_`. The second's
   `async_connect` closes `socket_` under the first. The first's success
   handler then starts a client_session on a socket that is connecting
   for the second call, or was refused. This contradicts spec §4.4.

## Fairness

- **Session**: `FairSpec` makes every completion and every handler weakly
  fair.
  - The completions: the peer or the TCP stack eventually answers or
    reports an error. This is an assumption about the environment, since
    the code has no timeouts.
  - The handlers: the workers run every handler posted to a strand.
- **Connection**: every read and write step is weakly fair, because the
  workers are scheduled.
- **Listener and Program**: the accept, resolve and connect handlers are
  weakly fair, because the workers run every ready handler.
- **IoManager and Program**: the worker steps (run a handler, return,
  stop when out of work, leave run) and the main thread inside
  `io_manager.stop()` are weakly fair. Each has its own fairness
  condition, so workers that keep busy cannot starve the main thread's
  `io_service.stop()`.
- **Not fair** (the user's or the network's choice, never forced):
  - the console's commands, `Start`, `Send` and `Disconnect`;
  - clients connecting, and accept errors;
  - connect completions;
  - the sessions' operations in `IoManager`. A pending accept may wait for
    ever.

The liveness properties of `Program` hold "unless the program exits
first", because `io_manager.stop()` abandons pending handlers.

## Proofs (TLAPS: modules `SessionProofs`, `ListenerProofs`, `ClientProofs`, `IoManagerProofs` and `ProgramProofs`)

- `TypeCorrect`: `Spec => []TypeOK`, for every set of sessions, either
  role and every `MaxSends \in Nat`. TypeOK is inductive. The steps rest on
  the lemmas `IssueType`, `TakeType`, `FinishType`, `CancelType` and
  `UpdateType`: the multiset operators keep a function `Ops -> Nat`. One
  step per action.
- `ServerOneTransferInFlight`: under `Role = "server"`,
  `Spec => []OneTransferInFlight`, for every set of sessions. The
  inductive invariant is `TypeOK /\ OneTransferInFlight` (TypeOK from
  `TypeCorrect`). The argument:
  - `LiveLeq`: taking an entry, `Cancel`, and starting a shutdown or a
    flush never increase a live transfer entry. A multiset below one with at
    most one live entry has at most one (`LiveLeqAtMostOne`).
  - Handling the one live entry leaves none (`TakeLive`). Every server hook
    starts exactly one transfer (`ServerHookOne`), so afterwards there is
    one again (`IssueOne`).
  - A completion moves the live entry to its outcome or makes it
    "aborted" (`FinishAtMostOne`).
  - `Send` and `Disconnect` are client actions.

  For the client role the invariant is false (finding 1).

- `ServerCloseHookAtMostOnce`: under `Role = "server"`,
  `Spec => []CloseHookAtMostOnce`. `CloseHookAtMostOnce` is not
  inductive: a step that runs `on_close_socket` is safe only if no other
  handler can run it later. The strengthening is `ServerCloseInv`. A
  *closer* is a live transfer entry or any shutdown or flush entry: the
  entries whose handler may close the socket. `CloseBudget` states, per
  session:
  - at most one closer is pending;
  - the hook has run at most once;
  - once it has run, no closer is pending;
  - an unused session has no hook run;
  - a closed socket has no closer pending.

  The lemmas:
  - `TakeCloser`: the handler of the one closer finds the socket open and
    the hook not run.
  - `IssueOneCloser`: a hook or a stop issues a closer only into a
    multiset that holds none.
  - `CancelNoCloser` and `FinishCloser`: cancelling and completing keep
    the budget.
- `ServerStopEndsTransfers`: `Spec => []StopEndsTransfers` for servers.
  The inductive invariant `StopInv` adds two facts. A stopped session has
  been started. An unused session has nothing pending. With
  `OneTransferInFlight`, the proof shows that `stop()` cancels the one
  live transfer. Every handler of a stopped session then ends in `Stop`
  or `DoCloseSocket`, which issue no transfer (`NoLiveLeq`,
  `FinishOtherLeq`).
- `ServerLifecycleRefinement`: `Spec => LifecycleRefinement` for servers.
  The proof is a refinement mapping, `life <- Lifecycle`,
  `hooks <- closeHooks`. `Init` maps to `LInit`, and every step maps to
  an abstract step or a stutter:
  - `Start` is `Open`.
  - A `Stop` of a running session is `Halt`.
  - `DoCloseSocket` is `Close`.
  - Every other step stutters.

  The step proof uses the three invariants above. `ServerCloseInv` shows
  that `DoCloseSocket` runs only on an open socket whose hook has not run.
  `StopInv` shows that `Start` finds the session not stopped.
- `ProgramImplementsListener` (module `ProgramProofs`): `PSpec => Spec` of
  `Listener`. Every program step is a listener step or a stutter
  (`ProgramStepIsListenerStep`, one case per disjunct of `PNext`). From
  it and `AcceptedSocketOpenInvariant` follows `ProgramAcceptedSocketOpen`.
- `ProgramNoHandlerAfterExit`: `PSpec => NoHandlerAfterExit`. The
  inductive invariant `ExitInv` says that once the program has exited, no
  worker thread runs. Every handler needs a running worker.
- `ClientConnectionAwaitsHandler` (module `ClientProofs`):
  `CInit /\ [][CNext]_cvars => []ConnectionAwaitsHandler`, for every set
  of calls. A connection in `socket_` always has a connect handler still to
  run. That handler moves the connection into a `client_session`. This is
  the safety half of `ClientConnectionTaken`: the liveness half adds only
  the fairness of the handlers. The property is not inductive as stated:
  a resolve handler could mark the connected call "aborted". The
  strengthening `OwnerConnecting` says that the call whose connect is in
  flight on `socket_` (`owner`) is "connecting", and that `socket_` is then
  "connecting". So the call that `ResolveHandler` aborts was never the one
  holding the connection. A success handler that finds `socket_` non-closed
  takes `socket_` with it. The proof has one step per action, with
  `CTypeOK`.
- `IoManagerCleanWhenInactive` (module `IoManagerProofs`):
  `Spec => []CleanWhenInactive` for every `NumThreads` and `MaxOps`. An
  inactive io_manager has:
  - no worker in `run()`;
  - no work guard;
  - a reset io_service;
  - no `stop()` under way.

  So `start()` never clears a pool of running threads, and never runs a
  stopped io_service. The inductive invariant `IoInv` adds two facts. A
  `stop()` under way has an active manager whose work guard is already
  reset. `busy` is a number, so a manager with no thread runs no handler.
- `ProgramImplementsClient` and `ProgramImplementsIoManager`: the program
  implements the connector's steps (`CInit /\ [][CNext]_cvars`) and
  `IoManager`'s specification. They rest on `ProgramStepIsClientStep` and
  `ProgramStepIsIoStep`, each with one case per disjunct of `PNext`:
  - `client_connect` is `Connect`;
  - `client_disconnect` and quit call `Disconnect`;
  - main's start is `IO!Start`;
  - quit is `IO!Stop`;
  - exit is `IO!StopReturn`.

  From these follow `ProgramConnectionAwaitsHandler` and
  `ProgramIoCleanWhenInactive`. The latter uses the io_manager theorem
  through `IOP == INSTANCE IoManagerProofs WITH active <- ioActive`.

- `AcceptedSocketOpenInvariant` (module `ListenerProofs`):
  `Spec => []AcceptedSocketOpen` for every `MaxStarts` and
  `MaxConnections`. While a successful accept's handler is pending,
  `socket_` is open and no second success is pending. This holds whatever
  the order of stops, restarts, connections, errors and handlers, with
  duplicated accept loops included.
  - The inductive invariant is `TypeOK /\ AcceptedSocketOpen`. TypeOK is
    needed because the multiset arithmetic requires `accepts` to be a
    function into `Nat`.
  - The lemmas `DoAcceptKeepsOk`, `TakeOk` and `AbortKeepsOk` state that
    re-arming and aborting never add a success.
  - The proof has one step per action.
  - An accept succeeds only into a closed `socket_`, and then no success
    is pending (`AcceptConnection`).
  - The success handler empties `socket_` as it takes the one success.

Only model-checked:
- Every liveness property. These are out of TLAPS's reach, as is
  `ENABLED`.
- Everything about `FrameCodec` and `Connection`. `Decimal` and the parse
  are recursive operators, and tlapm loses its SMT backend in a module
  that reaches one.
- `ServerQuietAfterStop`, `ClientConnectionTaken` and `QuitExits` of
  `Program`, which are liveness properties. The safety core of
  `ClientConnectionTaken` is proved (`ConnectionAwaitsHandler`).
- The session properties in the client role. `OneTransferInFlight` and
  `CloseHookAtMostOnce` are false there (findings 1 and 2), and so is
  `StopEndsTransfers`: TLC shows that `send` starts a write after `stop()`.

## Not modelled, and why

- **The data races.** `send`, `disconnect` and `is_connected` run on the
  console thread while workers run handlers (`write_buffer_`,
  `active_session_`). Their outcome is undefined, and the atomic actions
  cannot enumerate it. They are listed as hazards.
- **A disconnect while a connect is in flight.** The connect completes
  afterwards and makes a new active session. `Client` allows it, but no
  run states that a disconnect sticks.
- **`set_address` while listening.** It changes `endpoint_` even though
  it is refused (`SetAddress` has no guard). This is a hazard with a note.
- **The magic is never checked.** A header with any prefix is accepted.
- **`setw(10)` overflow at 10^10 bytes.** `EchoReturnsRequest` catches the
  misframing when the field is shorter than the length; the passing run
  keeps contents below the field, as the code's 10^10 bytes do in
  practice.
- **The client timer** (`do_timeout`, `set_timeout_expiry_time`). No code
  calls it.
- **Pure I/O, with no state to explore:**
  - option parsing and the configuration file;
  - TLS context setup;
  - `files.hpp` and `secure_data.hpp`;
  - `get_local_addresses`;
  - `debug`;
  - printing and saving responses.
