------------------------------ MODULE Program ------------------------------
(***************************************************************************)
(* micro_tcp's console program (main.cpp): one io_manager, one server and *)
(* one client on the same io_service.  The main thread starts the workers, *)
(* then runs the console loop, calling the server's and the client's       *)
(* operations as the user types them; on "quit" it disconnects the client, *)
(* stops the server and stops the io_manager, and returns.                  *)
(*                                                                         *)
(* The components are modules ServerEndpoint (with Listener), Client and   *)
(* IoManager.  They meet in two places.  Every completion handler -- the   *)
(* server's accept handler and the client's resolve and connect handlers   *)
(* -- runs on a worker thread inside run() of a running io_service, so a  *)
(* handler still pending when io_manager::stop stops the io_service never  *)
(* runs.  And the client connects to the address and port main read from  *)
(* the configuration, where the server listens unless the console moved it.*)
(* IoManager's own operations stand for the sessions' transfers.           *)
(***************************************************************************)
EXTENDS ServerEndpoint, Client

CONSTANTS
  NumThreads,  \* io_manager::start's num_threads
  MaxOps       \* bound on the sessions' operations outstanding at once

ASSUME ProgramAssumption == NumThreads \in Nat \ {0} /\ MaxOps \in Nat

VARIABLES
  ioActive, work, stopped, threads, busy, caller, ops, ready,  \* IoManager's
  target,  \* the Server.listen_address and listen_port main read
  phase    \* the main thread: "init", "console", "quitting", "exited"

iovars == <<ioActive, work, stopped, threads, busy, caller, ops, ready>>

IO == INSTANCE IoManager WITH active <- ioActive

pvars == <<vars, evars, cvars, iovars, target, phase>>

\* main: io_manager io_manager; server server(io_service, address, port,
\* ...); client client(io_service, ...).
PInit ==
  /\ EInit /\ CInit /\ IO!Init
  /\ target = endpoint
  /\ phase = "init"

\* A completion handler can run: a worker is inside run() of a running
\* io_service and idle.
OnWorker == threads > busy /\ ~stopped

\* main: io_manager.start().
StartIo ==
  /\ phase = "init"
  /\ IO!Start
  /\ phase' = "console"
  /\ UNCHANGED <<vars, evars, cvars, target>>

\* The console's commands.
ServerStartCmd ==
  /\ EStartListening
  /\ UNCHANGED <<cvars, iovars, target, phase>>

ServerStopCmd ==
  /\ Stop
  /\ UNCHANGED <<evars, cvars, iovars, target, phase>>

SetAddressCmd ==
  /\ \E a \in Addresses : SetAddress(a)
  /\ UNCHANGED <<vars, cvars, iovars, target, phase>>

SetPortCmd ==
  /\ \E p \in Ports : SetPort(p)
  /\ UNCHANGED <<vars, cvars, iovars, target, phase>>

ConnectCmd ==
  /\ \E i \in Calls : Connect(i)
  /\ UNCHANGED <<vars, evars, iovars, target, phase>>

DisconnectCmd ==
  /\ Disconnect
  /\ UNCHANGED <<vars, evars, iovars, target, phase>>

\* The console loop reads a line and runs the command it names; client_send,
\* client_send_file, status and unknown input change none of this state.
Console ==
  /\ phase = "console"
  /\ \/ ServerStartCmd \/ ServerStopCmd \/ SetAddressCmd \/ SetPortCmd
     \/ ConnectCmd \/ DisconnectCmd

\* "quit" leaves the loop: client.disconnect(); server.stop();
\* io_manager.stop() -- up to the join.
Quit ==
  /\ phase = "console"
  /\ Disconnect /\ Stop /\ IO!Stop
  /\ phase' = "quitting"
  /\ UNCHANGED <<evars, target, ops, ready, threads, busy, stopped, ioActive>>

\* server::~server(): stop().
ServerDestructor == Stop

\* Variant of quit whose io_manager.stop() does not wait for the workers
\* (they are detached, not joined): main returns at once.
ExitWithoutJoin ==
  /\ phase = "quitting"
  /\ ServerDestructor
  /\ phase' = "exited"
  /\ UNCHANGED <<evars, cvars, iovars, target>>

\* io_manager.stop() returns and main returns: the client, the server and
\* the io_manager are destroyed.  ~server stops the server again;
\* ~io_manager's stop() finds active_ false and does nothing.
Exit ==
  /\ phase = "quitting"
  /\ IO!StopReturn
  /\ ServerDestructor
  /\ phase' = "exited"
  /\ UNCHANGED <<evars, cvars, target>>

\* The io_service and its workers.
IoStep ==
  /\ phase # "exited"
  /\ \/ IO!StopService \/ IO!StartOp \/ IO!Complete \/ IO!RunHandler
     \/ IO!HandlerReturn \/ IO!OutOfWork \/ IO!WorkerExit
  /\ UNCHANGED <<vars, evars, cvars, target, phase>>

\* The kernel: a client connects to the server, an accept fails.
ServerEvent ==
  /\ phase # "exited"
  /\ AcceptConnection \/ AcceptError
  /\ UNCHANGED <<evars, cvars, iovars, target, phase>>

\* The server's accept handler, on a worker.
ServerHandler(e) ==
  /\ OnWorker
  /\ AcceptHandler(e)
  /\ UNCHANGED <<evars, cvars, iovars, target, phase>>

\* The client's connect completes: it connects only to a server listening
\* on the configured endpoint.
ClientConnectComplete(i) ==
  /\ phase # "exited"
  /\ ConnectComplete(i)
  /\ call'[i] = "connected" => acceptor = "listening" /\ bound = target
  /\ UNCHANGED <<vars, evars, iovars, target, phase>>

\* The client's handlers, on a worker.
ClientHandler(i) ==
  /\ OnWorker
  /\ ResolveHandler(i) \/ ConnectHandler(i)
  /\ UNCHANGED <<vars, evars, iovars, target, phase>>

PNext ==
  \/ StartIo \/ Console \/ Quit \/ Exit \/ IoStep \/ ServerEvent
  \/ \E e \in AcceptStatus \ {"inflight"} : ServerHandler(e)
  \/ \E i \in Calls : ClientConnectComplete(i) \/ ClientHandler(i)

\* The user is not fair.  The main thread goes on through quit, the workers
\* are scheduled, and they run every ready handler; a resolve of the
\* configured numeric address completes.
PFairness ==
  /\ WF_pvars(Exit)
  /\ WF_pvars(IoStep /\ IO!StopService) /\ WF_pvars(IoStep /\ IO!RunHandler)
  /\ WF_pvars(IoStep /\ IO!HandlerReturn) /\ WF_pvars(IoStep /\ IO!OutOfWork)
  /\ WF_pvars(IoStep /\ IO!WorkerExit)
  /\ \A e \in AcceptStatus \ {"inflight"} : WF_pvars(ServerHandler(e))
  /\ \A i \in Calls : WF_pvars(ClientHandler(i))

PSpec == PInit /\ [][PNext]_pvars /\ PFairness

-----------------------------------------------------------------------------
(***************************************************************************)
(* Properties.                                                             *)
(***************************************************************************)

PTypeOK == TypeOK /\ CTypeOK /\ IO!TypeOK /\ phase \in {"init", "console", "quitting", "exited"}

\* Spec section 4.3: quitting ends -- io_manager.stop() joins every worker
\* and main returns, with accepts, connects and sessions' operations still
\* outstanding.
QuitExits == (phase = "quitting") ~> (phase = "exited")

\* Once the console's server_stop (or quit) has closed the acceptor, the
\* accept loop ends -- every pending accept's handler runs and none is
\* re-armed -- unless a server_start reopens it or the program exits first.
ServerQuietAfterStop ==
  (acceptor = "closed") ~>
    (acceptor # "closed" \/ Pending(accepts) = 0 \/ phase = "exited")

\* A connection client_connect established in the client's socket_ leaves
\* it -- moved into a client_session, or dropped by a later connect -- unless
\* the program exits first.
ClientConnectionTaken ==
  (sock = "connected") ~> (sock # "connected" \/ phase = "exited")

\* The io_manager's CleanWhenInactive, in the program.
IoCleanWhenInactive == IO!CleanWhenInactive

\* After main has returned and destroyed the server, the client and the
\* io_manager, no accept, resolve or connect handler runs: io_manager::stop
\* joins every worker before it returns, and nothing starts one again, so
\* no handler is left to use the destroyed objects.
NoHandlerAfterExit ==
  [][(\E e \in AcceptStatus \ {"inflight"} : ServerHandler(e))
       \/ (\E i \in Calls : ClientHandler(i))
     => phase # "exited"]_pvars

=============================================================================
