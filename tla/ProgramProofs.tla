--------------------------- MODULE ProgramProofs ---------------------------
(***************************************************************************)
(* Proofs about the console program of module Program: its server is the   *)
(* accept loop of module Listener, its client the connector of module      *)
(* Client and its io_manager the one of module IoManager, whatever the     *)
(* other components, the console and quitting do around each.             *)
(***************************************************************************)
EXTENDS Program, ListenerProofs, ClientProofs

\* The io_manager's proofs, about the program's io_manager.
IOP == INSTANCE IoManagerProofs WITH active <- ioActive

\* Every step of the program is a step of the accept loop or leaves its
\* state alone: server_start and server_stop are start_listening and
\* stop, quit and ~server stop the server, the accept handler runs on a
\* worker; every other step touches no listener variable.
LEMMA ProgramStepIsListenerStep == [PNext]_pvars => [Next]_vars
<1> SUFFICES ASSUME [PNext]_pvars PROVE [Next]_vars
  OBVIOUS
<1>1. CASE StartIo
  BY <1>1 DEF StartIo, vars
<1>2. CASE Console
  BY <1>2 DEF Console, ServerStartCmd, EStartListening, ServerStopCmd,
              SetAddressCmd, SetPortCmd, ConnectCmd, DisconnectCmd, Next, vars
<1>3. CASE Quit
  BY <1>3 DEF Quit, Next
<1>4. CASE Exit
  BY <1>4 DEF Exit, ServerDestructor, Next
<1>5. CASE IoStep
  BY <1>5 DEF IoStep, vars
<1>6. CASE ServerEvent
  BY <1>6 DEF ServerEvent, Next
<1>7. CASE \E e \in AcceptStatus \ {"inflight"} : ServerHandler(e)
  BY <1>7 DEF ServerHandler, Next
<1>8. CASE \E i \in Calls : ClientConnectComplete(i) \/ ClientHandler(i)
  BY <1>8 DEF ClientConnectComplete, ClientHandler, vars
<1>9. CASE UNCHANGED pvars
  BY <1>9 DEF pvars, vars
<1>. QED
  BY <1>1, <1>2, <1>3, <1>4, <1>5, <1>6, <1>7, <1>8, <1>9 DEF PNext

\* The server inside the console program implements the accept loop's
\* specification: the composition with the client, the io_manager and the
\* console adds no behaviour to server.cpp's state.
THEOREM ProgramImplementsListener == PSpec => Spec
<1>1. PInit => Init
  BY DEF PInit, EInit
<1>. QED
  BY <1>1, ProgramStepIsListenerStep, PTL DEF PSpec, Spec

\* In the running program -- the console starting and stopping the server,
\* quit and ~server stopping it again, every handler on the io_manager's
\* workers -- a successful accept's handler always finds its connection in
\* socket_, and no second success is pending.
THEOREM ProgramAcceptedSocketOpen == PSpec => []AcceptedSocketOpen
BY ProgramImplementsListener, AcceptedSocketOpenInvariant

-----------------------------------------------------------------------------
(***************************************************************************)
(* No handler after main returns.                                           *)
(***************************************************************************)

\* The workers' count of running handlers is a number, and once main has
\* returned no worker is inside run().
ExitInv == busy \in Nat /\ (phase = "exited" => threads = 0)

LEMMA ExitInvInductive == ExitInv /\ [PNext]_pvars => ExitInv'
<1> SUFFICES ASSUME ExitInv, [PNext]_pvars PROVE ExitInv'
  OBVIOUS
<1>1. CASE StartIo
  BY <1>1 DEF StartIo, ExitInv, IO!Start
<1>2. CASE Console
  BY <1>2 DEF Console, ServerStartCmd, ServerStopCmd, SetAddressCmd,
              SetPortCmd, ConnectCmd, DisconnectCmd, iovars, ExitInv
<1>3. CASE Quit
  BY <1>3 DEF Quit, ExitInv
<1>4. CASE Exit
  BY <1>4 DEF Exit, IO!StopReturn, ExitInv
<1>5. CASE IoStep
  BY <1>5 DEF IoStep, ExitInv, IO!StopService, IO!StartOp, IO!Complete,
              IO!RunHandler, IO!HandlerReturn, IO!OutOfWork, IO!WorkerExit
<1>6. CASE ServerEvent
  BY <1>6 DEF ServerEvent, iovars, ExitInv
<1>7. CASE \E e \in AcceptStatus \ {"inflight"} : ServerHandler(e)
  BY <1>7 DEF ServerHandler, iovars, ExitInv
<1>8. CASE \E i \in Calls : ClientConnectComplete(i) \/ ClientHandler(i)
  BY <1>8 DEF ClientConnectComplete, ClientHandler, iovars, ExitInv
<1>9. CASE UNCHANGED pvars
  BY <1>9 DEF pvars, iovars, ExitInv
<1>. QED
  BY <1>1, <1>2, <1>3, <1>4, <1>5, <1>6, <1>7, <1>8, <1>9 DEF PNext

\* Once main has returned and the server, the client and the io_manager
\* are destroyed, no accept, resolve or connect handler runs: io_manager's
\* stop() joins every worker before main can return, and only main's
\* io_manager.start() makes workers, so no thread is left to call one.
THEOREM ProgramNoHandlerAfterExit == PSpec => NoHandlerAfterExit
<1>1. PInit => ExitInv
  BY DEF PInit, IO!Init, ExitInv
<1>2. ExitInv /\ [PNext]_pvars
        => [(\E e \in AcceptStatus \ {"inflight"} : ServerHandler(e))
              \/ (\E i \in Calls : ClientHandler(i))
            => phase # "exited"]_pvars
  BY DEF ExitInv, ServerHandler, ClientHandler, OnWorker
<1>. QED
  BY <1>1, <1>2, ExitInvInductive, PTL DEF PSpec, NoHandlerAfterExit

-----------------------------------------------------------------------------
(***************************************************************************)
(* The client and the io_manager inside the program.                       *)
(***************************************************************************)

\* Every step of the program is a step of the connector or leaves its
\* state alone: client_connect is connect, client_disconnect and quit call
\* disconnect, and the resolve and connect handlers and the connect's
\* completion are the connector's own.
LEMMA ProgramStepIsClientStep == [PNext]_pvars => [CNext]_cvars
<1> SUFFICES ASSUME [PNext]_pvars PROVE [CNext]_cvars
  OBVIOUS
<1>1. CASE StartIo
  BY <1>1 DEF StartIo
<1>2. CASE Console
  BY <1>2 DEF Console, ServerStartCmd, ServerStopCmd, SetAddressCmd,
              SetPortCmd, ConnectCmd, DisconnectCmd, CNext
<1>3. CASE Quit
  BY <1>3 DEF Quit, CNext
<1>4. CASE Exit
  BY <1>4 DEF Exit
<1>5. CASE IoStep
  BY <1>5 DEF IoStep
<1>6. CASE ServerEvent
  BY <1>6 DEF ServerEvent
<1>7. CASE \E e \in AcceptStatus \ {"inflight"} : ServerHandler(e)
  BY <1>7 DEF ServerHandler
<1>8. CASE \E i \in Calls : ClientConnectComplete(i) \/ ClientHandler(i)
  BY <1>8 DEF ClientConnectComplete, ClientHandler, CNext
<1>9. CASE UNCHANGED pvars
  BY <1>9 DEF pvars
<1>. QED
  BY <1>1, <1>2, <1>3, <1>4, <1>5, <1>6, <1>7, <1>8, <1>9 DEF PNext

\* The client inside the console program implements the connector's
\* specification (its steps; the fairness of its handlers needs workers,
\* which the program only has until quit).
THEOREM ProgramImplementsClient == PSpec => CSafeSpec
<1>1. PInit => CInit
  BY DEF PInit
<1>. QED
  BY <1>1, ProgramStepIsClientStep, PTL DEF PSpec, CSafeSpec

\* In the running program, with the console connecting and disconnecting
\* at any time and the handlers on the io_manager's workers, a connection
\* in the client's socket_ always has a connect handler still to run that
\* will take it.
THEOREM ProgramConnectionAwaitsHandler == PSpec => []ConnectionAwaitsHandler
BY ProgramImplementsClient, ClientConnectionAwaitsHandler

\* Every step of the program is a step of the io_manager or leaves its
\* state alone: main's io_manager.start(), quit's io_manager.stop() up to
\* the join, the join's return at exit, and the workers' steps.
LEMMA ProgramStepIsIoStep == [PNext]_pvars => [IO!Next]_iovars
<1> SUFFICES ASSUME [PNext]_pvars PROVE [IO!Next]_iovars
  OBVIOUS
<1>1. CASE StartIo
  BY <1>1 DEF StartIo, IO!Next
<1>2. CASE Console
  BY <1>2 DEF Console, ServerStartCmd, ServerStopCmd, SetAddressCmd,
              SetPortCmd, ConnectCmd, DisconnectCmd
<1>3. CASE Quit
  BY <1>3 DEF Quit, IO!Next, IO!Stop
<1>4. CASE Exit
  BY <1>4 DEF Exit, IO!Next
<1>5. CASE IoStep
  BY <1>5 DEF IoStep, IO!Next
<1>6. CASE ServerEvent
  BY <1>6 DEF ServerEvent
<1>7. CASE \E e \in AcceptStatus \ {"inflight"} : ServerHandler(e)
  BY <1>7 DEF ServerHandler
<1>8. CASE \E i \in Calls : ClientConnectComplete(i) \/ ClientHandler(i)
  BY <1>8 DEF ClientConnectComplete, ClientHandler
<1>9. CASE UNCHANGED pvars
  BY <1>9 DEF pvars
<1>. QED
  BY <1>1, <1>2, <1>3, <1>4, <1>5, <1>6, <1>7, <1>8, <1>9 DEF PNext

\* The program's io_manager implements IoManager's specification.
THEOREM ProgramImplementsIoManager == PSpec => IO!Spec
<1>1. PInit => IO!Init
  BY DEF PInit
<1>2. [PNext]_pvars => [IO!Next]_(IO!vars)
  BY ProgramStepIsIoStep DEF iovars, IO!vars
<1>. QED
  BY <1>1, <1>2, PTL DEF PSpec, IO!Spec

\* In the program, whenever the io_manager is not active -- before main's
\* io_manager.start() and after quit's stop() has returned -- its workers
\* are all joined and its io_service is reset, so the destructor's second
\* stop() and any restart find a clean io_manager.
THEOREM ProgramIoCleanWhenInactive == PSpec => []IoCleanWhenInactive
<1>1. IOP!Spec => []IOP!CleanWhenInactive
  BY IOP!IoManagerCleanWhenInactive
<1>2. IO!Spec <=> IOP!Spec
  BY DEF IO!Spec, IOP!Spec, IO!Init, IOP!Init, IO!Next, IOP!Next, IO!vars,
           IOP!vars, IO!Start, IOP!Start, IO!Stop, IOP!Stop,
           IO!StopService, IOP!StopService, IO!StopReturn, IOP!StopReturn,
           IO!StartOp, IOP!StartOp, IO!Complete, IOP!Complete,
           IO!RunHandler, IOP!RunHandler, IO!HandlerReturn,
           IOP!HandlerReturn, IO!OutOfWork, IOP!OutOfWork, IO!WorkerExit,
           IOP!WorkerExit
<1>3. []IOP!CleanWhenInactive => []IoCleanWhenInactive
  BY DEF IoCleanWhenInactive, IO!CleanWhenInactive, IOP!CleanWhenInactive
<1>4. PSpec => IOP!Spec
  BY <1>2, ProgramImplementsIoManager
<1>. QED
  BY <1>1, <1>3, <1>4

=============================================================================
