------------------------------ MODULE Listener ------------------------------
(***************************************************************************)
(* The accept loop of micro_tcp's server (server.cpp): start_listening,    *)
(* do_accept and its completion handler, and stop.                          *)
(*                                                                         *)
(* The server owns one acceptor and one socket, socket_, into which every  *)
(* async_accept accepts; the handler moves socket_ into a new              *)
(* server_session and re-arms.  The handler is not wrapped in a strand and *)
(* the console thread calls start and stop directly, so an aborted         *)
(* accept's handler can run after a new start.  Pending accepts are a     *)
(* multiset over their status: "inflight" until they complete, then the   *)
(* error code the handler sees.  Boost.Asio completes an accept at once    *)
(* with bad_descriptor ("fail") on a closed acceptor and with already_open *)
(* when socket_ is still open, and fills socket_ when an accept succeeds.  *)
(***************************************************************************)
EXTENDS Naturals

CONSTANTS
  MaxStarts,       \* bound on the caller's server::start calls
  MaxConnections   \* bound on the clients that connect

ASSUME BoundsAssumption == MaxStarts \in Nat /\ MaxConnections \in Nat

VARIABLES
  acceptor,  \* "closed", "listening", or "unbound": open, but bind or
             \* listen failed (the port is taken), so accept fails at once
  socket,    \* server::socket_: "closed" or "open" (holds a connection)
  accepts,   \* multiset of pending accepts, AcceptStatus -> Nat
  conns,     \* connections the kernel handed to an accept so far
  sessions,  \* server_sessions started so far
  starts     \* server::start calls so far

vars == <<acceptor, socket, accepts, conns, sessions, starts>>

AcceptStatus == {"inflight", "ok", "aborted", "fail", "already_open"}

NoAccepts == [e \in AcceptStatus |-> 0]

\* Number of pending accepts.
Pending(b) == b["inflight"] + b["ok"] + b["aborted"] + b["fail"] + b["already_open"]

Take(b, e) == [b EXCEPT ![e] = @ - 1]

\* do_accept(): acceptor_.async_accept(socket_, handler) with the acceptor
\* and socket_ in the given states.
DoAccept(b, acc, sock) ==
  LET e == CASE acc = "closed"                     -> "fail"
             [] acc # "closed" /\ sock = "open"   -> "already_open"
             [] acc # "closed" /\ sock # "open"   -> "inflight"
  IN  [b EXCEPT ![e] = @ + 1]

\* acceptor_.close(): the accepts in flight complete with operation_aborted.
Abort(b) ==
  [b EXCEPT !["inflight"] = 0, !["aborted"] = b["aborted"] + b["inflight"]]

Init ==
  /\ acceptor = "closed"
  /\ socket = "closed"
  /\ accepts = NoAccepts
  /\ conns = 0 /\ sessions = 0 /\ starts = 0

\* server::start -> start_listening(): if the acceptor is not open, open it,
\* set reuse_address, bind and listen -- each failure is only logged -- and
\* call do_accept() whatever happened.
StartListening ==
  /\ acceptor = "closed"
  /\ starts < MaxStarts
  /\ \E acc \in {"listening", "unbound", "closed"} :
       /\ acceptor' = acc
       /\ accepts' = DoAccept(accepts, acc, socket)
  /\ starts' = starts + 1
  /\ UNCHANGED <<socket, conns, sessions>>

\* Variant of stop() that also closes socket_, releasing a connection
\* accepted under it.
StopClosesSocket ==
  /\ acceptor' = "closed"
  /\ accepts' = Abort(accepts)
  /\ socket' = "closed"
  /\ UNCHANGED <<conns, sessions, starts>>

\* server::stop(): acceptor_.close().
Stop ==
  /\ acceptor' = "closed"
  /\ accepts' = Abort(accepts)
  /\ UNCHANGED <<socket, conns, sessions, starts>>

\* A client connects and an accept in flight takes the connection: it fills
\* socket_, or, if socket_ is already open, fails with already_open and the
\* new connection is closed.
AcceptConnection ==
  /\ acceptor = "listening"
  /\ accepts["inflight"] > 0
  /\ conns < MaxConnections
  /\ IF socket = "closed"
     THEN socket' = "open" /\ accepts' = [Take(accepts, "inflight") EXCEPT !["ok"] = @ + 1]
     ELSE UNCHANGED socket /\ accepts' = [Take(accepts, "inflight") EXCEPT !["already_open"] = @ + 1]
  /\ conns' = conns + 1
  /\ UNCHANGED <<acceptor, sessions, starts>>

\* An accept in flight fails: on an acceptor that is not listening at once
\* (EINVAL), on a listening one when the process is out of descriptors
\* (EMFILE, ENFILE) or the connection was reset before it was accepted.
AcceptError ==
  /\ acceptor # "closed"
  /\ accepts["inflight"] > 0
  /\ accepts' = [Take(accepts, "inflight") EXCEPT !["fail"] = @ + 1]
  /\ UNCHANGED <<acceptor, socket, conns, sessions, starts>>

\* Variant without the is_open check: it re-arms on a closed acceptor.
AcceptHandlerNoOpenCheck(e) ==
  /\ accepts[e] > 0
  /\ IF e = "ok"
     THEN /\ socket' = "closed" /\ sessions' = sessions + 1
          /\ accepts' = DoAccept(Take(accepts, e), acceptor, "closed")
     ELSE accepts' = DoAccept(Take(accepts, e), acceptor, socket) /\ UNCHANGED <<socket, sessions>>
  /\ UNCHANGED <<acceptor, conns, starts>>

\* The handler of an accept that completed with e: if the acceptor is not
\* open it returns (socket_ is left as it is); on success socket_ is moved
\* into a started server_session; any other error is logged; then
\* do_accept() again.
AcceptHandler(e) ==
  /\ accepts[e] > 0
  /\ IF acceptor = "closed"
     THEN accepts' = Take(accepts, e) /\ UNCHANGED <<socket, sessions>>
     ELSE IF e = "ok"
     THEN /\ socket' = "closed" /\ sessions' = sessions + 1
          /\ accepts' = DoAccept(Take(accepts, e), acceptor, "closed")
     ELSE accepts' = DoAccept(Take(accepts, e), acceptor, socket) /\ UNCHANGED <<socket, sessions>>
  /\ UNCHANGED <<acceptor, conns, starts>>

Next ==
  \/ StartListening
  \/ Stop
  \/ AcceptConnection
  \/ AcceptError
  \/ \E e \in AcceptStatus \ {"inflight"} : AcceptHandler(e)

\* The io_service's worker threads run every completed accept's handler.
\* Clients, errors and the caller are not fair.
Fairness == \A e \in AcceptStatus \ {"inflight"} : WF_vars(AcceptHandler(e))

Spec == Init /\ [][Next]_vars

FairSpec == Spec /\ Fairness

-----------------------------------------------------------------------------
(***************************************************************************)
(* Properties.                                                             *)
(***************************************************************************)

TypeOK ==
  /\ acceptor \in {"closed", "listening", "unbound"}
  /\ socket \in {"closed", "open"}
  /\ accepts \in [AcceptStatus -> Nat]
  /\ conns \in 0..MaxConnections /\ sessions \in Nat
  /\ starts \in 0..MaxStarts

\* The server_session a successful accept's handler starts gets the
\* connection that accept took: while an accept's success is pending,
\* socket_ is open and no other success is pending, across stops, restarts
\* and duplicated accept loops.
AcceptedSocketOpen == accepts["ok"] > 0 => socket = "open" /\ accepts["ok"] = 1

\* Spec section 4.4: the listener runs one accept loop -- across stop and
\* start, at most one accept is waiting for a client at any time.
OneAcceptInFlight == accepts["inflight"] <= 1

\* Spec section 4.4: every accepted connection is handed to a started
\* server_session -- socket_ does not keep a connection for ever.
AcceptedConnectionGetsSession == (socket = "open") ~> (socket = "closed")

=============================================================================
