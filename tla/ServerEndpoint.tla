---------------------------- MODULE ServerEndpoint ----------------------------
(***************************************************************************)
(* The server's endpoint configuration (server.cpp: set_address, set_port, *)
(* set_endpoint, port_in_use) together with the accept loop of module      *)
(* Listener.  The console thread of main.cpp calls the setters at any     *)
(* time; each is meant to refuse while the acceptor is open.  start binds  *)
(* the acceptor to the endpoint; the bind fails on a port another service  *)
(* holds.                                                                   *)
(***************************************************************************)
EXTENDS Listener

CONSTANTS
  Addresses,  \* the addresses the console may enter (valid ones)
  Ports,      \* the ports the console may enter
  BusyPorts   \* the ports another service listens on

ASSUME EndpointAssumption ==
  Addresses # {} /\ Ports # {} /\ BusyPorts \subseteq Ports

VARIABLES
  endpoint,  \* server::endpoint_, [addr, port]
  bound      \* the endpoint the open acceptor is bound to

evars == <<endpoint, bound>>

Endpoints == [addr : Addresses, port : Ports]

EInit ==
  /\ Init
  /\ endpoint \in Endpoints
  /\ bound = endpoint

\* start_listening(): as in Listener, the bind taking the endpoint; it
\* fails (the acceptor stays open, unbound) on a port in use.
EStartListening ==
  /\ StartListening
  /\ endpoint.port \in BusyPorts => acceptor' # "listening"
  /\ bound' = endpoint
  /\ UNCHANGED endpoint

\* server::set_address(address): endpoint_.address(address), then, if the
\* acceptor is open, log and return false; else assign again and return
\* true.  (The string overload first parses the address; a malformed one
\* returns false without a change.)
SetAddress(a) ==
  /\ endpoint' = [endpoint EXCEPT !.addr = a]
  /\ UNCHANGED bound

\* server::port_in_use(port): bind a fresh acceptor; address_in_use.
PortInUse(p) == p \in BusyPorts

\* server::set_port(port): refused while the acceptor is open or when the
\* port is in use.
SetPort(p) ==
  /\ acceptor = "closed"
  /\ ~PortInUse(p)
  /\ endpoint' = [endpoint EXCEPT !.port = p]
  /\ UNCHANGED bound

\* server::set_endpoint(endpoint): refused while the acceptor is open.  The
\* console of main.cpp never calls it.
SetEndpoint(ep) ==
  /\ acceptor = "closed"
  /\ endpoint' = ep
  /\ UNCHANGED bound

=============================================================================
