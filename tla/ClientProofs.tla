---------------------------- MODULE ClientProofs ----------------------------
(***************************************************************************)
(* Proofs about the client's connector of module Client, for every set of  *)
(* client_connect calls.                                                    *)
(***************************************************************************)
EXTENDS Client, TLAPS

\* The connector's steps, without the fairness of its handlers.
CSafeSpec == CInit /\ [][CNext]_cvars

\* The connect in flight on socket_ belongs to a call that is connecting,
\* and socket_ is then connecting.
OwnerConnecting ==
  owner # NoCall => sock = "connecting" /\ call[owner] = "connecting"

\* The inductive invariant.
ClientInv == CTypeOK /\ OwnerConnecting /\ ConnectionAwaitsHandler

LEMMA ClientInvInit == CInit => ClientInv
BY CallsAssumption DEF CInit, ClientInv, CTypeOK, OwnerConnecting,
                       ConnectionAwaitsHandler, CallState, SessionState

LEMMA ClientInvStep == ClientInv /\ [CNext]_cvars => ClientInv'
<1> SUFFICES ASSUME ClientInv, [CNext]_cvars PROVE ClientInv'
  OBVIOUS
<1>. USE DEF ClientInv, CTypeOK, OwnerConnecting, ConnectionAwaitsHandler
<1>1. ASSUME NEW i \in Calls, Connect(i) PROVE ClientInv'
  BY <1>1 DEF Connect, CallState
<1>2. ASSUME NEW i \in Calls, ResolveHandler(i) PROVE ClientInv'
  <2>1. CASE call' = [call EXCEPT ![i] = "done"] /\ UNCHANGED <<sock, owner>>
    \* An unresolved call is not the owner, and not the connected one.
    BY <1>2, <2>1 DEF ResolveHandler, CallState
  <2>2. CASE /\ call' = [j \in Calls |->
                          CASE j = i               -> "connecting"
                            [] j # i /\ j = owner   -> "aborted"
                            [] j # i /\ j # owner   -> call[j]]
             /\ sock' = "connecting" /\ owner' = i
    <3>1. call' \in [Calls -> CallState]
      BY <2>2 DEF CallState
    <3>2. call'[i] = "connecting"
      BY <2>2
    <3>. QED
      BY <1>2, <2>2, <3>1, <3>2 DEF ResolveHandler
  <2>. QED
    BY <1>2, <2>1, <2>2 DEF ResolveHandler
<1>3. ASSUME NEW i \in Calls, ConnectComplete(i) PROVE ClientInv'
  <2>1. PICK r \in {"connected", "refused"} : call' = [call EXCEPT ![i] = r]
    BY <1>3 DEF ConnectComplete
  <2>2. CASE owner = i
    BY <1>3, <2>1, <2>2, CallsAssumption DEF ConnectComplete, CallState
  <2>3. CASE owner # i
    \* socket_ is not touched; a connected socket_ keeps its handler,
    \* which is not call i's, as call i was connecting.
    BY <1>3, <2>1, <2>3 DEF ConnectComplete, CallState
  <2>. QED
    BY <2>2, <2>3
<1>4. ASSUME NEW i \in Calls, ConnectHandler(i) PROVE ClientInv'
  <2>1. CASE call[i] = "connected" /\ sock # "closed"
    \* The session takes socket_; the connect on it goes with it.
    BY <1>4, <2>1, CallsAssumption DEF ConnectHandler, CallState, SessionState
  <2>2. CASE ~(call[i] = "connected" /\ sock # "closed")
    \* Nothing but call i changes; call i is not the owner, and it holds
    \* socket_'s connection only if socket_ is closed.
    BY <1>4, <2>2 DEF ConnectHandler, CallState
  <2>. QED
    BY <2>1, <2>2
<1>5. CASE Disconnect
  BY <1>5 DEF Disconnect, IsConnected, IsAlive, SessionState
<1>6. CASE UNCHANGED cvars
  BY <1>6 DEF cvars
<1>. QED
  BY <1>1, <1>2, <1>3, <1>4, <1>5, <1>6 DEF CNext

\* For any set of client_connect calls, in any order of connects, resolves,
\* completions, handlers and disconnects, a connection that async_connect
\* established in socket_ is always awaited by a connect handler that will
\* move it into a client_session: the connector cannot strand it there.
THEOREM ClientConnectionAwaitsHandler == CSafeSpec => []ConnectionAwaitsHandler
<1>1. ClientInv => ConnectionAwaitsHandler
  BY DEF ClientInv
<1>. QED
  BY <1>1, ClientInvInit, ClientInvStep, PTL DEF CSafeSpec

=============================================================================
