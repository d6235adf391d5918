--------------------------- MODULE ListenerProofs ---------------------------
(***************************************************************************)
(* Proofs about the accept loop of module Listener, for every bound on the *)
(* starts and the connections.                                              *)
(***************************************************************************)
EXTENDS Listener, TLAPS

-----------------------------------------------------------------------------
(***************************************************************************)
(* The multiset operators keep a multiset, and only Take changes the count *)
(* of successes.                                                            *)
(***************************************************************************)

LEMMA DoAcceptKeepsOk ==
  ASSUME NEW b \in [AcceptStatus -> Nat], NEW acc, NEW sock
  PROVE  /\ DoAccept(b, acc, sock) \in [AcceptStatus -> Nat]
         /\ DoAccept(b, acc, sock)["ok"] = b["ok"]
BY DEF DoAccept, AcceptStatus

LEMMA TakeOk ==
  ASSUME NEW b \in [AcceptStatus -> Nat], NEW e \in AcceptStatus, b[e] > 0
  PROVE  /\ Take(b, e) \in [AcceptStatus -> Nat]
         /\ Take(b, e)["ok"] = IF e = "ok" THEN b["ok"] - 1 ELSE b["ok"]
BY DEF Take

LEMMA AbortKeepsOk ==
  ASSUME NEW b \in [AcceptStatus -> Nat]
  PROVE  /\ Abort(b) \in [AcceptStatus -> Nat]
         /\ Abort(b)["ok"] = b["ok"]
BY DEF Abort, AcceptStatus

-----------------------------------------------------------------------------

\* The inductive invariant: the types, and a pending success holds socket_.
IInv == TypeOK /\ AcceptedSocketOpen

\* Whatever the order of stops, restarts, connections, accept errors and
\* handlers -- duplicated accept loops included -- a successful accept's
\* handler always finds socket_ open with the connection it accepted, and
\* no second success is pending that could have overwritten it.
THEOREM AcceptedSocketOpenInvariant == Spec => []AcceptedSocketOpen
<1>1. Init => IInv
  BY BoundsAssumption DEF Init, IInv, TypeOK, AcceptedSocketOpen, NoAccepts, AcceptStatus
<1>2. IInv /\ [Next]_vars => IInv'
  <2> SUFFICES ASSUME IInv, [Next]_vars PROVE IInv'
    OBVIOUS
  <2>. USE DEF IInv, TypeOK, AcceptedSocketOpen
  <2>1. CASE StartListening
    <3>1. PICK acc \in {"listening", "unbound", "closed"} :
            acceptor' = acc /\ accepts' = DoAccept(accepts, acc, socket)
      BY <2>1 DEF StartListening
    <3>2. accepts' \in [AcceptStatus -> Nat] /\ accepts'["ok"] = accepts["ok"]
      BY <3>1, DoAcceptKeepsOk
    <3>3. starts' \in 0..MaxStarts /\ UNCHANGED <<socket, conns, sessions>>
      BY <2>1, BoundsAssumption DEF StartListening
    <3>. QED
      BY <3>1, <3>2, <3>3
  <2>2. CASE Stop
    BY <2>2, AbortKeepsOk DEF Stop
  <2>3. CASE AcceptConnection
    <3>1. "inflight" \in AcceptStatus /\ accepts["inflight"] > 0
      BY <2>3 DEF AcceptConnection, AcceptStatus
    <3>2. Take(accepts, "inflight") \in [AcceptStatus -> Nat]
          /\ Take(accepts, "inflight")["ok"] = accepts["ok"]
      BY <3>1, TakeOk
    <3>3. conns' \in 0..MaxConnections /\ UNCHANGED <<acceptor, sessions, starts>>
      BY <2>3, BoundsAssumption DEF AcceptConnection
    <3>4. CASE socket = "closed"
      <4>1. accepts["ok"] = 0
        BY <3>4 DEF AcceptStatus
      <4>. QED
        BY <2>3, <3>2, <3>3, <3>4, <4>1 DEF AcceptConnection, AcceptStatus
    <3>5. CASE socket # "closed"
      BY <2>3, <3>2, <3>3, <3>5 DEF AcceptConnection, AcceptStatus
    <3>. QED
      BY <3>4, <3>5
  <2>4. CASE AcceptError
    <3>1. "inflight" \in AcceptStatus /\ accepts["inflight"] > 0
      BY <2>4 DEF AcceptError, AcceptStatus
    <3>2. Take(accepts, "inflight") \in [AcceptStatus -> Nat]
          /\ Take(accepts, "inflight")["ok"] = accepts["ok"]
      BY <3>1, TakeOk
    <3>. QED
      BY <2>4, <3>2 DEF AcceptError, AcceptStatus
  <2>5. ASSUME NEW e \in AcceptStatus \ {"inflight"}, AcceptHandler(e)
        PROVE  IInv'
    <3>. DEFINE b == Take(accepts, e)
    <3>1. b \in [AcceptStatus -> Nat]
          /\ b["ok"] = IF e = "ok" THEN accepts["ok"] - 1 ELSE accepts["ok"]
      BY <2>5, TakeOk DEF AcceptHandler
    <3>2. CASE acceptor = "closed"
      BY <2>5, <3>1, <3>2 DEF AcceptHandler
    <3>3. CASE acceptor # "closed" /\ e = "ok"
      <4>1. accepts' = DoAccept(b, acceptor, "closed")
            /\ socket' = "closed" /\ sessions' = sessions + 1
        BY <2>5, <3>3 DEF AcceptHandler
      <4>2. accepts'["ok"] = 0 /\ accepts' \in [AcceptStatus -> Nat]
        BY <2>5, <3>1, <3>3, <4>1, DoAcceptKeepsOk
      <4>. QED
        BY <2>5, <4>1, <4>2, <3>3 DEF AcceptHandler
    <3>4. CASE acceptor # "closed" /\ e # "ok"
      <4>1. accepts' = DoAccept(b, acceptor, socket)
            /\ UNCHANGED <<socket, sessions>>
        BY <2>5, <3>4 DEF AcceptHandler
      <4>2. accepts'["ok"] = accepts["ok"] /\ accepts' \in [AcceptStatus -> Nat]
        BY <3>1, <3>4, <4>1, DoAcceptKeepsOk
      <4>. QED
        BY <2>5, <4>1, <4>2 DEF AcceptHandler
    <3>. QED
      BY <3>2, <3>3, <3>4
  <2>6. CASE UNCHANGED vars
    BY <2>6 DEF vars
  <2>. QED
    BY <2>1, <2>2, <2>3, <2>4, <2>5, <2>6 DEF Next
<1>3. IInv => AcceptedSocketOpen
  BY DEF IInv
<1>. QED
  BY <1>1, <1>2, <1>3, PTL DEF Spec

=============================================================================
