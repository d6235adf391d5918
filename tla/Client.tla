------------------------------- MODULE Client -------------------------------
(***************************************************************************)
(* The connector of micro_tcp's client (client.cpp): connect resolves the  *)
(* host, async_connect connects the client's one socket_ to it, and the    *)
(* handler moves socket_ into a new client_session that becomes           *)
(* active_session_.  Nothing is in a strand: the console thread may call   *)
(* connect again while an earlier call is resolving or connecting, and     *)
(* every call uses the same socket_.                                        *)
(*                                                                         *)
(* Boost.Asio's async_connect over the resolved endpoints (one here: the   *)
(* configured address) closes socket_ and then starts socket_.async_connect;*)
(* closing aborts a connect in flight on socket_.  When the connect        *)
(* completes, the composed operation reports operation_aborted if socket_  *)
(* is no longer open and otherwise the connect's own result.  The         *)
(* client_session's protocol is module Session's; here a session is       *)
(* recorded by the transport it was given.                                  *)
(***************************************************************************)
EXTENDS Naturals

CONSTANTS
  Calls,   \* the console's client_connect calls, each made at most once
  NoCall   \* no call

ASSUME CallsAssumption == NoCall \notin Calls

VARIABLES
  sock,    \* client::socket_: "closed", "connecting", "open" (opened, not
           \* connected: the connect failed) or "connected"
  owner,   \* the call whose connect is in flight on socket_, or NoCall
  call,    \* Calls -> where each call is, see CallState
  sess,    \* Calls -> the client_session a call's handler created: "none",
           \* the transport it was given, or "stopped"
  active   \* the call whose session is client::active_session_, or NoCall

cvars == <<sock, owner, call, sess, active>>

\* "resolving": async_resolve outstanding; "connecting": its connect in
\* flight (on socket_, or on a socket moved into a session); "connected",
\* "refused", "aborted": the connect completed so, the handler has not run.
CallState ==
  {"idle", "resolving", "connecting", "connected", "refused", "aborted", "done"}

SessionState == {"none", "connected", "connecting", "unconnected", "stopped"}

\* client::client(): socket_ and resolver_ fresh, active_session_ null.
CInit ==
  /\ sock = "closed" /\ owner = NoCall
  /\ call = [i \in Calls |-> "idle"]
  /\ sess = [i \in Calls |-> "none"]
  /\ active = NoCall

\* client::connect(host, port): resolver_.async_resolve.
Connect(i) ==
  /\ call[i] = "idle"
  /\ call' = [call EXCEPT ![i] = "resolving"]
  /\ UNCHANGED <<sock, owner, sess, active>>

\* The resolve handler.  On an error it returns.  Otherwise
\* async_connect(socket_, result): socket_.close(), which aborts a connect
\* in flight on socket_ (or drops a connection not yet moved), then
\* socket_.async_connect.
ResolveHandler(i) ==
  /\ call[i] = "resolving"
  /\ \/ call' = [call EXCEPT ![i] = "done"]
        /\ UNCHANGED <<sock, owner>>
     \/ call' = [j \in Calls |->
                   CASE j = i               -> "connecting"
                     [] j # i /\ j = owner   -> "aborted"
                     [] j # i /\ j # owner   -> call[j]]
        /\ sock' = "connecting"
        /\ owner' = i
  /\ UNCHANGED <<sess, active>>

\* Call i's connect completes: on socket_ it connects it, or fails and
\* leaves socket_ open; on a socket moved into a session it completes
\* either way and socket_ is not touched.
ConnectComplete(i) ==
  /\ call[i] = "connecting"
  /\ \E r \in {"connected", "refused"} : call' = [call EXCEPT ![i] = r]
  /\ IF owner = i
     THEN /\ sock' = IF call'[i] = "connected" THEN "connected" ELSE "open"
          /\ owner' = NoCall
     ELSE UNCHANGED <<sock, owner>>
  /\ UNCHANGED <<sess, active>>

\* Variant of the handler that keeps the session it has: a success while
\* active_session_ is set leaves the connection in socket_.
ConnectHandlerKeepsActive(i) ==
  /\ call[i] \in {"connected", "refused", "aborted"}
  /\ call' = [call EXCEPT ![i] = "done"]
  /\ IF call[i] = "connected" /\ sock # "closed" /\ active = NoCall
     THEN /\ sess' = [sess EXCEPT ![i] =
                        CASE sock = "connected"  -> "connected"
                          [] sock = "connecting" -> "connecting"
                          [] OTHER               -> "unconnected"]
          /\ active' = i
          /\ sock' = "closed" /\ owner' = NoCall
     ELSE UNCHANGED <<sock, owner, sess, active>>

\* The connect handler.  The composed operation turns any completion into
\* operation_aborted when socket_ is closed.  On success: active_session_ =
\* make_shared<client_session>(std::move(socket_), ...), then start();
\* socket_ is left closed and a connect in flight on it goes with it.
\* Otherwise the error is logged.
ConnectHandler(i) ==
  /\ call[i] \in {"connected", "refused", "aborted"}
  /\ call' = [call EXCEPT ![i] = "done"]
  /\ IF call[i] = "connected" /\ sock # "closed"
     THEN /\ sess' = [sess EXCEPT ![i] =
                        CASE sock = "connected"  -> "connected"
                          [] sock = "connecting" -> "connecting"
                          [] OTHER               -> "unconnected"]
          /\ active' = i
          /\ sock' = "closed" /\ owner' = NoCall
     ELSE UNCHANGED <<sock, owner, sess, active>>

\* session::is_alive(): the session's socket is open -- until it is stopped.
IsAlive(i) == sess[i] # "stopped"

\* client::is_connected(): active_session_ is set and alive.
IsConnected == active # NoCall /\ IsAlive(active)

\* client::disconnect(): if is_connected(), active_session_->stop(); then
\* active_session_.reset().
Disconnect ==
  /\ sess' = IF IsConnected
             THEN [sess EXCEPT ![active] = "stopped"]
             ELSE sess
  /\ active' = NoCall
  /\ UNCHANGED <<sock, owner, call>>

CNext ==
  \/ \E i \in Calls :
       Connect(i) \/ ResolveHandler(i) \/ ConnectComplete(i) \/ ConnectHandler(i)
  \/ Disconnect

\* The worker threads run every completed connect's handler.
CFairness == \A i \in Calls : WF_cvars(ConnectHandler(i))

CSpec == CInit /\ [][CNext]_cvars /\ CFairness

-----------------------------------------------------------------------------

CTypeOK ==
  /\ sock \in {"closed", "connecting", "open", "connected"}
  /\ owner \in Calls \cup {NoCall}
  /\ call \in [Calls -> CallState]
  /\ sess \in [Calls -> SessionState]
  /\ active \in Calls \cup {NoCall}

\* Spec section 4.4: the connector establishes the transport and, on
\* success, starts a client_session on it -- every session the connect
\* handler creates was given a connected socket.
SessionStartsOnConnection == \A i \in Calls : sess[i] \notin {"connecting", "unconnected"}

\* A connection established in socket_ always has a connect handler still
\* to run that will take it: no sequence of connects, completions and
\* handlers of several calls leaves a connection in socket_ that only a
\* later connect's close would release.
ConnectionAwaitsHandler ==
  sock = "connected" => \E i \in Calls : call[i] = "connected"

\* A connection established in socket_ does not stay there: the handler of
\* the connect that made it moves it into a session, or a later connect's
\* close drops it.
ConnectedSocketTaken == (sock = "connected") ~> (sock # "connected")

=============================================================================
