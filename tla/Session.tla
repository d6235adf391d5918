------------------------------ MODULE Session ------------------------------
(***************************************************************************)
(* The per-connection state machine of micro_tcp (class session and its    *)
(* two variants server_session and client_session).                       *)
(*                                                                         *)
(* A session owns one socket wrapped in an SSL stream.  Every operation on *)
(* the stream is asynchronous: do_X starts it, the transport completes it  *)
(* some time later with an error code, and the completion handler (wrapped *)
(* in the session's strand) runs on one of the io_manager's worker         *)
(* threads.  The model keeps the operations that are started and not yet   *)
(* handled in a multiset `pending`: an entry is "inflight" until the       *)
(* transport completes it, and then carries the error code its handler    *)
(* will see.  Handlers of one strand never run concurrently, but with more *)
(* than one worker thread the order in which completions reach the strand  *)
(* is not fixed, so any completed entry may be handled next.               *)
(*                                                                         *)
(* Error codes are abstracted to what the handlers tell apart:             *)
(*   "ok"      no error                                                    *)
(*   "fail"    any error that is neither operation_aborted nor of the SSL  *)
(*             category (eof, reset, bad_descriptor, ...)                  *)
(*   "ssl"     an error of the SSL category                                *)
(*   "aborted" operation_aborted, produced only by cancel() or close()     *)
(* The message buffers and the request/response handlers only transform   *)
(* data and are left out; formatting and logging (debug) too.              *)
(***************************************************************************)
EXTENDS Naturals

CONSTANTS
  Sessions,   \* identities of the sessions (model values)
  NoSession,  \* client::active_session_ when it holds no session
  Role,       \* "server" for server_sessions, "client" for client_sessions
  MaxSends    \* bound on the number of client::send calls the caller makes

ASSUME RoleAssumption == Role \in {"server", "client"}
ASSUME MaxSendsAssumption == MaxSends \in Nat
ASSUME NoSessionAssumption == NoSession \notin Sessions

VARIABLES
  sock,        \* per session: "unused" before it is constructed, then
               \* "open" or "closed" (socket().is_open())
  pending,     \* per session: multiset of started, not yet handled
               \* operations, a function Ops -> Nat
  closeHooks,  \* per session: number of times on_close_socket() has run
  stopped,     \* per session, history: session::stop() has been called
  active,      \* client::active_session_ (NoSession for a null pointer)
  sends        \* number of client::send calls made so far

vars == <<sock, pending, closeHooks, stopped, active, sends>>

(***************************************************************************)
(* The operations a session starts on its stream.  "flush" is the          *)
(* async_write of null_buffers that server_session issues after the        *)
(* secure shutdown.                                                         *)
(***************************************************************************)
DataKinds == {"read_header", "read_content", "write_header", "write_content"}
Transfers == {"handshake"} \cup DataKinds
Kinds     == Transfers \cup {"shutdown", "flush"}
Status    == {"inflight", "ok", "fail", "ssl", "aborted"}
Ops       == [kind : Kinds, st : Status]

Op(k, e) == [kind |-> k, st |-> e]

NoOps == [o \in Ops |-> 0]

\* Start the asynchronous operations of kinds S (each a do_X call).
Issue(b, S) ==
  [o \in Ops |-> IF o.st = "inflight" /\ o.kind \in S THEN b[o] + 1 ELSE b[o]]

\* The strand runs the handler of entry o: it leaves the multiset.
Take(b, o) == [b EXCEPT ![o] = @ - 1]

\* The transport completes an entry of kind k in flight with error code e.
Finish(b, k, e) ==
  [b EXCEPT ![Op(k, "inflight")] = @ - 1, ![Op(k, e)] = @ + 1]

\* socket().cancel() and socket().close() on an open socket: every
\* operation still in flight completes with operation_aborted.
Cancel(b) ==
  [o \in Ops |-> CASE o.st = "inflight" -> 0
                   [] o.st = "aborted"  -> b[o] + b[Op(o.kind, "inflight")]
                   [] OTHER             -> b[o]]

\* The error codes the transport may complete an operation of kind k on
\* session s with.  On a closed socket every operation fails with
\* bad_descriptor (an error outside the SSL category).
Outcomes(s, k) ==
  IF sock[s] = "closed" THEN {"fail"}
  ELSE IF k = "shutdown" THEN {"ok", "ssl"}
  ELSE {"ok", "fail"}

(***************************************************************************)
(* The hooks of the two variants after a successful transfer: the kinds   *)
(* of the operations each on_X starts.  The client starts nothing after    *)
(* the handshake (it waits for send) nor after the response (it calls      *)
(* handle_response and clears its buffers).                                *)
(***************************************************************************)
\* Variant with a pipelining bug: on_read_content also reads the next header.
ServerHookPipelined ==
  [handshake |-> {"read_header"}, read_header |-> {"read_content"},
   read_content |-> {"write_header", "read_header"},
   write_header |-> {"write_content"}, write_content |-> {"read_header"}]

ServerHook ==
  [handshake |-> {"read_header"}, read_header |-> {"read_content"},
   read_content |-> {"write_header"}, write_header |-> {"write_content"},
   write_content |-> {"read_header"}]

ClientHook ==
  [handshake |-> {}, write_header |-> {"write_content"},
   write_content |-> {"read_header"}, read_header |-> {"read_content"},
   read_content |-> {}]

Hook == IF Role = "server" THEN ServerHook ELSE ClientHook

-----------------------------------------------------------------------------
(***************************************************************************)
(* What a handler of session s does after its own entry has been taken     *)
(* out of the multiset, leaving b.  These leave the caller's variables     *)
(* (active, sends) to the action.                                          *)
(***************************************************************************)

\* Nothing beyond starting the operations already counted in b.
Continue(s, b) ==
  /\ pending' = [pending EXCEPT ![s] = b]
  /\ UNCHANGED <<sock, closeHooks, stopped>>

\* session::stop(): cancel the socket (an error on a closed socket is only
\* logged), then do_shutdown_secure_stream() starts async_shutdown.
Stop(s, b) ==
  /\ pending' = [pending EXCEPT ![s] =
                   Issue(IF sock[s] = "open" THEN Cancel(b) ELSE b, {"shutdown"})]
  /\ stopped' = [stopped EXCEPT ![s] = TRUE]
  /\ UNCHANGED <<sock, closeHooks>>

\* server_session::on_close_socket() and client_session::on_close_socket():
\* the hook only logs; closeHooks counts its runs.
OnCloseSocket(s) == [closeHooks EXCEPT ![s] = @ + 1]

\* session::do_close_socket(): close the socket; on_close_socket() runs
\* unless close reports an error.  Closing a closed socket succeeds.
DoCloseSocket(s, b) ==
  /\ sock' = [sock EXCEPT ![s] = "closed"]
  /\ pending' = [pending EXCEPT ![s] = IF sock[s] = "open" THEN Cancel(b) ELSE b]
  /\ \/ closeHooks' = OnCloseSocket(s)
     \/ sock[s] = "open" /\ UNCHANGED closeHooks
  /\ UNCHANGED stopped

\* Variant that forgets to close: on_shutdown_secure_stream only logs.
OnShutdownSecureStreamNoClose(s, b) ==
  IF Role = "server" THEN Continue(s, Issue(b, {"flush"})) ELSE Continue(s, b)

\* Variant that closes right after starting the null_buffers write
\* instead of in its handler.
OnShutdownSecureStreamEagerClose(s, b) ==
  IF Role = "server" THEN DoCloseSocket(s, Issue(b, {"flush"}))
  ELSE DoCloseSocket(s, b)

\* on_shutdown_secure_stream(): the server writes null_buffers and closes
\* in that write's handler; the client closes at once.
OnShutdownSecureStream(s, b) ==
  IF Role = "server" THEN Continue(s, Issue(b, {"flush"}))
  ELSE DoCloseSocket(s, b)

-----------------------------------------------------------------------------
(***************************************************************************)
(* Actions.  A handler runs on its session's strand; its entry must be in  *)
(* `pending` with a completion code.                                       *)
(***************************************************************************)

Init ==
  /\ sock = [s \in Sessions |-> "unused"]
  /\ pending = [s \in Sessions |-> NoOps]
  /\ closeHooks = [s \in Sessions |-> 0]
  /\ stopped = [s \in Sessions |-> FALSE]
  /\ active = NoSession
  /\ sends = 0

\* A session is constructed on a fresh connection and start() calls
\* do_secure_handshake: server::do_accept for a server, the connect
\* handler of client::connect for a client, which also replaces
\* active_session_ (whatever session it held).
Start(s) ==
  /\ sock[s] = "unused"
  /\ sock' = [sock EXCEPT ![s] = "open"]
  /\ pending' = [pending EXCEPT ![s] = Issue(NoOps, {"handshake"})]
  /\ active' = IF Role = "client" THEN s ELSE active
  /\ UNCHANGED <<closeHooks, stopped, sends>>

\* The transport completes an operation of kind k in flight on session s.
Complete(s, k) ==
  /\ pending[s][Op(k, "inflight")] > 0
  /\ \E e \in Outcomes(s, k) :
       pending' = [pending EXCEPT ![s] = Finish(pending[s], k, e)]
  /\ UNCHANGED <<sock, closeHooks, stopped, active, sends>>

\* Completion handler of do_secure_handshake: on success the variant's
\* on_secure_handshake, on operation_aborted nothing, on any other error
\* do_close_socket() without a secure shutdown.
HandshakeHandler(s) ==
  \E e \in Status \ {"inflight"} :
    LET b == Take(pending[s], Op("handshake", e))
    IN /\ pending[s][Op("handshake", e)] > 0
       /\ CASE e = "ok"      -> Continue(s, Issue(b, Hook["handshake"]))
            [] e = "aborted" -> Continue(s, b)
            [] OTHER         -> DoCloseSocket(s, b)
       /\ UNCHANGED <<active, sends>>

\* Variant that forgets to return after stop(): on an error the handler
\* stops the session and then runs the hook as well.
TransferHandlerNoReturn(s, k) ==
  \E e \in Status \ {"inflight"} :
    LET b == Take(pending[s], Op(k, e))
    IN /\ pending[s][Op(k, e)] > 0
       /\ CASE e = "ok"      -> Continue(s, Issue(b, Hook[k]))
            [] e = "aborted" -> Continue(s, b)
            [] OTHER         ->
                 /\ pending' = [pending EXCEPT ![s] =
                      Issue(Issue(IF sock[s] = "open" THEN Cancel(b) ELSE b,
                                  {"shutdown"}), Hook[k])]
                 /\ stopped' = [stopped EXCEPT ![s] = TRUE]
                 /\ UNCHANGED <<sock, closeHooks>>
       /\ UNCHANGED <<active, sends>>

\* Completion handlers of do_read_header, do_read_content, do_write_header
\* and do_write_content: on success the variant's hook, on
\* operation_aborted nothing, on any other error stop().
TransferHandler(s, k) ==
  \E e \in Status \ {"inflight"} :
    LET b == Take(pending[s], Op(k, e))
    IN /\ pending[s][Op(k, e)] > 0
       /\ CASE e = "ok"      -> Continue(s, Issue(b, Hook[k]))
            [] e = "aborted" -> Continue(s, b)
            [] OTHER         -> Stop(s, b)
       /\ UNCHANGED <<active, sends>>

\* Completion handler of do_shutdown_secure_stream: any error outside the
\* SSL category (success, eof, operation_aborted, ...) counts as a clean
\* shutdown; an SSL error closes the socket at once.
ShutdownHandler(s) ==
  \E e \in Status \ {"inflight"} :
    LET b == Take(pending[s], Op("shutdown", e))
    IN /\ pending[s][Op("shutdown", e)] > 0
       /\ IF e # "ssl" THEN OnShutdownSecureStream(s, b) ELSE DoCloseSocket(s, b)
       /\ UNCHANGED <<active, sends>>

\* Variant that closes only when the null_buffers write succeeded.
FlushHandlerOnlyOnSuccess(s) ==
  \E e \in Status \ {"inflight"} :
    LET b == Take(pending[s], Op("flush", e))
    IN /\ pending[s][Op("flush", e)] > 0
       /\ IF e = "ok" THEN DoCloseSocket(s, b) ELSE Continue(s, b)
       /\ UNCHANGED <<active, sends>>

\* Completion handler of server_session's null_buffers write: it closes
\* the socket whatever the error code.
FlushHandler(s) ==
  \E e \in Status \ {"inflight"} :
    /\ pending[s][Op("flush", e)] > 0
    /\ DoCloseSocket(s, Take(pending[s], Op("flush", e)))
    /\ UNCHANGED <<active, sends>>

\* client::send: if is_connected() (a session and an open socket),
\* client_session::send starts do_write_header -- whatever else is running.
Send ==
  /\ Role = "client"
  /\ active # NoSession
  /\ sock[active] = "open"
  /\ sends < MaxSends
  /\ pending' = [pending EXCEPT ![active] = Issue(pending[active], {"write_header"})]
  /\ sends' = sends + 1
  /\ UNCHANGED <<sock, closeHooks, stopped, active>>

\* client::disconnect: stop() if is_connected(), then reset active_session_.
Disconnect ==
  /\ Role = "client"
  /\ active # NoSession
  /\ IF sock[active] = "open" THEN Stop(active, pending[active])
     ELSE UNCHANGED <<sock, pending, closeHooks, stopped>>
  /\ active' = NoSession
  /\ UNCHANGED sends

Next ==
  \/ \E s \in Sessions : Start(s)
  \/ \E s \in Sessions, k \in Kinds : Complete(s, k)
  \/ \E s \in Sessions : HandshakeHandler(s)
  \/ \E s \in Sessions, k \in DataKinds : TransferHandler(s, k)
  \/ \E s \in Sessions : ShutdownHandler(s)
  \/ \E s \in Sessions : FlushHandler(s)
  \/ Send
  \/ Disconnect

\* The transport completes every operation eventually (the peer answers or
\* TCP reports an error), and the io_manager's worker threads run every
\* handler queued on a strand.  Connections and the caller are not fair.
Fairness ==
  \A s \in Sessions :
    /\ \A k \in Kinds : WF_vars(Complete(s, k))
    /\ WF_vars(HandshakeHandler(s))
    /\ \A k \in DataKinds : WF_vars(TransferHandler(s, k))
    /\ WF_vars(ShutdownHandler(s))
    /\ WF_vars(FlushHandler(s))

Spec == Init /\ [][Next]_vars

FairSpec == Spec /\ Fairness

-----------------------------------------------------------------------------
(***************************************************************************)
(* Properties.                                                             *)
(***************************************************************************)

TypeOK ==
  /\ sock \in [Sessions -> {"unused", "open", "closed"}]
  /\ pending \in [Sessions -> [Ops -> Nat]]
  /\ closeHooks \in [Sessions -> Nat]
  /\ stopped \in [Sessions -> BOOLEAN]
  /\ active \in Sessions \cup {NoSession}
  /\ sends \in 0..MaxSends

\* Entries standing for a handshake or frame transfer that is still going
\* on or whose handler will act on it (not cancelled).
LiveTransfers == {o \in Ops : o.kind \in Transfers /\ o.st # "aborted"}

\* The multiset b holds at most one live transfer entry, and only once.
AtMostOneLiveTransfer(b) ==
  \A o1, o2 \in LiveTransfers : b[o1] > 0 /\ b[o2] > 0 => o1 = o2 /\ b[o1] = 1

\* Spec section 5: a session has at most one outstanding handshake, read or
\* write at a time -- a handler starts the next transfer only from the
\* completion of the previous one, and nothing else starts one.
OneTransferInFlight == \A s \in Sessions : AtMostOneLiveTransfer(pending[s])

\* Spec sections 4.2 and 8: stop() on a session that is already stopping
\* has no further effect, and on_close_socket() fires at most once.
CloseHookAtMostOnce == \A s \in Sessions : closeHooks[s] <= 1

\* No handshake, read or write of a session is live once stop() has been
\* called on it: stop() ends the exchange -- it cancels what is in flight,
\* and no handler starts a transfer afterwards.
StopEndsTransfers ==
  \A s \in Sessions :
    stopped[s] => \A o \in LiveTransfers : pending[s][o] = 0

\* The life of a session as module SessionLifecycle sees it: a session not
\* yet constructed is new, a closed socket is final, and stop() makes a
\* running session stopping.
Lifecycle(s) ==
  CASE sock[s] = "unused"              -> "new"
    [] sock[s] = "closed"              -> "closed"
    [] sock[s] = "open" /\ stopped[s]  -> "stopping"
    [] sock[s] = "open" /\ ~stopped[s] -> "running"

Life == INSTANCE SessionLifecycle
          WITH life <- [s \in Sessions |-> Lifecycle(s)], hooks <- closeHooks

\* Spec sections 4.2 and 8: every session keeps the lifecycle promise of
\* SessionLifecycle -- started once, stopped at most from running, its
\* socket closed once for good, on_close_socket() only at that close.
LifecycleRefinement == Life!LSpec

\* Once stop() has been called on a session or its socket closed, the
\* socket ends up closed and no operation of the session is left pending,
\* so that the last shared_ptr, held by a handler, is released.
StoppedSessionIsReleased ==
  \A s \in Sessions :
    (stopped[s] \/ sock[s] = "closed")
      ~> (sock[s] = "closed" /\ pending[s] = NoOps)

=============================================================================
