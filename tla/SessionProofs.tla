--------------------------- MODULE SessionProofs ---------------------------
(***************************************************************************)
(* Proofs about the session state machine of module Session, for every    *)
(* set of sessions and every bound on the caller's sends.                  *)
(***************************************************************************)
EXTENDS Session, TLAPS

-----------------------------------------------------------------------------
(***************************************************************************)
(* The multiset operators keep a multiset a multiset.                      *)
(***************************************************************************)

LEMMA OpInOps ==
  ASSUME NEW k \in Kinds, NEW e \in Status
  PROVE  Op(k, e) \in Ops
BY DEF Op, Ops

LEMMA IssueType ==
  ASSUME NEW b \in [Ops -> Nat], NEW S
  PROVE  Issue(b, S) \in [Ops -> Nat]
BY DEF Issue

LEMMA TakeType ==
  ASSUME NEW b \in [Ops -> Nat], NEW o \in Ops, b[o] > 0
  PROVE  Take(b, o) \in [Ops -> Nat]
BY DEF Take

LEMMA FinishType ==
  ASSUME NEW b \in [Ops -> Nat], NEW k \in Kinds, NEW e \in Status,
         b[Op(k, "inflight")] > 0
  PROVE  Finish(b, k, e) \in [Ops -> Nat]
<1>1. Op(k, "inflight") \in Ops /\ Op(k, e) \in Ops
  BY OpInOps DEF Status
<1>. QED
  BY <1>1 DEF Finish

LEMMA UpdateType ==
  ASSUME NEW p \in [Sessions -> [Ops -> Nat]], NEW s \in Sessions,
         NEW b \in [Ops -> Nat]
  PROVE  [p EXCEPT ![s] = b] \in [Sessions -> [Ops -> Nat]]
OBVIOUS

LEMMA CancelType ==
  ASSUME NEW b \in [Ops -> Nat]
  PROVE  Cancel(b) \in [Ops -> Nat]
<1>1. \A o \in Ops : Op(o.kind, "inflight") \in Ops
  BY DEF Ops, Op, Status
<1>. QED
  BY <1>1 DEF Cancel

-----------------------------------------------------------------------------
(***************************************************************************)
(* Type correctness.                                                       *)
(***************************************************************************)

\* Every reachable state has the types TypeOK gives: per session a socket
\* state and a multiset of pending operations, a count of close hooks, and
\* a send count within MaxSends.
THEOREM TypeCorrect == Spec => []TypeOK
<1>1. Init => TypeOK
  BY MaxSendsAssumption, NoSessionAssumption DEF Init, TypeOK, NoOps
<1>2. TypeOK /\ [Next]_vars => TypeOK'
  <2> SUFFICES ASSUME TypeOK, [Next]_vars PROVE TypeOK'
    OBVIOUS
  <2>. USE DEF TypeOK
  <2>1. ASSUME NEW s \in Sessions, Start(s) PROVE TypeOK'
    BY <2>1, IssueType DEF Start, NoOps
  <2>2. ASSUME NEW s \in Sessions, NEW k \in Kinds, Complete(s, k) PROVE TypeOK'
    <3>1. PICK e \in Outcomes(s, k) :
            pending' = [pending EXCEPT ![s] = Finish(pending[s], k, e)]
      BY <2>2 DEF Complete
    <3>2. e \in Status
      BY DEF Outcomes, Status
    <3>3. Finish(pending[s], k, e) \in [Ops -> Nat]
      BY <2>2, <3>2, FinishType DEF Complete
    <3>4. pending' \in [Sessions -> [Ops -> Nat]]
      BY <3>1, <3>3, UpdateType
    <3>5. UNCHANGED <<sock, closeHooks, stopped, active, sends>>
      BY <2>2 DEF Complete
    <3>. QED
      BY <3>4, <3>5
  <2>3. ASSUME NEW s \in Sessions, NEW b \in [Ops -> Nat],
               Continue(s, b) \/ Stop(s, b) \/ DoCloseSocket(s, b),
               UNCHANGED <<active, sends>>
        PROVE  TypeOK'
    <3>1. /\ Issue(Cancel(b), {"shutdown"}) \in [Ops -> Nat]
          /\ Issue(b, {"shutdown"}) \in [Ops -> Nat]
          /\ Cancel(b) \in [Ops -> Nat]
      BY IssueType, CancelType
    <3>2. CASE Continue(s, b)
      BY <2>3, <3>2 DEF Continue
    <3>3. CASE Stop(s, b)
      BY <2>3, <3>1, <3>3 DEF Stop
    <3>4. CASE DoCloseSocket(s, b)
      BY <2>3, <3>1, <3>4 DEF DoCloseSocket, OnCloseSocket
    <3>. QED
      BY <2>3, <3>2, <3>3, <3>4
  <2>4. ASSUME NEW s \in Sessions, NEW k \in Kinds, NEW e \in Status,
               pending[s][Op(k, e)] > 0
        PROVE  Take(pending[s], Op(k, e)) \in [Ops -> Nat]
    BY <2>4, TakeType, OpInOps
  <2>5. ASSUME NEW s \in Sessions, HandshakeHandler(s) PROVE TypeOK'
    <3>1. PICK e \in Status \ {"inflight"} :
            LET b == Take(pending[s], Op("handshake", e))
            IN /\ pending[s][Op("handshake", e)] > 0
               /\ CASE e = "ok"      -> Continue(s, Issue(b, Hook["handshake"]))
                    [] e = "aborted" -> Continue(s, b)
                    [] OTHER         -> DoCloseSocket(s, b)
               /\ UNCHANGED <<active, sends>>
      BY <2>5 DEF HandshakeHandler
    <3>2. Take(pending[s], Op("handshake", e)) \in [Ops -> Nat]
      BY <3>1, <2>4 DEF Kinds, Transfers
    <3>. QED
      BY <3>1, <3>2, <2>3, IssueType
  <2>6. ASSUME NEW s \in Sessions, NEW k \in DataKinds, TransferHandler(s, k)
        PROVE TypeOK'
    <3>1. PICK e \in Status \ {"inflight"} :
            LET b == Take(pending[s], Op(k, e))
            IN /\ pending[s][Op(k, e)] > 0
               /\ CASE e = "ok"      -> Continue(s, Issue(b, Hook[k]))
                    [] e = "aborted" -> Continue(s, b)
                    [] OTHER         -> Stop(s, b)
               /\ UNCHANGED <<active, sends>>
      BY <2>6 DEF TransferHandler
    <3>2. Take(pending[s], Op(k, e)) \in [Ops -> Nat]
      BY <3>1, <2>4 DEF Kinds, Transfers
    <3>. QED
      BY <3>1, <3>2, <2>3, IssueType
  <2>7. ASSUME NEW s \in Sessions, ShutdownHandler(s) PROVE TypeOK'
    <3>1. PICK e \in Status \ {"inflight"} :
            LET b == Take(pending[s], Op("shutdown", e))
            IN /\ pending[s][Op("shutdown", e)] > 0
               /\ IF e # "ssl" THEN OnShutdownSecureStream(s, b)
                  ELSE DoCloseSocket(s, b)
               /\ UNCHANGED <<active, sends>>
      BY <2>7 DEF ShutdownHandler
    <3>2. Take(pending[s], Op("shutdown", e)) \in [Ops -> Nat]
      BY <3>1, <2>4 DEF Kinds
    <3>. QED
      BY <3>1, <3>2, <2>3, IssueType DEF OnShutdownSecureStream
  <2>8. ASSUME NEW s \in Sessions, FlushHandler(s) PROVE TypeOK'
    <3>1. PICK e \in Status \ {"inflight"} :
            /\ pending[s][Op("flush", e)] > 0
            /\ DoCloseSocket(s, Take(pending[s], Op("flush", e)))
            /\ UNCHANGED <<active, sends>>
      BY <2>8 DEF FlushHandler
    <3>. QED
      BY <3>1, <2>4, <2>3 DEF Kinds
  <2>9. CASE Send
    <3>1. active \in Sessions
      BY <2>9 DEF Send
    <3>2. Issue(pending[active], {"write_header"}) \in [Ops -> Nat]
      BY <3>1, IssueType
    <3>3. pending' \in [Sessions -> [Ops -> Nat]]
      BY <2>9, <3>1, <3>2, UpdateType DEF Send
    <3>4. sends' \in 0..MaxSends
      BY <2>9, MaxSendsAssumption DEF Send
    <3>5. UNCHANGED <<sock, closeHooks, stopped, active>>
      BY <2>9 DEF Send
    <3>. QED
      BY <3>3, <3>4, <3>5
  <2>10. CASE Disconnect
    <3>1. active \in Sessions
      BY <2>10 DEF Disconnect
    <3>2. CASE sock[active] = "open"
      <4>1. Stop(active, pending[active]) /\ active' = NoSession /\ UNCHANGED sends
        BY <2>10, <3>2 DEF Disconnect
      <4>2. Issue(Cancel(pending[active]), {"shutdown"}) \in [Ops -> Nat]
        BY <3>1, IssueType, CancelType
      <4>3. pending' \in [Sessions -> [Ops -> Nat]]
        BY <3>1, <3>2, <4>1, <4>2, UpdateType DEF Stop
      <4>4. /\ stopped' = [stopped EXCEPT ![active] = TRUE]
            /\ UNCHANGED <<sock, closeHooks>>
        BY <4>1 DEF Stop
      <4>5. stopped' \in [Sessions -> BOOLEAN]
        BY <3>1, <4>4
      <4>. QED
        BY <4>1, <4>3, <4>4, <4>5
    <3>3. CASE sock[active] # "open"
      BY <2>10, <3>3 DEF Disconnect
    <3>. QED
      BY <3>2, <3>3
  <2>11. CASE UNCHANGED vars
    BY <2>11 DEF vars
  <2>. QED
    BY <2>1, <2>2, <2>5, <2>6, <2>7, <2>8, <2>9, <2>10, <2>11 DEF Next
<1>. QED
  BY <1>1, <1>2, PTL DEF Spec

-----------------------------------------------------------------------------
(***************************************************************************)
(* One transfer at a time on a server session.                              *)
(***************************************************************************)

\* Every live transfer entry of c is at most as frequent as in b.
LiveLeq(c, b) == \A o \in LiveTransfers : c[o] <= b[o]

\* No live transfer entry at all.
NoLive(b) == \A o \in LiveTransfers : b[o] = 0

LEMMA LiveInOps == LiveTransfers \subseteq Ops
BY DEF LiveTransfers

LEMMA LiveLeqAtMostOne ==
  ASSUME NEW b \in [Ops -> Nat], NEW c \in [Ops -> Nat],
         AtMostOneLiveTransfer(b), LiveLeq(c, b)
  PROVE  AtMostOneLiveTransfer(c)
BY LiveInOps DEF AtMostOneLiveTransfer, LiveLeq

LEMMA TakeLeq ==
  ASSUME NEW b \in [Ops -> Nat], NEW o \in Ops
  PROVE  LiveLeq(Take(b, o), b)
BY DEF LiveLeq, Take, LiveTransfers

LEMMA CancelLeq ==
  ASSUME NEW b \in [Ops -> Nat]
  PROVE  LiveLeq(Cancel(b), b)
BY DEF LiveLeq, Cancel, LiveTransfers

\* Starting operations that are not transfers (shutdown, flush).
LEMMA IssueOtherLeq ==
  ASSUME NEW b \in [Ops -> Nat], NEW S, S \cap Transfers = {}
  PROVE  LiveLeq(Issue(b, S), b)
BY DEF LiveLeq, Issue, LiveTransfers

LEMMA LiveLeqTrans ==
  ASSUME NEW a \in [Ops -> Nat], NEW b \in [Ops -> Nat], NEW c \in [Ops -> Nat],
         LiveLeq(a, b), LiveLeq(b, c)
  PROVE  LiveLeq(a, c)
BY LiveInOps DEF LiveLeq

\* Handling the one live transfer entry leaves no live transfer.
LEMMA TakeLive ==
  ASSUME NEW b \in [Ops -> Nat], AtMostOneLiveTransfer(b),
         NEW o \in LiveTransfers, b[o] > 0
  PROVE  NoLive(Take(b, o))
BY DEF AtMostOneLiveTransfer, NoLive, Take, LiveTransfers

\* Starting one transfer when none is live leaves exactly one.
LEMMA IssueOne ==
  ASSUME NEW b \in [Ops -> Nat], NoLive(b), NEW n \in Transfers
  PROVE  AtMostOneLiveTransfer(Issue(b, {n}))
BY DEF AtMostOneLiveTransfer, NoLive, Issue, LiveTransfers, Ops, Status

\* The transport completing an entry moves, or cancels, a live transfer.
LEMMA FinishAtMostOne ==
  ASSUME NEW b \in [Ops -> Nat], AtMostOneLiveTransfer(b),
         NEW k \in Kinds, NEW e \in Status \ {"inflight"},
         b[Op(k, "inflight")] > 0
  PROVE  AtMostOneLiveTransfer(Finish(b, k, e))
<1>1. Op(k, "inflight") \in Ops /\ Op(k, e) \in Ops /\ Op(k, "inflight") # Op(k, e)
  BY OpInOps DEF Op, Status
<1>2. CASE k \notin Transfers \/ e = "aborted"
  <2>1. LiveLeq(Finish(b, k, e), b)
    BY <1>1, <1>2 DEF LiveLeq, Finish, LiveTransfers, Op
  <2>. QED
    BY <2>1, <1>1, FinishType, LiveLeqAtMostOne
<1>3. CASE k \in Transfers /\ e # "aborted"
  <2>1. Op(k, "inflight") \in LiveTransfers /\ Op(k, e) \in LiveTransfers
    BY <1>1, <1>3 DEF LiveTransfers, Op
  <2>2. \A o \in LiveTransfers : o # Op(k, "inflight") => b[o] = 0
    BY <2>1, LiveInOps DEF AtMostOneLiveTransfer
  <2>3. b[Op(k, "inflight")] = 1
    BY <2>1 DEF AtMostOneLiveTransfer
  <2>. QED
    BY <1>1, <2>1, <2>2, <2>3 DEF AtMostOneLiveTransfer, Finish, LiveTransfers
<1>. QED
  BY <1>2, <1>3

LEMMA UpdateAtMostOne ==
  ASSUME NEW p \in [Sessions -> [Ops -> Nat]],
         \A t \in Sessions : AtMostOneLiveTransfer(p[t]),
         NEW s \in Sessions, NEW c, AtMostOneLiveTransfer(c)
  PROVE  \A t \in Sessions : AtMostOneLiveTransfer([p EXCEPT ![s] = c][t])
OBVIOUS

\* The server's hooks start exactly one transfer after each transfer.
LEMMA ServerHookOne ==
  ASSUME Role = "server", NEW k \in Transfers
  PROVE  \E n \in Transfers : Hook[k] = {n}
BY DEF Hook, ServerHook, Transfers, DataKinds

\* Spec section 5 for server_session: every reachable state has at most
\* one handshake, read or write of a session live at a time, because each
\* on_X hook of server_session starts exactly one next transfer and only
\* from the completion of the previous one, and stop() / do_close_socket()
\* only cancel transfers and start non-transfers.
THEOREM ServerOneTransferInFlight ==
  ASSUME Role = "server"
  PROVE  Spec => []OneTransferInFlight
<1>1. Init => OneTransferInFlight
  BY DEF Init, OneTransferInFlight, AtMostOneLiveTransfer, NoOps, LiveTransfers
<1>2. TypeOK /\ OneTransferInFlight /\ [Next]_vars => OneTransferInFlight'
  <2> SUFFICES ASSUME TypeOK, OneTransferInFlight, [Next]_vars
               PROVE  OneTransferInFlight'
    OBVIOUS
  <2>0. pending \in [Sessions -> [Ops -> Nat]]
        /\ \A t \in Sessions : AtMostOneLiveTransfer(pending[t])
    BY DEF TypeOK, OneTransferInFlight
  <2>1. ASSUME NEW s \in Sessions, NEW c, AtMostOneLiveTransfer(c),
               pending' = [pending EXCEPT ![s] = c]
        PROVE  OneTransferInFlight'
    BY <2>0, <2>1, UpdateAtMostOne DEF OneTransferInFlight
  <2>2. ASSUME NEW s \in Sessions, NEW b \in [Ops -> Nat],
               AtMostOneLiveTransfer(b),
               Continue(s, b) \/ Stop(s, b) \/ DoCloseSocket(s, b)
        PROVE  OneTransferInFlight'
    <3>1. {"shutdown"} \cap Transfers = {}
      BY DEF Transfers, DataKinds
    <3>2. AtMostOneLiveTransfer(Cancel(b))
      BY <2>2, CancelLeq, CancelType, LiveLeqAtMostOne
    <3>3. AtMostOneLiveTransfer(Issue(b, {"shutdown"}))
      BY <2>2, <3>1, IssueOtherLeq, IssueType, LiveLeqAtMostOne
    <3>4. AtMostOneLiveTransfer(Issue(Cancel(b), {"shutdown"}))
      BY <3>1, <3>2, CancelType, IssueOtherLeq, IssueType, LiveLeqAtMostOne
    <3>5. CASE Continue(s, b)
      BY <2>1, <2>2, <3>5 DEF Continue
    <3>6. CASE Stop(s, b)
      BY <2>1, <3>3, <3>4, <3>6 DEF Stop
    <3>7. CASE DoCloseSocket(s, b)
      BY <2>1, <3>2, <2>2, <3>7 DEF DoCloseSocket, OnCloseSocket
    <3>. QED
      BY <2>2, <3>5, <3>6, <3>7
  <2>3. ASSUME NEW s \in Sessions, NEW o \in Ops
        PROVE  /\ Take(pending[s], o) \in [Ops -> Nat] \/ pending[s][o] = 0
               /\ AtMostOneLiveTransfer(Take(pending[s], o)) \/ pending[s][o] = 0
    BY <2>0, TakeType, TakeLeq, LiveLeqAtMostOne
  <2>4. ASSUME NEW s \in Sessions, NEW k \in Transfers, NEW o \in Ops,
               o = Op(k, "ok"), pending[s][o] > 0
        PROVE  AtMostOneLiveTransfer(Issue(Take(pending[s], o), Hook[k]))
    <3>1. PICK n \in Transfers : Hook[k] = {n}
      BY ServerHookOne
    <3>2. o \in LiveTransfers
      BY <2>4 DEF LiveTransfers, Op
    <3>3. NoLive(Take(pending[s], o))
      BY <2>0, <2>4, <3>2, TakeLive
    <3>. QED
      BY <2>0, <2>4, <3>1, <3>3, TakeType, IssueOne
  <2>5. ASSUME NEW s \in Sessions, Start(s) PROVE OneTransferInFlight'
    <3>1. NoLive(NoOps) /\ NoOps \in [Ops -> Nat]
      BY DEF NoLive, NoOps, LiveTransfers
    <3>2. AtMostOneLiveTransfer(Issue(NoOps, {"handshake"}))
      BY <3>1, IssueOne DEF Transfers
    <3>. QED
      BY <2>1, <2>5, <3>2 DEF Start
  <2>6. ASSUME NEW s \in Sessions, NEW k \in Kinds, Complete(s, k)
        PROVE  OneTransferInFlight'
    <3>1. PICK e \in Outcomes(s, k) :
            pending' = [pending EXCEPT ![s] = Finish(pending[s], k, e)]
      BY <2>6 DEF Complete
    <3>2. e \in Status \ {"inflight"}
      BY DEF Outcomes, Status
    <3>3. AtMostOneLiveTransfer(Finish(pending[s], k, e))
      BY <2>0, <2>6, <3>2, FinishAtMostOne DEF Complete
    <3>. QED
      BY <2>1, <3>1, <3>3
  <2>7. ASSUME NEW s \in Sessions, HandshakeHandler(s) PROVE OneTransferInFlight'
    <3>1. PICK e \in Status \ {"inflight"} :
            LET b == Take(pending[s], Op("handshake", e))
            IN /\ pending[s][Op("handshake", e)] > 0
               /\ CASE e = "ok"      -> Continue(s, Issue(b, Hook["handshake"]))
                    [] e = "aborted" -> Continue(s, b)
                    [] OTHER         -> DoCloseSocket(s, b)
      BY <2>7 DEF HandshakeHandler
    <3>2. Op("handshake", e) \in Ops
      BY OpInOps DEF Kinds, Transfers
    <3>3. CASE e = "ok"
      <4>1. AtMostOneLiveTransfer(Issue(Take(pending[s], Op("handshake", e)), Hook["handshake"]))
        BY <3>1, <3>2, <3>3, <2>4 DEF Transfers
      <4>2. Issue(Take(pending[s], Op("handshake", e)), Hook["handshake"]) \in [Ops -> Nat]
        BY <3>1, <3>2, <2>3, IssueType
      <4>. QED
        BY <3>1, <3>3, <4>1, <4>2, <2>2
    <3>4. CASE e # "ok"
      BY <3>1, <3>2, <3>4, <2>3, <2>2
    <3>. QED
      BY <3>3, <3>4
  <2>8. ASSUME NEW s \in Sessions, NEW k \in DataKinds, TransferHandler(s, k)
        PROVE  OneTransferInFlight'
    <3>1. PICK e \in Status \ {"inflight"} :
            LET b == Take(pending[s], Op(k, e))
            IN /\ pending[s][Op(k, e)] > 0
               /\ CASE e = "ok"      -> Continue(s, Issue(b, Hook[k]))
                    [] e = "aborted" -> Continue(s, b)
                    [] OTHER         -> Stop(s, b)
      BY <2>8 DEF TransferHandler
    <3>2. Op(k, e) \in Ops
      BY OpInOps DEF Kinds, Transfers
    <3>3. CASE e = "ok"
      <4>1. AtMostOneLiveTransfer(Issue(Take(pending[s], Op(k, e)), Hook[k]))
        BY <3>1, <3>2, <3>3, <2>4 DEF Transfers
      <4>2. Issue(Take(pending[s], Op(k, e)), Hook[k]) \in [Ops -> Nat]
        BY <3>1, <3>2, <2>3, IssueType
      <4>. QED
        BY <3>1, <3>3, <4>1, <4>2, <2>2
    <3>4. CASE e # "ok"
      BY <3>1, <3>2, <3>4, <2>3, <2>2
    <3>. QED
      BY <3>3, <3>4
  <2>9. ASSUME NEW s \in Sessions, ShutdownHandler(s) PROVE OneTransferInFlight'
    <3>1. PICK e \in Status \ {"inflight"} :
            LET b == Take(pending[s], Op("shutdown", e))
            IN /\ pending[s][Op("shutdown", e)] > 0
               /\ IF e # "ssl" THEN Continue(s, Issue(b, {"flush"}))
                  ELSE DoCloseSocket(s, b)
      BY <2>9 DEF ShutdownHandler, OnShutdownSecureStream
    <3>2. Op("shutdown", e) \in Ops /\ {"flush"} \cap Transfers = {}
      BY OpInOps DEF Kinds, Transfers, DataKinds
    <3>3. AtMostOneLiveTransfer(Issue(Take(pending[s], Op("shutdown", e)), {"flush"}))
      BY <3>1, <3>2, <2>3, IssueOtherLeq, IssueType, LiveLeqAtMostOne
    <3>. QED
      BY <3>1, <3>2, <3>3, <2>3, <2>2, IssueType
  <2>10. ASSUME NEW s \in Sessions, FlushHandler(s) PROVE OneTransferInFlight'
    <3>1. PICK e \in Status \ {"inflight"} :
            /\ pending[s][Op("flush", e)] > 0
            /\ DoCloseSocket(s, Take(pending[s], Op("flush", e)))
      BY <2>10 DEF FlushHandler
    <3>. QED
      BY <3>1, <2>3, <2>2, OpInOps DEF Kinds
  <2>11. CASE UNCHANGED vars
    BY <2>11 DEF vars, OneTransferInFlight
  <2>12. ~Send /\ ~Disconnect
    BY DEF Send, Disconnect
  <2>. QED
    BY <2>5, <2>6, <2>7, <2>8, <2>9, <2>10, <2>11, <2>12 DEF Next
<1>. QED
  BY <1>1, <1>2, TypeCorrect, PTL DEF Spec

-----------------------------------------------------------------------------
(***************************************************************************)
(* on_close_socket at most once on a server session.                        *)
(*                                                                         *)
(* Each pending entry whose handler can lead to do_close_socket is a       *)
(* "closer": a live transfer (its error stops the session, its success     *)
(* starts the next transfer), and a shutdown or a flush in any state (the *)
(* shutdown handler flushes or closes, the flush handler closes).  A       *)
(* server session holds at most one closer at a time, and none once        *)
(* on_close_socket has run.                                                 *)
(***************************************************************************)

Closers == LiveTransfers \cup {o \in Ops : o.kind \in {"shutdown", "flush"}}

\* The multiset b holds at most one closer, and only once.
AtMostOneCloser(b) ==
  \A o1, o2 \in Closers : b[o1] > 0 /\ b[o2] > 0 => o1 = o2 /\ b[o1] = 1

NoCloser(b) == \A o \in Closers : b[o] = 0

\* The budget of one session: pending entries b, hook count h, socket st.
CloseBudget(b, h, st) ==
  /\ AtMostOneCloser(b)
  /\ h <= 1
  /\ h = 1 => NoCloser(b)
  /\ st = "unused" => h = 0
  /\ st = "closed" => NoCloser(b)

ServerCloseInv == \A s \in Sessions : CloseBudget(pending[s], closeHooks[s], sock[s])

LEMMA ClosersInOps == Closers \subseteq Ops
BY DEF Closers, LiveTransfers

\* Every operation in flight is a closer: each kind is a transfer, a
\* shutdown or a flush.
LEMMA InflightCloser ==
  ASSUME NEW k \in Kinds
  PROVE  Op(k, "inflight") \in Closers
BY DEF Closers, LiveTransfers, Op, Ops, Kinds, Status

\* A session holding a closer has not run on_close_socket nor closed its
\* socket, and handling that closer leaves none.
LEMMA TakeCloser ==
  ASSUME NEW b \in [Ops -> Nat], NEW h \in Nat, NEW st,
         CloseBudget(b, h, st), NEW o \in Closers, b[o] > 0
  PROVE  h = 0 /\ st # "closed" /\ NoCloser(Take(b, o))
BY ClosersInOps DEF CloseBudget, AtMostOneCloser, NoCloser, Take

\* Handling an entry that is no closer (an aborted transfer) keeps the
\* budget.
LEMMA TakeOtherBudget ==
  ASSUME NEW b \in [Ops -> Nat], NEW h \in Nat, NEW st,
         CloseBudget(b, h, st), NEW o \in Ops \ Closers, b[o] > 0
  PROVE  CloseBudget(Take(b, o), h, st)
BY ClosersInOps DEF CloseBudget, AtMostOneCloser, NoCloser, Take

\* Cancelling turns entries in flight into aborted ones of the same kind:
\* it adds no closer.
LEMMA CancelNoCloser ==
  ASSUME NEW b \in [Ops -> Nat], NoCloser(b)
  PROVE  NoCloser(Cancel(b))
<1>1. \A o \in Closers : Op(o.kind, "inflight") \in Closers
  BY InflightCloser DEF Closers, LiveTransfers, Ops
<1>. QED
  BY <1>1, ClosersInOps DEF NoCloser, Cancel

\* Starting one operation when no closer is pending leaves exactly one.
LEMMA IssueOneCloser ==
  ASSUME NEW b \in [Ops -> Nat], NoCloser(b), NEW n \in Kinds
  PROVE  AtMostOneCloser(Issue(b, {n}))
<1>1. \A o \in Closers : Issue(b, {n})[o] > 0 => o = Op(n, "inflight")
  <2> SUFFICES ASSUME NEW o \in Closers, Issue(b, {n})[o] > 0
               PROVE  o = Op(n, "inflight")
    OBVIOUS
  <2>1. o.st = "inflight" /\ o.kind = n
    BY ClosersInOps DEF NoCloser, Issue
  <2>. QED
    BY <2>1, ClosersInOps DEF Ops, Op
<1>2. Issue(b, {n})[Op(n, "inflight")] = 1
  BY InflightCloser, ClosersInOps DEF NoCloser, Issue, Op
<1>. QED
  BY <1>1, <1>2 DEF AtMostOneCloser

\* The transport completing an operation moves a closer to a closer, or
\* cancels it.
LEMMA FinishCloser ==
  ASSUME NEW b \in [Ops -> Nat], AtMostOneCloser(b),
         NEW k \in Kinds, NEW e \in Status \ {"inflight"},
         b[Op(k, "inflight")] > 0
  PROVE  AtMostOneCloser(Finish(b, k, e))
<1>1. Op(k, "inflight") \in Closers /\ Op(k, e) \in Ops
      /\ Op(k, "inflight") # Op(k, e)
  BY InflightCloser, OpInOps DEF Op, Status
<1>2. \A o \in Closers : o # Op(k, "inflight") => b[o] = 0
  BY <1>1, ClosersInOps DEF AtMostOneCloser
<1>3. b[Op(k, "inflight")] = 1
  BY <1>1 DEF AtMostOneCloser
<1>. QED
  BY <1>1, <1>2, <1>3, ClosersInOps DEF AtMostOneCloser, Finish

\* Every server session stays within its close budget.
LEMMA ServerCloseInvariant ==
  ASSUME Role = "server"
  PROVE  Spec => []ServerCloseInv
<1>1. Init => ServerCloseInv
  <2>1. NoCloser(NoOps)
    BY ClosersInOps DEF NoCloser, NoOps
  <2>2. CloseBudget(NoOps, 0, "unused")
    BY <2>1 DEF CloseBudget, AtMostOneCloser, NoCloser
  <2>. QED
    BY <2>2 DEF Init, ServerCloseInv
<1>2. TypeOK /\ ServerCloseInv /\ [Next]_vars => ServerCloseInv'
  <2> SUFFICES ASSUME TypeOK, ServerCloseInv, [Next]_vars
               PROVE  ServerCloseInv'
    OBVIOUS
  <2>0. /\ pending \in [Sessions -> [Ops -> Nat]]
        /\ closeHooks \in [Sessions -> Nat]
        /\ sock \in [Sessions -> {"unused", "open", "closed"}]
        /\ \A t \in Sessions : CloseBudget(pending[t], closeHooks[t], sock[t])
    BY DEF TypeOK, ServerCloseInv
  \* A step that changes session s only, to a state within its budget.
  <2>1. ASSUME NEW s \in Sessions, NEW c, NEW h, NEW st,
               pending' = [pending EXCEPT ![s] = c],
               closeHooks' = [closeHooks EXCEPT ![s] = h],
               sock' = [sock EXCEPT ![s] = st],
               CloseBudget(c, h, st)
        PROVE  ServerCloseInv'
    BY <2>0, <2>1 DEF ServerCloseInv
  <2>2. \A s \in Sessions : /\ closeHooks = [closeHooks EXCEPT ![s] = closeHooks[s]]
                            /\ sock = [sock EXCEPT ![s] = sock[s]]
    BY <2>0
  \* What a handler does once it has taken a closer, leaving b.
  <2>3. ASSUME NEW s \in Sessions, NEW b \in [Ops -> Nat], NoCloser(b),
               closeHooks[s] = 0, sock[s] # "closed",
               \/ \E n \in Kinds : Continue(s, Issue(b, {n}))
               \/ Stop(s, b)
               \/ DoCloseSocket(s, b)
        PROVE  ServerCloseInv'
    <3>1. NoCloser(Cancel(b)) /\ Cancel(b) \in [Ops -> Nat]
      BY <2>3, CancelNoCloser, CancelType
    <3>2. CASE \E n \in Kinds : Continue(s, Issue(b, {n}))
      <4>1. PICK n \in Kinds : Continue(s, Issue(b, {n}))
        BY <3>2
      <4>2. CloseBudget(Issue(b, {n}), closeHooks[s], sock[s])
        BY <2>3, IssueOneCloser DEF CloseBudget
      <4>. QED
        BY <4>1, <4>2, <2>1, <2>2 DEF Continue
    <3>3. CASE Stop(s, b)
      <4>1. \A c \in {b, Cancel(b)} : CloseBudget(Issue(c, {"shutdown"}), closeHooks[s], sock[s])
        BY <2>3, <3>1, IssueOneCloser DEF CloseBudget, Kinds
      <4>. QED
        BY <3>3, <4>1, <2>1, <2>2 DEF Stop
    <3>4. CASE DoCloseSocket(s, b)
      <4>1. \A c \in {b, Cancel(b)}, h \in {0, 1} : CloseBudget(c, h, "closed")
        BY <2>3, <3>1 DEF CloseBudget, AtMostOneCloser, NoCloser
      <4>2. \E h \in {0, 1} : closeHooks' = [closeHooks EXCEPT ![s] = h]
        BY <3>4, <2>3, <2>2 DEF DoCloseSocket, OnCloseSocket
      <4>. QED
        BY <3>4, <4>1, <4>2, <2>1 DEF DoCloseSocket
    <3>. QED
      BY <2>3, <3>2, <3>3, <3>4
  \* Taking an entry: a closer leaves none, any other entry keeps the budget.
  <2>4. ASSUME NEW s \in Sessions, NEW o \in Ops, pending[s][o] > 0
        PROVE  /\ Take(pending[s], o) \in [Ops -> Nat]
               /\ o \in Closers => /\ closeHooks[s] = 0 /\ sock[s] # "closed"
                                  /\ NoCloser(Take(pending[s], o))
               /\ o \notin Closers => CloseBudget(Take(pending[s], o), closeHooks[s], sock[s])
    BY <2>0, <2>4, TakeType, TakeCloser, TakeOtherBudget
  \* Handling an aborted entry: the handler does nothing more.
  <2>5. ASSUME NEW s \in Sessions, NEW o \in Ops \ Closers, pending[s][o] > 0,
               Continue(s, Take(pending[s], o))
        PROVE  ServerCloseInv'
    BY <2>4, <2>5, <2>1, <2>2 DEF Continue
  <2>6. ASSUME NEW s \in Sessions, Start(s) PROVE ServerCloseInv'
    <3>1. closeHooks[s] = 0
      BY <2>0, <2>6 DEF Start, CloseBudget
    <3>2. NoCloser(NoOps) /\ NoOps \in [Ops -> Nat]
      BY ClosersInOps DEF NoCloser, NoOps
    <3>3. CloseBudget(Issue(NoOps, {"handshake"}), closeHooks[s], "open")
      BY <3>1, <3>2, IssueOneCloser DEF CloseBudget, Kinds, Transfers
    <3>. QED
      BY <2>6, <3>3, <2>1, <2>2 DEF Start
  <2>7. ASSUME NEW s \in Sessions, NEW k \in Kinds, Complete(s, k)
        PROVE  ServerCloseInv'
    <3>1. PICK e \in Outcomes(s, k) :
            pending' = [pending EXCEPT ![s] = Finish(pending[s], k, e)]
      BY <2>7 DEF Complete
    <3>2. e \in Status \ {"inflight"}
      BY DEF Outcomes, Status
    <3>3. Op(k, "inflight") \in Closers /\ pending[s][Op(k, "inflight")] > 0
      BY <2>7, InflightCloser DEF Complete
    <3>4. closeHooks[s] = 0 /\ sock[s] # "closed"
      BY <3>3, <2>0, TakeCloser, ClosersInOps
    <3>5. AtMostOneCloser(Finish(pending[s], k, e))
      BY <2>0, <3>2, <3>3, FinishCloser DEF CloseBudget
    <3>6. CloseBudget(Finish(pending[s], k, e), closeHooks[s], sock[s])
      BY <3>4, <3>5 DEF CloseBudget
    <3>. QED
      BY <2>7, <3>1, <3>6, <2>1, <2>2 DEF Complete
  <2>8. ASSUME NEW s \in Sessions, HandshakeHandler(s) PROVE ServerCloseInv'
    <3>1. PICK e \in Status \ {"inflight"} :
            LET b == Take(pending[s], Op("handshake", e))
            IN /\ pending[s][Op("handshake", e)] > 0
               /\ CASE e = "ok"      -> Continue(s, Issue(b, Hook["handshake"]))
                    [] e = "aborted" -> Continue(s, b)
                    [] OTHER         -> DoCloseSocket(s, b)
      BY <2>8 DEF HandshakeHandler
    <3>2. Op("handshake", e) \in Ops
      BY OpInOps DEF Kinds, Transfers
    <3>3. e # "aborted" => Op("handshake", e) \in Closers
      BY <3>2 DEF Closers, LiveTransfers, Op, Transfers
    <3>4. CASE e = "aborted"
      <4>1. Op("handshake", e) \notin Closers
        BY <3>4 DEF Closers, LiveTransfers, Op
      <4>. QED
        BY <3>1, <3>2, <3>4, <4>1, <2>5
    <3>5. CASE e = "ok"
      <4>1. PICK n \in Transfers : Hook["handshake"] = {n}
        BY ServerHookOne DEF Transfers
      <4>. QED
        BY <3>1, <3>2, <3>3, <3>5, <4>1, <2>4, <2>3 DEF Transfers, Kinds
    <3>6. CASE e \notin {"ok", "aborted"}
      BY <3>1, <3>2, <3>3, <3>6, <2>4, <2>3
    <3>. QED
      BY <3>4, <3>5, <3>6
  <2>9. ASSUME NEW s \in Sessions, NEW k \in DataKinds, TransferHandler(s, k)
        PROVE  ServerCloseInv'
    <3>1. PICK e \in Status \ {"inflight"} :
            LET b == Take(pending[s], Op(k, e))
            IN /\ pending[s][Op(k, e)] > 0
               /\ CASE e = "ok"      -> Continue(s, Issue(b, Hook[k]))
                    [] e = "aborted" -> Continue(s, b)
                    [] OTHER         -> Stop(s, b)
      BY <2>9 DEF TransferHandler
    <3>2. Op(k, e) \in Ops
      BY OpInOps DEF Kinds, Transfers
    <3>3. e # "aborted" => Op(k, e) \in Closers
      BY <3>2 DEF Closers, LiveTransfers, Op, Transfers
    <3>4. CASE e = "aborted"
      <4>1. Op(k, e) \notin Closers
        BY <3>4 DEF Closers, LiveTransfers, Op, DataKinds
      <4>. QED
        BY <3>1, <3>2, <3>4, <4>1, <2>5
    <3>5. CASE e = "ok"
      <4>1. PICK n \in Transfers : Hook[k] = {n}
        BY ServerHookOne DEF Transfers
      <4>. QED
        BY <3>1, <3>2, <3>3, <3>5, <4>1, <2>4, <2>3 DEF Transfers, Kinds
    <3>6. CASE e \notin {"ok", "aborted"}
      BY <3>1, <3>2, <3>3, <3>6, <2>4, <2>3
    <3>. QED
      BY <3>4, <3>5, <3>6
  <2>10. ASSUME NEW s \in Sessions, ShutdownHandler(s) PROVE ServerCloseInv'
    <3>1. PICK e \in Status \ {"inflight"} :
            LET b == Take(pending[s], Op("shutdown", e))
            IN /\ pending[s][Op("shutdown", e)] > 0
               /\ IF e # "ssl" THEN Continue(s, Issue(b, {"flush"}))
                  ELSE DoCloseSocket(s, b)
      BY <2>10 DEF ShutdownHandler, OnShutdownSecureStream
    <3>2. Op("shutdown", e) \in Ops /\ Op("shutdown", e) \in Closers
      BY OpInOps DEF Kinds, Closers, Op
    <3>3. "flush" \in Kinds
      BY DEF Kinds
    <3>. QED
      BY <3>1, <3>2, <3>3, <2>4, <2>3
  <2>11. ASSUME NEW s \in Sessions, FlushHandler(s) PROVE ServerCloseInv'
    <3>1. PICK e \in Status \ {"inflight"} :
            /\ pending[s][Op("flush", e)] > 0
            /\ DoCloseSocket(s, Take(pending[s], Op("flush", e)))
      BY <2>11 DEF FlushHandler
    <3>2. Op("flush", e) \in Ops /\ Op("flush", e) \in Closers
      BY OpInOps DEF Kinds, Closers, Op
    <3>. QED
      BY <3>1, <3>2, <2>4, <2>3
  <2>12. CASE UNCHANGED vars
    BY <2>12 DEF vars, ServerCloseInv
  <2>13. ~Send /\ ~Disconnect
    BY DEF Send, Disconnect
  <2>. QED
    BY <2>6, <2>7, <2>8, <2>9, <2>10, <2>11, <2>12, <2>13 DEF Next
<1>. QED
  BY <1>1, <1>2, TypeCorrect, PTL DEF Spec

\* Spec sections 4.2 and 8 for server_session: on_close_socket runs at most
\* once per session.  Every path to do_close_socket -- a failed handshake,
\* a secure shutdown's SSL error, the null_buffers write's handler -- goes
\* through the one closer a server session holds, and the stop() a failed
\* transfer makes cancels in-flight operations and starts a single
\* shutdown, so a second close never comes.
THEOREM ServerCloseHookAtMostOnce ==
  ASSUME Role = "server"
  PROVE  Spec => []CloseHookAtMostOnce
<1>1. ServerCloseInv => CloseHookAtMostOnce
  BY DEF ServerCloseInv, CloseBudget, CloseHookAtMostOnce
<1>. QED
  BY <1>1, ServerCloseInvariant, PTL

-----------------------------------------------------------------------------
(***************************************************************************)
(* stop() ends a server session's exchange.                                 *)
(***************************************************************************)

\* A stopped session has no live transfer and was started; a session not
\* yet started has nothing pending.
StopInv ==
  \A s \in Sessions :
    /\ stopped[s] => NoLive(pending[s]) /\ sock[s] # "unused"
    /\ sock[s] = "unused" => pending[s] = NoOps
LEMMA NoLiveLeq ==
  ASSUME NEW b \in [Ops -> Nat], NEW c \in [Ops -> Nat], NoLive(b), LiveLeq(c, b)
  PROVE  NoLive(c)
BY LiveInOps DEF NoLive, LiveLeq

\* The transport completing a shutdown or a flush moves no transfer.
LEMMA FinishOtherLeq ==
  ASSUME NEW b \in [Ops -> Nat], NEW k \in Kinds \ Transfers, NEW e \in Status
  PROVE  LiveLeq(Finish(b, k, e), b)
<1>1. Op(k, "inflight") \in Ops /\ Op(k, e) \in Ops
  BY DEF Op, Ops, Status
<1>2. Op(k, "inflight") \notin LiveTransfers /\ Op(k, e) \notin LiveTransfers
  BY DEF LiveTransfers, Op
<1>. QED
  BY <1>1, <1>2, LiveInOps DEF LiveLeq, Finish

\* Every server session keeps StopInv.
LEMMA ServerStopInvariant ==
  ASSUME Role = "server"
  PROVE  Spec => []StopInv
<1>0. Spec => []OneTransferInFlight
  BY ServerOneTransferInFlight
<1>1. Init => StopInv
  BY DEF Init, StopInv
<1>2. TypeOK /\ OneTransferInFlight /\ StopInv /\ [Next]_vars => StopInv'
  <2> SUFFICES ASSUME TypeOK, OneTransferInFlight, StopInv, [Next]_vars
               PROVE  StopInv'
    OBVIOUS
  <2>0. /\ pending \in [Sessions -> [Ops -> Nat]]
        /\ sock \in [Sessions -> {"unused", "open", "closed"}]
        /\ stopped \in [Sessions -> BOOLEAN]
        /\ \A t \in Sessions : AtMostOneLiveTransfer(pending[t])
        /\ \A t \in Sessions : stopped[t] => NoLive(pending[t]) /\ sock[t] # "unused"
        /\ \A t \in Sessions : sock[t] = "unused" => pending[t] = NoOps
    BY DEF TypeOK, OneTransferInFlight, StopInv
  \* A step that changes session s only.
  <2>1. ASSUME NEW s \in Sessions, NEW c, NEW st, NEW stp,
               pending' = [pending EXCEPT ![s] = c],
               sock' = [sock EXCEPT ![s] = st],
               stopped' = [stopped EXCEPT ![s] = stp],
               stp => NoLive(c) /\ st # "unused",
               st = "unused" => c = NoOps
        PROVE  StopInv'
    BY <2>0, <2>1 DEF StopInv
  <2>2. \A s \in Sessions : /\ sock = [sock EXCEPT ![s] = sock[s]]
                            /\ stopped = [stopped EXCEPT ![s] = stopped[s]]
    BY <2>0
  \* What a handler of a started session does once it has taken its entry,
  \* leaving b.
  <2>3. ASSUME NEW s \in Sessions, NEW b \in [Ops -> Nat], sock[s] # "unused",
               stopped[s] => NoLive(b),
               \/ Continue(s, b)
               \/ DoCloseSocket(s, b)
               \/ NoLive(b) /\ Stop(s, b)
               \/ \E n \in Kinds : /\ stopped[s] => n \notin Transfers
                                   /\ Continue(s, Issue(b, {n}))
        PROVE  StopInv'
    <3>1. stopped[s] => NoLive(Cancel(b))
      BY <2>3, CancelLeq, CancelType, NoLiveLeq
    <3>2. CASE Continue(s, b)
      <4>1. /\ pending' = [pending EXCEPT ![s] = b]
            /\ sock' = [sock EXCEPT ![s] = sock[s]]
            /\ stopped' = [stopped EXCEPT ![s] = stopped[s]]
        BY <3>2, <2>2 DEF Continue
      <4>. QED
        BY <2>3, <4>1, <2>1
    <3>3. CASE DoCloseSocket(s, b)
      <4>1. \A c \in {b, Cancel(b)} : stopped[s] => NoLive(c)
        BY <2>3, <3>1
      <4>2. PICK c \in {b, Cancel(b)} :
              /\ pending' = [pending EXCEPT ![s] = c]
              /\ sock' = [sock EXCEPT ![s] = "closed"]
              /\ stopped' = [stopped EXCEPT ![s] = stopped[s]]
        BY <3>3, <2>2 DEF DoCloseSocket
      <4>. QED
        BY <2>3, <4>1, <4>2, <2>1
    <3>4. CASE NoLive(b) /\ Stop(s, b)
      <4>1. {"shutdown"} \cap Transfers = {}
        BY DEF Transfers, DataKinds
      <4>2. \A c \in {b, Cancel(b)} : NoLive(Issue(c, {"shutdown"}))
        BY <3>4, <4>1, CancelLeq, CancelType, IssueOtherLeq, IssueType,
           LiveLeqTrans, NoLiveLeq
      <4>. QED
        BY <2>3, <3>4, <4>2, <2>1, <2>2 DEF Stop
    <3>5. CASE \E n \in Kinds : /\ stopped[s] => n \notin Transfers
                                /\ Continue(s, Issue(b, {n}))
      <4>1. PICK n \in Kinds : /\ stopped[s] => n \notin Transfers
                               /\ Continue(s, Issue(b, {n}))
        BY <3>5
      <4>2. stopped[s] => NoLive(Issue(b, {n}))
        BY <2>3, <4>1, IssueOtherLeq, IssueType, NoLiveLeq
      <4>. QED
        BY <2>3, <4>1, <4>2, <2>1, <2>2 DEF Continue
    <3>. QED
      BY <2>3, <3>2, <3>3, <3>4, <3>5
  \* Taking an entry of a session.
  <2>4. ASSUME NEW s \in Sessions, NEW o \in Ops, pending[s][o] > 0
        PROVE  /\ sock[s] # "unused"
               /\ Take(pending[s], o) \in [Ops -> Nat]
               /\ stopped[s] => o \notin LiveTransfers /\ NoLive(Take(pending[s], o))
               /\ o \in LiveTransfers => NoLive(Take(pending[s], o))
    <3>1. sock[s] # "unused"
      BY <2>0, <2>4 DEF NoOps
    <3>2. stopped[s] => o \notin LiveTransfers
      BY <2>0, <2>4 DEF NoLive
    <3>. QED
      BY <2>0, <2>4, <3>1, <3>2, TakeType, TakeLeq, NoLiveLeq, TakeLive
  <2>5. ASSUME NEW s \in Sessions, Start(s) PROVE StopInv'
    <3>1. ~stopped[s]
      BY <2>0, <2>5 DEF Start
    <3>. QED
      BY <2>5, <3>1, <2>1, <2>2 DEF Start
  <2>6. ASSUME NEW s \in Sessions, NEW k \in Kinds, Complete(s, k)
        PROVE  StopInv'
    <3>1. PICK e \in Outcomes(s, k) :
            pending' = [pending EXCEPT ![s] = Finish(pending[s], k, e)]
      BY <2>6 DEF Complete
    <3>2. e \in Status
      BY DEF Outcomes, Status
    <3>3. Op(k, "inflight") \in Ops /\ pending[s][Op(k, "inflight")] > 0
      BY <2>6, OpInOps DEF Complete, Status
    <3>4. sock[s] # "unused"
      BY <2>4, <3>3
    <3>5. stopped[s] => k \notin Transfers
      BY <2>4, <3>3 DEF LiveTransfers, Op
    <3>6. stopped[s] => NoLive(Finish(pending[s], k, e))
      BY <2>0, <3>2, <3>3, <3>5, FinishOtherLeq, FinishType, NoLiveLeq
    <3>. QED
      BY <2>6, <3>1, <3>4, <3>6, <2>1, <2>2 DEF Complete
  <2>7. ASSUME NEW s \in Sessions, HandshakeHandler(s) PROVE StopInv'
    <3>1. PICK e \in Status \ {"inflight"} :
            LET b == Take(pending[s], Op("handshake", e))
            IN /\ pending[s][Op("handshake", e)] > 0
               /\ CASE e = "ok"      -> Continue(s, Issue(b, Hook["handshake"]))
                    [] e = "aborted" -> Continue(s, b)
                    [] OTHER         -> DoCloseSocket(s, b)
      BY <2>7 DEF HandshakeHandler
    <3>2. Op("handshake", e) \in Ops
      BY OpInOps DEF Kinds, Transfers
    <3>3. CASE e = "ok"
      <4>1. PICK n \in Transfers : Hook["handshake"] = {n}
        BY ServerHookOne DEF Transfers
      <4>2. Op("handshake", e) \in LiveTransfers
        BY <3>2, <3>3 DEF LiveTransfers, Op, Transfers
      <4>. QED
        BY <3>1, <3>2, <3>3, <4>1, <4>2, <2>4, <2>3 DEF Kinds
    <3>4. CASE e # "ok"
      BY <3>1, <3>2, <3>4, <2>4, <2>3
    <3>. QED
      BY <3>3, <3>4
  <2>8. ASSUME NEW s \in Sessions, NEW k \in DataKinds, TransferHandler(s, k)
        PROVE  StopInv'
    <3>1. PICK e \in Status \ {"inflight"} :
            LET b == Take(pending[s], Op(k, e))
            IN /\ pending[s][Op(k, e)] > 0
               /\ CASE e = "ok"      -> Continue(s, Issue(b, Hook[k]))
                    [] e = "aborted" -> Continue(s, b)
                    [] OTHER         -> Stop(s, b)
      BY <2>8 DEF TransferHandler
    <3>2. Op(k, e) \in Ops
      BY OpInOps DEF Kinds, Transfers
    <3>3. e # "aborted" => Op(k, e) \in LiveTransfers
      BY <3>2 DEF LiveTransfers, Op, Transfers
    <3>4. CASE e = "ok"
      <4>1. PICK n \in Transfers : Hook[k] = {n}
        BY ServerHookOne DEF Transfers
      <4>. QED
        BY <3>1, <3>2, <3>3, <3>4, <4>1, <2>4, <2>3 DEF Kinds, Transfers
    <3>5. CASE e = "aborted"
      BY <3>1, <3>2, <3>5, <2>4, <2>3
    <3>6. CASE e \notin {"ok", "aborted"}
      BY <3>1, <3>2, <3>3, <3>6, <2>4, <2>3
    <3>. QED
      BY <3>4, <3>5, <3>6
  <2>9. ASSUME NEW s \in Sessions, ShutdownHandler(s) PROVE StopInv'
    <3>1. PICK e \in Status \ {"inflight"} :
            LET b == Take(pending[s], Op("shutdown", e))
            IN /\ pending[s][Op("shutdown", e)] > 0
               /\ IF e # "ssl" THEN Continue(s, Issue(b, {"flush"}))
                  ELSE DoCloseSocket(s, b)
      BY <2>9 DEF ShutdownHandler, OnShutdownSecureStream
    <3>2. Op("shutdown", e) \in Ops /\ "flush" \in Kinds \ Transfers
      BY OpInOps DEF Kinds, Transfers, DataKinds
    <3>. QED
      BY <3>1, <3>2, <2>4, <2>3
  <2>10. ASSUME NEW s \in Sessions, FlushHandler(s) PROVE StopInv'
    <3>1. PICK e \in Status \ {"inflight"} :
            /\ pending[s][Op("flush", e)] > 0
            /\ DoCloseSocket(s, Take(pending[s], Op("flush", e)))
      BY <2>10 DEF FlushHandler
    <3>. QED
      BY <3>1, <2>4, <2>3, OpInOps DEF Kinds
  <2>11. CASE UNCHANGED vars
    BY <2>11 DEF vars, StopInv
  <2>12. ~Send /\ ~Disconnect
    BY DEF Send, Disconnect
  <2>. QED
    BY <2>5, <2>6, <2>7, <2>8, <2>9, <2>10, <2>11, <2>12 DEF Next
<1>. QED
  BY <1>0, <1>1, <1>2, TypeCorrect, PTL DEF Spec

\* Spec section 4.2 for server_session: once stop() has been called on a
\* session, none of its handshakes, reads or writes is live.  The handler
\* that calls stop() has just taken the session's one live transfer (by
\* ServerOneTransferInFlight), stop() cancels what is in flight and starts
\* only a shutdown, and the shutdown and flush handlers start no transfer;
\* a session is never started twice.
THEOREM ServerStopEndsTransfers ==
  ASSUME Role = "server"
  PROVE  Spec => []StopEndsTransfers
<1>1. StopInv => StopEndsTransfers
  BY DEF StopInv, StopEndsTransfers, NoLive
<1>. QED
  BY <1>1, ServerStopInvariant, PTL

-----------------------------------------------------------------------------
(***************************************************************************)
(* Server sessions implement the lifecycle of module SessionLifecycle.      *)
(***************************************************************************)

\* Spec sections 4.2 and 8 for server_session: the session model with the
\* lifecycle mapping of Session!Life implements SessionLifecycle.  A start
\* opens a new session; a stop() stops a running one or changes nothing a
\* caller can see; do_close_socket() runs only from a handler that holds
\* the session's one closer, so only on an open socket, with
\* on_close_socket() not yet run; every other step leaves the lifecycle
\* alone.
THEOREM ServerLifecycleRefinement ==
  ASSUME Role = "server"
  PROVE  Spec => LifecycleRefinement
<1>0. Spec => [](TypeOK /\ ServerCloseInv /\ StopInv)
  BY TypeCorrect, ServerCloseInvariant, ServerStopInvariant, PTL
<1>1. Init => Life!LInit
  BY DEF Init, Life!LInit, Lifecycle
<1>2. TypeOK /\ ServerCloseInv /\ StopInv /\ [Next]_vars => [Life!LNext]_Life!lvars
  <2> SUFFICES ASSUME TypeOK, ServerCloseInv, StopInv, [Next]_vars
               PROVE  [Life!LNext]_Life!lvars
    OBVIOUS
  <2>0. /\ pending \in [Sessions -> [Ops -> Nat]]
        /\ closeHooks \in [Sessions -> Nat]
        /\ sock \in [Sessions -> {"unused", "open", "closed"}]
        /\ stopped \in [Sessions -> BOOLEAN]
        /\ \A t \in Sessions : CloseBudget(pending[t], closeHooks[t], sock[t])
        /\ \A t \in Sessions : stopped[t] => sock[t] # "unused"
        /\ \A t \in Sessions : sock[t] = "unused" => pending[t] = NoOps
    BY DEF TypeOK, ServerCloseInv, StopInv
  \* A step that leaves sockets, stop flags and hooks alone stutters.
  <2>1. ASSUME UNCHANGED <<sock, stopped, closeHooks>>
        PROVE  [Life!LNext]_Life!lvars
    BY <2>1 DEF Life!lvars, Lifecycle
  \* A step that changes the socket and the stop flag of session s only.
  <2>2. ASSUME NEW s \in Sessions,
               \A t \in Sessions \ {s} : sock'[t] = sock[t] /\ stopped'[t] = stopped[t]
        PROVE  [t \in Sessions |-> Lifecycle(t)]'
                 = [[t \in Sessions |-> Lifecycle(t)] EXCEPT ![s] = Lifecycle(s)']
    <3>1. \A t \in Sessions \ {s} : Lifecycle(t)' = Lifecycle(t)
      BY <2>2 DEF Lifecycle
    <3>. QED
      BY <3>1
  \* What a handler holding a closer does: it finds the socket open and
  \* on_close_socket() not run.
  <2>3. ASSUME NEW s \in Sessions, NEW b, sock[s] = "open", closeHooks[s] = 0,
               Continue(s, b) \/ Stop(s, b) \/ DoCloseSocket(s, b)
        PROVE  [Life!LNext]_Life!lvars
    <3>1. CASE Continue(s, b)
      BY <3>1, <2>1 DEF Continue
    <3>2. CASE Stop(s, b) /\ stopped[s]
      <4>1. stopped' = stopped
        BY <3>2, <2>0 DEF Stop
      <4>. QED
        BY <3>2, <4>1, <2>1 DEF Stop
    <3>3. CASE Stop(s, b) /\ ~stopped[s]
      <4>1. Lifecycle(s) = "running" /\ Lifecycle(s)' = "stopping"
        BY <2>3, <3>3, <2>0 DEF Stop, Lifecycle
      <4>2. \A t \in Sessions \ {s} : sock'[t] = sock[t] /\ stopped'[t] = stopped[t]
        BY <3>3, <2>0 DEF Stop
      <4>5. [t \in Sessions |-> Lifecycle(t)]'
              = [[t \in Sessions |-> Lifecycle(t)] EXCEPT ![s] = "stopping"]
        BY <4>1, <4>2, <2>2
      <4>3. Life!Halt(s)
        BY <3>3, <4>1, <4>5 DEF Life!Halt, Stop
      <4>. QED
        BY <4>3 DEF Life!LNext
    <3>4. CASE DoCloseSocket(s, b)
      <4>1. Lifecycle(s) \in {"running", "stopping"} /\ Lifecycle(s)' = "closed"
        BY <2>3, <3>4, <2>0 DEF DoCloseSocket, Lifecycle
      <4>2. \A t \in Sessions \ {s} : sock'[t] = sock[t] /\ stopped'[t] = stopped[t]
        BY <3>4, <2>0 DEF DoCloseSocket
      <4>5. [t \in Sessions |-> Lifecycle(t)]'
              = [[t \in Sessions |-> Lifecycle(t)] EXCEPT ![s] = "closed"]
        BY <4>1, <4>2, <2>2
      <4>3. \E h \in {0, 1} : closeHooks' = [closeHooks EXCEPT ![s] = h]
        BY <2>3, <3>4, <2>0 DEF DoCloseSocket, OnCloseSocket
      <4>4. Life!Close(s)
        BY <4>1, <4>5, <4>3 DEF Life!Close
      <4>. QED
        BY <4>4 DEF Life!LNext
    <3>. QED
      BY <2>3, <3>1, <3>2, <3>3, <3>4
  \* A handler takes an entry of a started session; a closer finds the
  \* socket open and on_close_socket() not run.
  <2>4. ASSUME NEW s \in Sessions, NEW o \in Ops, pending[s][o] > 0
        PROVE  o \in Closers => sock[s] = "open" /\ closeHooks[s] = 0
    <3>1. sock[s] # "unused"
      BY <2>0, <2>4 DEF NoOps
    <3>. QED
      BY <2>0, <2>4, <3>1, TakeCloser
  <2>5. ASSUME NEW s \in Sessions, Start(s) PROVE [Life!LNext]_Life!lvars
    <3>1. ~stopped[s]
      BY <2>0, <2>5 DEF Start
    <3>2. Lifecycle(s) = "new" /\ Lifecycle(s)' = "running"
      BY <2>5, <3>1, <2>0 DEF Start, Lifecycle
    <3>3. \A t \in Sessions \ {s} : sock'[t] = sock[t] /\ stopped'[t] = stopped[t]
      BY <2>5, <2>0 DEF Start
    <3>5. [t \in Sessions |-> Lifecycle(t)]'
            = [[t \in Sessions |-> Lifecycle(t)] EXCEPT ![s] = "running"]
      BY <3>2, <3>3, <2>2
    <3>4. Life!Open(s)
      BY <2>5, <3>2, <3>5 DEF Life!Open, Start
    <3>. QED
      BY <3>4 DEF Life!LNext
  <2>6. ASSUME NEW s \in Sessions, HandshakeHandler(s) PROVE [Life!LNext]_Life!lvars
    <3>1. PICK e \in Status \ {"inflight"} :
            LET b == Take(pending[s], Op("handshake", e))
            IN /\ pending[s][Op("handshake", e)] > 0
               /\ CASE e = "ok"      -> Continue(s, Issue(b, Hook["handshake"]))
                    [] e = "aborted" -> Continue(s, b)
                    [] OTHER         -> DoCloseSocket(s, b)
      BY <2>6 DEF HandshakeHandler
    <3>2. Op("handshake", e) \in Ops
      BY OpInOps DEF Kinds, Transfers
    <3>3. CASE e \in {"ok", "aborted"}
      BY <3>1, <3>3, <2>1 DEF Continue
    <3>4. CASE e \notin {"ok", "aborted"}
      <4>1. Op("handshake", e) \in Closers
        BY <3>2, <3>4 DEF Closers, LiveTransfers, Op, Transfers
      <4>. QED
        BY <3>1, <3>2, <3>4, <4>1, <2>4, <2>3
    <3>. QED
      BY <3>3, <3>4
  <2>7. ASSUME NEW s \in Sessions, NEW k \in DataKinds, TransferHandler(s, k)
        PROVE  [Life!LNext]_Life!lvars
    <3>1. PICK e \in Status \ {"inflight"} :
            LET b == Take(pending[s], Op(k, e))
            IN /\ pending[s][Op(k, e)] > 0
               /\ CASE e = "ok"      -> Continue(s, Issue(b, Hook[k]))
                    [] e = "aborted" -> Continue(s, b)
                    [] OTHER         -> Stop(s, b)
      BY <2>7 DEF TransferHandler
    <3>2. Op(k, e) \in Ops
      BY OpInOps DEF Kinds, Transfers
    <3>3. CASE e \in {"ok", "aborted"}
      BY <3>1, <3>3, <2>1 DEF Continue
    <3>4. CASE e \notin {"ok", "aborted"}
      <4>1. Op(k, e) \in Closers
        BY <3>2, <3>4 DEF Closers, LiveTransfers, Op, Transfers
      <4>. QED
        BY <3>1, <3>2, <3>4, <4>1, <2>4, <2>3
    <3>. QED
      BY <3>3, <3>4
  <2>8. ASSUME NEW s \in Sessions, ShutdownHandler(s) PROVE [Life!LNext]_Life!lvars
    <3>1. PICK e \in Status \ {"inflight"} :
            LET b == Take(pending[s], Op("shutdown", e))
            IN /\ pending[s][Op("shutdown", e)] > 0
               /\ IF e # "ssl" THEN Continue(s, Issue(b, {"flush"}))
                  ELSE DoCloseSocket(s, b)
      BY <2>8 DEF ShutdownHandler, OnShutdownSecureStream
    <3>2. Op("shutdown", e) \in Ops /\ Op("shutdown", e) \in Closers
      BY OpInOps DEF Kinds, Closers, Op
    <3>3. CASE e # "ssl"
      BY <3>1, <3>3, <2>1 DEF Continue
    <3>4. CASE e = "ssl"
      BY <3>1, <3>2, <3>4, <2>4, <2>3
    <3>. QED
      BY <3>3, <3>4
  <2>9. ASSUME NEW s \in Sessions, FlushHandler(s) PROVE [Life!LNext]_Life!lvars
    <3>1. PICK e \in Status \ {"inflight"} :
            /\ pending[s][Op("flush", e)] > 0
            /\ DoCloseSocket(s, Take(pending[s], Op("flush", e)))
      BY <2>9 DEF FlushHandler
    <3>2. Op("flush", e) \in Ops /\ Op("flush", e) \in Closers
      BY OpInOps DEF Kinds, Closers, Op
    <3>. QED
      BY <3>1, <3>2, <2>4, <2>3
  <2>10. ASSUME NEW s \in Sessions, NEW k \in Kinds, Complete(s, k)
         PROVE  [Life!LNext]_Life!lvars
    BY <2>10, <2>1 DEF Complete
  <2>11. CASE UNCHANGED vars
    BY <2>11, <2>1 DEF vars
  <2>12. ~Send /\ ~Disconnect
    BY DEF Send, Disconnect
  <2>. QED
    BY <2>5, <2>6, <2>7, <2>8, <2>9, <2>10, <2>11, <2>12 DEF Next
<1>. QED
  BY <1>0, <1>1, <1>2, PTL DEF Spec, LifecycleRefinement, Life!LSpec

=============================================================================
