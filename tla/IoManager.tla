------------------------------ MODULE IoManager ------------------------------
(***************************************************************************)
(* micro_tcp's io_manager (io_manager.cpp): the io_service, its work       *)
(* guard and the pool of worker threads that run every completion handler. *)
(*                                                                         *)
(* The io_service is modelled by what its run() loop does: while it is   *)
(* not stopped a thread in run() harvests completed operations and runs    *)
(* ready handlers; when no work is left -- no work guard, no operation     *)
(* outstanding, no handler ready -- it stops the io_service itself; a      *)
(* thread leaves run() once the io_service is stopped.  The operations are *)
(* the sessions' and the server's asynchronous calls, abstracted to a      *)
(* count; a handler may start a follow-up operation.  io_manager::stop()   *)
(* blocks in join(): it is split into the call and its return.             *)
(***************************************************************************)
EXTENDS Naturals

CONSTANTS
  NumThreads,  \* io_manager::start's num_threads
  MaxOps       \* bound on the operations outstanding or ready at once

VARIABLES
  active,   \* io_manager::active_
  work,     \* io_work_informer_ holds an io_service::work
  stopped,  \* the io_service's stopped flag
  threads,  \* worker threads still inside io_service_.run()
  busy,     \* of those, the threads running a handler
  caller,   \* the thread that calls io_manager: "idle", or in stop():
            \* "stopping" (work reset) then "joining"
  ops,      \* asynchronous operations started and not yet completed
  ready     \* completed operations whose handler has not run

vars == <<active, work, stopped, threads, busy, caller, ops, ready>>

\* io_manager::io_manager(): io_service_.stop(); io_service_.reset().
Init ==
  /\ active = FALSE /\ work = FALSE /\ stopped = FALSE
  /\ threads = 0 /\ busy = 0 /\ caller = "idle"
  /\ ops = 0 /\ ready = 0

\* io_manager::start(num_threads): if not active, a new work guard and
\* num_threads threads that each call io_service_.run(), then active.
Start ==
  /\ caller = "idle"
  /\ ~active
  /\ work' = TRUE
  /\ threads' = NumThreads
  /\ active' = TRUE
  /\ UNCHANGED <<stopped, busy, caller, ops, ready>>

\* io_manager::stop(), its first statement: if active, reset the work
\* guard.
Stop ==
  /\ caller = "idle"
  /\ active
  /\ work' = FALSE
  /\ caller' = "stopping"
  /\ UNCHANGED <<active, stopped, threads, busy, ops, ready>>

\* Variant of stop() that leaves out io_service_.stop().
StopServiceSkipped ==
  /\ caller = "stopping"
  /\ caller' = "joining"
  /\ UNCHANGED <<active, work, stopped, threads, busy, ops, ready>>

\* io_manager::stop(), next: io_service_.stop().
StopService ==
  /\ caller = "stopping"
  /\ stopped' = TRUE
  /\ caller' = "joining"
  /\ UNCHANGED <<active, work, threads, busy, ops, ready>>

\* Variant of the end of stop() that leaves out io_service_.reset().
StopReturnNoReset ==
  /\ caller = "joining"
  /\ threads = 0
  /\ active' = FALSE
  /\ caller' = "idle"
  /\ UNCHANGED <<work, stopped, threads, busy, ops, ready>>

\* io_manager::stop(), the rest: every worker joined, io_service_.reset()
\* and active_ = false.
StopReturn ==
  /\ caller = "joining"
  /\ threads = 0
  /\ stopped' = FALSE
  /\ active' = FALSE
  /\ caller' = "idle"
  /\ UNCHANGED <<work, threads, busy, ops, ready>>

\* A session or the server starts an asynchronous operation (async_read,
\* async_accept, ...); the caller's thread or a handler may do so at any
\* time, with or without threads to run it.
StartOp ==
  /\ ops + ready + busy < MaxOps
  /\ ops' = ops + 1
  /\ UNCHANGED <<active, work, stopped, threads, busy, caller, ready>>

\* A thread in run() harvests a completed operation: its handler is ready.
Complete ==
  /\ threads > 0 /\ ~stopped
  /\ ops > 0
  /\ ops' = ops - 1 /\ ready' = ready + 1
  /\ UNCHANGED <<active, work, stopped, threads, busy, caller>>

\* An idle thread in run() takes a ready handler and calls it.
RunHandler ==
  /\ threads > busy /\ ~stopped
  /\ ready > 0
  /\ ready' = ready - 1
  /\ busy' = busy + 1
  /\ UNCHANGED <<active, work, stopped, threads, caller, ops>>

\* The handler returns, having started a follow-up operation or not; the
\* io_service's stopped flag does not interrupt it.
HandlerReturn ==
  /\ busy > 0
  /\ busy' = busy - 1
  /\ ops' \in {ops, ops + 1} \cap 0..(MaxOps - ready - busy')
  /\ UNCHANGED <<active, work, stopped, threads, caller, ready>>

\* run() finds no work left and stops the io_service.
OutOfWork ==
  /\ threads > 0 /\ ~stopped
  /\ ~work /\ ops = 0 /\ ready = 0 /\ busy = 0
  /\ stopped' = TRUE
  /\ UNCHANGED <<active, work, threads, busy, caller, ops, ready>>

\* An idle worker thread returns from run() on a stopped io_service.
WorkerExit ==
  /\ threads > busy /\ stopped
  /\ threads' = threads - 1
  /\ UNCHANGED <<active, work, stopped, busy, caller, ops, ready>>

Next ==
  \/ Start \/ Stop \/ StopService \/ StopReturn
  \/ StartOp \/ Complete \/ RunHandler \/ HandlerReturn
  \/ OutOfWork \/ WorkerExit

\* The worker threads are scheduled, the thread in stop() goes on, and
\* join returns once the workers have all left run().  Operations need not complete (a pending accept waits for a
\* client for ever); the caller need not call anything.
Fairness ==
  /\ WF_vars(RunHandler) /\ WF_vars(HandlerReturn)
  /\ WF_vars(OutOfWork) /\ WF_vars(WorkerExit)
  /\ WF_vars(StopService) /\ WF_vars(StopReturn)

Spec == Init /\ [][Next]_vars

FairSpec == Spec /\ Fairness

-----------------------------------------------------------------------------
(***************************************************************************)
(* Properties.                                                             *)
(***************************************************************************)

TypeOK ==
  /\ active \in BOOLEAN /\ work \in BOOLEAN /\ stopped \in BOOLEAN
  /\ threads \in 0..NumThreads /\ busy \in 0..threads
  /\ caller \in {"idle", "stopping", "joining"}
  /\ ops \in Nat /\ ready \in Nat /\ ops + ready + busy <= MaxOps

\* Whenever the io_manager is not active -- constructed, or stopped and
\* not yet started again -- it is as its constructor left it: every worker
\* joined, no work guard, the io_service reset, no stop() under way.  So
\* start() never clears a pool of threads still running (std::thread's
\* destructor would terminate the program) and its new workers' run() does
\* not return at once on a stopped io_service.
CleanWhenInactive ==
  ~active => threads = 0 /\ ~work /\ ~stopped /\ caller = "idle"

\* Spec section 4.3: io_manager::stop() returns -- every worker leaves
\* run() and is joined -- even while operations are outstanding that will
\* never complete, such as an accept no client answers.
StopReturns == (caller # "idle") ~> (caller = "idle")

\* Spec section 4.3: stop() removes the work guard and lets in-flight
\* completions drain -- when it returns, no completed operation's handler
\* is left unrun.
StopDrainsHandlers ==
  [][caller = "joining" /\ caller' = "idle" => ready = 0]_vars

=============================================================================
