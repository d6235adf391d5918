-------------------------- MODULE IoManagerProofs --------------------------
(***************************************************************************)
(* Proofs about the io_manager of module IoManager, for every number of    *)
(* threads and every bound on the operations.                               *)
(***************************************************************************)
EXTENDS IoManager, TLAPS

\* The inductive invariant: CleanWhenInactive, with the count of running
\* handlers a number (so that an inactive manager, which has no thread,
\* has none running), and a stop() under way only on an active manager
\* whose work guard it has already reset.
IoInv ==
  /\ busy \in Nat
  /\ caller # "idle" => active /\ ~work
  /\ CleanWhenInactive

LEMMA IoInvInductive == IoInv /\ [Next]_vars => IoInv'
<1> SUFFICES ASSUME IoInv, [Next]_vars PROVE IoInv'
  OBVIOUS
<1>. USE DEF IoInv, CleanWhenInactive
<1>1. CASE Start
  BY <1>1 DEF Start
<1>2. CASE Stop
  BY <1>2 DEF Stop
<1>3. CASE StopService
  BY <1>3 DEF StopService
<1>4. CASE StopReturn
  BY <1>4 DEF StopReturn
<1>5. CASE StartOp
  BY <1>5 DEF StartOp
<1>6. CASE Complete
  BY <1>6 DEF Complete
<1>7. CASE RunHandler
  BY <1>7 DEF RunHandler
<1>8. CASE HandlerReturn
  BY <1>8 DEF HandlerReturn
<1>9. CASE OutOfWork
  BY <1>9 DEF OutOfWork
<1>10. CASE WorkerExit
  BY <1>10 DEF WorkerExit
<1>11. CASE UNCHANGED vars
  BY <1>11 DEF vars
<1>. QED
  BY <1>1, <1>2, <1>3, <1>4, <1>5, <1>6, <1>7, <1>8, <1>9, <1>10, <1>11
     DEF Next

\* Whatever the workers, the handlers and the caller do, an io_manager that
\* is not active has joined every worker, holds no work guard, has reset
\* its io_service and is not inside stop(): start() begins from the state
\* the constructor made.
THEOREM IoManagerCleanWhenInactive == Spec => []CleanWhenInactive
<1>1. Init => IoInv
  BY DEF Init, IoInv, CleanWhenInactive
<1>2. IoInv => CleanWhenInactive
  BY DEF IoInv
<1>. QED
  BY <1>1, <1>2, IoInvInductive, PTL DEF Spec

=============================================================================
