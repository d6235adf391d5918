--------------------------- MODULE SessionLifecycle ---------------------------
(***************************************************************************)
(* What a micro_tcp session promises about its life, whatever its reads   *)
(* and writes do (spec sections 4.2 and 8): it is started once on a fresh  *)
(* connection, it may be stopped, its socket is closed once and stays      *)
(* closed, and on_close_socket() runs with that close or not at all --    *)
(* never before it, never twice.  Module Session is shown to implement it  *)
(* for server sessions.                                                     *)
(***************************************************************************)
CONSTANT Sessions

VARIABLES
  life,   \* per session: "new", "running", "stopping" or "closed"
  hooks   \* per session: runs of on_close_socket()

lvars == <<life, hooks>>

LInit ==
  /\ life = [s \in Sessions |-> "new"]
  /\ hooks = [s \in Sessions |-> 0]

\* The session is constructed on a connection and started.
Open(s) ==
  /\ life[s] = "new"
  /\ life' = [life EXCEPT ![s] = "running"]
  /\ UNCHANGED hooks

\* stop() is called on a running session.
Halt(s) ==
  /\ life[s] = "running"
  /\ life' = [life EXCEPT ![s] = "stopping"]
  /\ UNCHANGED hooks

\* The socket is closed; on_close_socket() runs then, unless the close
\* reported an error.
Close(s) ==
  /\ life[s] \in {"running", "stopping"}
  /\ life' = [life EXCEPT ![s] = "closed"]
  /\ \E h \in {0, 1} : hooks' = [hooks EXCEPT ![s] = h]

LNext == \E s \in Sessions : Open(s) \/ Halt(s) \/ Close(s)

LSpec == LInit /\ [][LNext]_lvars

=============================================================================
