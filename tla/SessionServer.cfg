\* Server sessions: each handshakes as responder, then reads a request and
\* writes the response, in a loop, until an error stops it.
CONSTANTS
  Sessions = {s1, s2}
  NoSession = NoSession
  Role = "server"
  MaxSends = 0
SPECIFICATION FairSpec
INVARIANTS
  OneTransferInFlight
  CloseHookAtMostOnce
  StopEndsTransfers
PROPERTY
  StoppedSessionIsReleased
  LifecycleRefinement
\* Once every session is closed with nothing pending, no step is left.
CHECK_DEADLOCK FALSE
