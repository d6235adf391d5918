\* client::disconnect racing an end of stream: stop() runs twice and the
\* second cancel makes the first secure shutdown look clean.
CONSTANTS
  Sessions = {s1}
  NoSession = NoSession
  Role = "client"
  MaxSends = 1
SPECIFICATION Spec
INVARIANT
  CloseHookAtMostOnce
CHECK_DEADLOCK FALSE
