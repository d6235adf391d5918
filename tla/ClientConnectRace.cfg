\* Two client_connect calls typed one after the other, each resolving and
\* connecting to a server that accepts.
CONSTANTS
  c1 = c1
  c2 = c2
  NoCall = NoCall
  Calls = {c1, c2}
SPECIFICATION CSpec
INVARIANT SessionStartsOnConnection
\* Once both calls are done, nothing is left to happen.
CHECK_DEADLOCK FALSE
