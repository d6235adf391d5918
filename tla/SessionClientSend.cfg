\* client::send starts do_write_header whenever the socket is open, even
\* while the handshake or a previous exchange is still running.
CONSTANTS
  Sessions = {s1}
  NoSession = NoSession
  Role = "client"
  MaxSends = 1
SPECIFICATION Spec
INVARIANT
  OneTransferInFlight
CHECK_DEADLOCK FALSE
