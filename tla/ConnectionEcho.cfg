\* A client_session and a server_session with the default echo handler:
\* two requests of up to two bytes that look like length digits and
\* padding, a two-digit length field.
CONSTANTS
  Magic <- MCMagic
  LengthDigits = 2
  SizeWidth = 8
  Peer = "client_session"
  ContentChars = {"5", " "}
  MaxContent = 2
  MaxSends = 2
SPECIFICATION FairSpec
INVARIANT EchoReturnsRequest
PROPERTY RequestEventuallyAnswered
\* After the last request both sessions wait for bytes that never come:
\* an idle connection.
CHECK_DEADLOCK FALSE
