\* Client sessions driven by a caller that may connect, send and disconnect
\* at any time, as the console loop of main.cpp does.
CONSTANTS
  Sessions = {s1, s2}
  NoSession = NoSession
  Role = "client"
  MaxSends = 1
SPECIFICATION FairSpec
PROPERTY
  StoppedSessionIsReleased
\* Once every session is closed with nothing pending, no step is left.
CHECK_DEADLOCK FALSE
