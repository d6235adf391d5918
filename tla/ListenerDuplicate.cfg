\* Two starts with stops at any time, 2 clients, accept errors at any time.
CONSTANTS
  MaxStarts = 2
  MaxConnections = 2
SPECIFICATION FairSpec
INVARIANT OneAcceptInFlight
