\* One start and a stop at any time, 2 clients, accept errors at any time.
CONSTANTS
  MaxStarts = 1
  MaxConnections = 2
SPECIFICATION FairSpec
PROPERTY AcceptedConnectionGetsSession
