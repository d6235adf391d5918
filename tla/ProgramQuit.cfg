\* The console program: two server starts on an endpoint with a free and a
\* busy port, one connection from another client, two client_connect
\* calls to the configured endpoint, two workers and one session
\* operation at a time.
CONSTANTS
  a1 = a1
  p1 = p1
  p2 = p2
  c1 = c1
  c2 = c2
  NoCall = NoCall
  Addresses = {a1}
  Ports = {p1, p2}
  BusyPorts = {p2}
  MaxStarts = 2
  MaxConnections = 1
  Calls = {c1, c2}
  NumThreads = 2
  MaxOps = 1
SPECIFICATION PSpec
INVARIANTS
  AcceptedSocketOpen
  ConnectionAwaitsHandler
  IoCleanWhenInactive
PROPERTIES
  NoHandlerAfterExit
  QuitExits
  ServerQuietAfterStop
  ClientConnectionTaken
\* main returns after quit: the program stops there.
CHECK_DEADLOCK FALSE
