\* Three worker threads, up to four operations outstanding, ready or
\* running, start and stop any number of times.
CONSTANTS
  NumThreads = 3
  MaxOps = 4
SPECIFICATION FairSpec
PROPERTY StopDrainsHandlers
