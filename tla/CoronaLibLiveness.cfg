CONSTANTS
  Coro = {c1, c2, c3}
  Main = Main
  None = None
  MaxWaits = 2
SPECIFICATION FairSpec
PROPERTY TerminatesUnlessShutdown
\* After the Core is dropped the program has ended: the thread stops.
CHECK_DEADLOCK FALSE
