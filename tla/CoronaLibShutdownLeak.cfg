CONSTANTS
  Coro = {c1, c2}
  Main = Main
  None = None
  MaxWaits = 1
SPECIFICATION FairSpec
PROPERTY EveryStackReleased
\* After the Core is dropped the program has ended: the thread stops.
CHECK_DEADLOCK FALSE
