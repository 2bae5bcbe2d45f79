CONSTANTS
  Coro = {c1, c2, c3}
  Main = Main
  None = None
  MaxWaits = 2
SPECIFICATION FairSpec
PROPERTY EveryStackReleased
\* The program ends once the dropped Core has cleaned up every coroutine.
CHECK_DEADLOCK FALSE
