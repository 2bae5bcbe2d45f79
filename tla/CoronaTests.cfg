CONSTANTS
  A = A
  B = B
  Coro = {A, B}
  Main = Main
  None = None
  MaxWaits = 4
SPECIFICATION FairSpec
INVARIANT AssertsHold
PROPERTY TestsPass
\* Every test function returns and drops its Core.
CHECK_DEADLOCK FALSE
