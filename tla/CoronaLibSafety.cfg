CONSTANTS
  Coro = {c1, c2, c3}
  Main = Main
  None = None
  MaxWaits = 2
SPECIFICATION Spec
INVARIANT MailboxFraming
INVARIANT ReturnPathIntact
INVARIANT StackReleasedOnlyAfterExit
INVARIANT SuspendedIsTracked
INVARIANT StopsOnlyAtShutdown
SYMMETRY MCSymmetry
\* After the Core is dropped the program has ended: the thread stops.
CHECK_DEADLOCK FALSE
PROPERTY LifecycleRefined
