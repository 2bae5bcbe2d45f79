CONSTANTS
  Items <- MCTestItems
  Capacity = 1   \* futures::unsync::mpsc::channel(1): capacity exactly 1
SPECIFICATION Spec
INVARIANT ProduceReportsLoss
\* Both tasks have returned: the program is over.
CHECK_DEADLOCK FALSE
