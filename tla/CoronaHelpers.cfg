CONSTANTS
  Items <- MCItems
  Capacity = 1   \* futures::unsync::mpsc::channel(1): capacity exactly 1
SPECIFICATION FairSpec
INVARIANT InOrderNoLoss
INVARIANT CollectedAllAtEnd
PROPERTY BothFinish
\* Both tasks have returned: the program is over.
CHECK_DEADLOCK FALSE
