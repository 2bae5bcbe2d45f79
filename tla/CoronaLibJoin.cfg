CONSTANTS
  Coro = {c1, c2, c3}
  Main = Main
  None = None
  MaxWaits = 2
SPECIFICATION Spec
INVARIANT RunNeverBlocks
SYMMETRY MCSymmetry
\* The program ends once the Core is dropped.
CHECK_DEADLOCK FALSE
