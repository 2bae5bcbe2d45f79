CONSTANTS
  Snd = Snd
  Rcv = Rcv
  Done = Done
  Coro = {Snd, Rcv, Done}
  Main = Main
  None = None
  MaxWaits = 5
  Workloads <- MCWorkloads
  Capacities <- MCCapacities
SPECIFICATION FairSpec
PROPERTY TestPasses
\* The test function has returned and dropped the Core.
CHECK_DEADLOCK FALSE
