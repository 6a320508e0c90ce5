SPECIFICATION FairSpec
CONSTANTS
  Workers = {w1, w2, w3}
  NrThreads = 3
  MaxTasks = 4
INVARIANTS TypeOK SlotsServed
PROPERTIES ImplementsForkJoin JoinReturns
CHECK_DEADLOCK FALSE
