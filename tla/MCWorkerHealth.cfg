SPECIFICATION FairSpec
CONSTANTS
  Workers = {w1, w2}
  Interval = 1
  StaleAfter = 3
  Timeout = 1
  Opening = 3
  Backoff = 1
INVARIANTS TypeOK OkMeansWorkerRan SteadyWorkerIsFresh
PROPERTY FreshInTheEnd
