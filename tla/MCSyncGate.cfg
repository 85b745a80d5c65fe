SPECIFICATION FairSpec
CONSTANTS
  Jobs = {j1, j2}
  Directs = {}
  Pii = {j2}
  UserFacts = {j1}
  Remotes = 1
INVARIANT TypeOK
PROPERTIES ImplementsLedger FinishedIsFinal QueuedEnds
