SPECIFICATION SessionSpec
CONSTANTS
  j1 = j1
  t1 = t1
  Jobs = {j1}
  Directs = {}
  Pii = {}
  UserFacts = {j1}
  Remotes = 1
  Workers = {w1}
  MaxQueueDepth = 1
  MaxHandlers = 1
  Tenants = {t1}
  TenantOf <- MCTenantOf
  NoJob = NoJob
  NoTenant = NoTenant
  Match = {j1}
  HasEntities = TRUE
  Lengths = {4}
  Budgets = {2}
  Limits = {3}
  Multiplier = 1
INVARIANTS SessionTypeOK AnswersAreTrue ReadYourWrites
PROPERTIES AnswersOnlyAdvance PollerIsAnswered
