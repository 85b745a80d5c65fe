SPECIFICATION Spec
CONSTANTS
  j1 = j1
  j2 = j2
  j3 = j3
  d1 = d1
  t1 = t1
  t2 = t2
  Jobs = {j1}
  Directs = {d1}
  Pii = {d1}
  UserFacts = {j1}
  Remotes = 0
  Workers = {w1}
  MaxQueueDepth = 1
  MaxHandlers = 1
  Tenants = {t1, t2}
  TenantOf <- MCTenantOf
  NoJob = NoJob
  NoTenant = NoTenant
INVARIANT EveryRowHasPiiVerdict
