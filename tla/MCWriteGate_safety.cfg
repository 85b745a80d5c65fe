SPECIFICATION Spec
CONSTANTS
  j1 = j1
  j2 = j2
  j3 = j3
  d1 = d1
  t1 = t1
  t2 = t2
  Jobs = {j1, j2}
  Directs = {d1}
  Pii = {j2, d1}
  UserFacts = {j1, j2}
  Remotes = 1
  Workers = {w1, w2}
  MaxQueueDepth = 1
  MaxHandlers = 2
  Tenants = {t1, t2}
  TenantOf <- MCTenantOf
  NoJob = NoJob
  NoTenant = NoTenant
SYMMETRY WorkerSymmetry
INVARIANTS TypeOK PiiStaysInside DecidedOnce DirectWriteIsAudited OnlyOwnerSeesJob GateInv
PROPERTY ImplementsLedger
