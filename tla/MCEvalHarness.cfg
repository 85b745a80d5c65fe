SPECIFICATION EvalSpec
CONSTANTS
  c1 = c1
  c2 = c2
  q1 = q1
  q2 = q2
  MemIds = {1, 2}
  Candidates = {c1, c2}
  ShouldAdmit = {c1}
  Linked = {c1}
  Queries = {q1, q2}
  Relevant <- MCRelevant
  K = 1
INVARIANTS EvalTypeOK SchemaFollowsVersion ReachableTablesAreIsolated ProvenanceFrom0005 RunLeavesNoTrace ReportCountsWhatIsStored
PROPERTY HistoryIsAppendOnly
