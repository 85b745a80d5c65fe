SPECIFICATION Spec
CONSTANTS
  m1 = m1
  m2 = m2
  m3 = m3
  m4 = m4
  Mems = {m1, m2, m3, m4}
  Match = {m1, m2, m3}
  HasEntities = TRUE
  Lengths = {0, 4, 12}
  Budgets = {2, 4}
  Limits = {2, 4}
  Multiplier = 1
SYMMETRY MemSymmetry
CHECK_DEADLOCK FALSE
INVARIANT AnyFailureEmptiesReply
