\* Two cognify runs of one dataset; one item fails.
CONSTANTS
  c1 = c1  c2 = c2  d1 = d1  d2 = d2  i1 = i1  i2 = i2
  NoRun = NoRun
  Calls = {c1, c2}
  Datasets = {d1, d2}
  Items = {i1, i2}
  ItemsOf <- MCItemsOf
  Plans <- OnePlan
  MaxSets = 2
  MaxFaults = 1
SPECIFICATION Spec
INVARIANT FailedWritesAreSwept
CHECK_DEADLOCK FALSE
