\* Two calls, two items, one dataset, two slots.
CONSTANTS
  c1 = c1  c2 = c2  i1 = i1  i2 = i2  d1 = d1  d2 = d2
  NoTask = NoTask  NoDataset = NoDataset
  Calls = {c1, c2}
  Items = {i1, i2}
  Tasks = {c1, c2, i1, i2}
  Datasets = {d1}
  Slots = 2
  Jobs = {"scope", "delete", "update", "run"}
  MaxLeak = 1
SPECIFICATION FairSpec
INVARIANT TypeOK
INVARIANT SlotsConserved
INVARIANT ScopeKeepsSlot
INVARIANT LockedExclude
PROPERTY TeardownSparesUsers
PROPERTY LockAndSlotWaitsEnd
CHECK_DEADLOCK FALSE
