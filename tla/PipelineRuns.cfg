\* Two calls, two datasets, two items; a crash, and faults.
CONSTANTS
  c1 = c1  c2 = c2  d1 = d1  d2 = d2  i1 = i1  i2 = i2
  NoRun = NoRun
  Calls = {c1, c2}
  Datasets = {d1, d2}
  Items = {i1, i2}
  ItemsOf <- MCItemsOf
  Plans <- MCPlans
  MaxSets = 2
  MaxFaults = 2
SPECIFICATION FairSpec
INVARIANT TypeOK
INVARIANT MarkedIsStored
INVARIANT TornIsInLedger
INVARIANT ArtifactsAreOwned
INVARIANT CompletedIsMarked
INVARIANT StartedIsLive
PROPERTY OthersKeepTheirMarkers
PROPERTY CallsEnd
CHECK_DEADLOCK FALSE
